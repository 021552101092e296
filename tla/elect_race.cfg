SPECIFICATION Spec
CONSTANTS
    Servers = {s1, s2}
    MaxTicket = 2
    Free = Free
    Ghost = Ghost
    Features = {"expire"}
SYMMETRY Symmetry
INVARIANT AtMostOneLeader
