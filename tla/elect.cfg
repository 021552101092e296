SPECIFICATION FairSpec
CONSTANTS
    Servers = {s1, s2}
    MaxTicket = 3
    Free = Free
    Ghost = Ghost
    Features = {"expire", "lostreply", "crash", "runfails"}
INVARIANT TypeOK
INVARIANT LeaderHoldsTicket
INVARIANT ReconnectedIsClean
INVARIANT NoLostWakeup
PROPERTY OnlyUnheardAreOrphaned
PROPERTY LeaderElected
PROPERTY ImplementsLeadership
