SPECIFICATION FairSpec
CONSTANTS
    Tasks = {t1, t2}
    Goroutines = {g1, g2}
INVARIANT TypeOK
INVARIANT AtMostOneRound
INVARIANT RoundsGoOn
PROPERTY LostTaskResolved
CHECK_DEADLOCK FALSE
