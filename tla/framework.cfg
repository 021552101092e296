SPECIFICATION FairSpec
CONSTANTS
    Servers = {s1, s2}
    Ids = {f1, f2, f3}
    None = None
    MaxRemovals = 1
    Features = {"depose", "astray", "crash", "iofail", "drop", "remove"}
INVARIANT TypeOK
INVARIANT ServedIsStored
PROPERTY FrameworkInherited
PROPERTY IdentifierKept
CHECK_DEADLOCK FALSE
PROPERTY Recovers
