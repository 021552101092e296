SPECIFICATION Spec
CONSTANTS
    JobIDs = {j1, j2}
    Clients = {c1, c2, c3}
    Images = {i1}
    Empty = Empty
    Nil = Nil
    Params = {"cpus"}
    Optional = {}
    Tasks = {t1}
    NoNode = NoNode
    Features = {"create", "update", "delete", "handle", "cleanup", "iofail"}
SYMMETRY Symmetry
INVARIANT TypeOK
INVARIANT RemovedIsGone
INVARIANT UndisturbedIsReadable
INVARIANT StoredIsLaunchable
PROPERTY ListIsComplete
CONSTRAINT FewOfAKind
CONSTRAINT OneByOne
