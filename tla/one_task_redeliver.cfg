SPECIFICATION Spec
CONSTANTS
    JobIDs = {j1}
    UUIDs = {u1, u2, u3}
    RetryLimit = 1
    MaxTime = 2
    MaxStream = 1
    NoJob = NoJob
    NoTask = NoTask
    Features = {"redeliver"}
SYMMETRY Symmetry
INVARIANT AtMostOneTask
