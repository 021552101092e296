SPECIFICATION Spec
CONSTANTS
    JobIDs = {j1, j2}
    UUIDs = {u1, u2}
    RetryLimit = 1
    MaxTime = 1
    MaxStream = 1
    NoJob = NoJob
    NoTask = NoTask
    Features = {"slow", "create"}
SYMMETRY Symmetry
INVARIANT AtMostOneTask
PROPERTY LaunchRecorded
PROPERTY RunsOneByOne
