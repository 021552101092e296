SPECIFICATION Spec
CONSTANTS
    JobIDs = {j1}
    UUIDs = {u1}
    RetryLimit = 0
    MaxTime = 1
    MaxStream = 1
    NoJob = NoJob
    NoTask = NoTask
    Features = {"secretfail"}
SYMMETRY Symmetry
INVARIANT FailureReportable
