SPECIFICATION Spec
CONSTANTS
    JobIDs = {j1}
    UUIDs = {u1, u2}
    RetryLimit = 0
    MaxTime = 2
    MaxStream = 1
    NoJob = NoJob
    NoTask = NoTask
    Features = {"secretfail", "failover", "redeliver", "recon"}
SYMMETRY Symmetry
INVARIANT TypeOK
INVARIANT RunsPerPeriod
INVARIANT AckedIsRecorded
