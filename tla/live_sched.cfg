SPECIFICATION LongSpec
CONSTANTS
    JobIDs = {j1}
    UUIDs = {u1}
    RetryLimit = 1
    MaxTime = 1
    MaxStream = 1
    NoJob = NoJob
    NoTask = NoTask
    Features = {"edit", "delete", "run", "savefail"}
PROPERTY ConfAdopted
PROPERTY DeletedIsEvicted
PROPERTY QueuedIsServed
