\* Both scripts: two batches, more jobs than the level of concurrency.
CONSTANTS
    Scripts = {"failed", "incomplete"}
    Length = 5
    Level = 2
    BatchSize = 4
    MinBatch = 1
    Rate <- Tripling
SPECIFICATION Spec
INVARIANTS
    TypeOK
    ExistingJobsWritten
    WrittenAtMostOnce
    QueriesBounded
PROPERTIES
    Ends
CHECK_DEADLOCK FALSE
