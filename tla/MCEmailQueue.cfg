SPECIFICATION FairQueueSpec
CONSTANTS
    Tasks = {t1, t2}
    Malformed = {t2}
    MaxRetry = 2
    Concurrency = 1
INVARIANTS
    QueueTypeOK
    OneHandlerPerTask
    CompletedWasDelivered
    DuplicateOnlyAfterInterruption
PROPERTIES EveryTaskSettles
