SPECIFICATION QueueSpec
CONSTANTS
    Tasks = {t1, t2, t3}
    Malformed = {t3}
    MaxRetry = 1
    Concurrency = 2
INVARIANTS ShutdownWaitsForHandlers
