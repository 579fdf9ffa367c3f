\* Three submitters, of which main also creates and destroys the pool.
CONSTANTS
    RequestedWorkers = 2
    RequestedCapacity = 2
    Submitters = {main, s2, s3}
    Owner = main
    Tasks = {t1, t2, t3, t4}
    NoTask = NoTask
SPECIFICATION FairSpec
INVARIANTS
    NoLostWorkerWakeup
    NoLostSubmitterWakeup
    NobodySleepsThroughShutdown
    RingConsistent
    TasksInOnePlace
    NoUseAfterFree
PROPERTIES
    ImplementsTaskPool
    EveryAcceptedTaskRuns
    DestroyReturns
    SubmitReturns
