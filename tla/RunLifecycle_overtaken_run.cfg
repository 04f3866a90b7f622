CONSTANTS
    w1 = w1
    w2 = w2
    Workers <- MCOneWorker
    Runs <- MCThreeRuns
    NTasks <- MCOneTaskEach
    Dataset <- MCDatasetReused
    RunPool <- MCThreePools
    WorkerPool <- MCWorkerPool
    MaxInFlight <- MCThreeUnlimited
    MaxAttempts = 1
    MaxActiveTasks = 0
    MaxActiveRuns = 1
    LeaseDuration = 1
    BackoffBase = 1
    BackoffMax = 1
    MaxFaults = 0
SPECIFICATION Spec
PROPERTIES
    AdmittedInOrder
