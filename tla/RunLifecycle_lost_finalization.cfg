CONSTANTS
    w1 = w1
    w2 = w2
    Workers <- MCOneWorker
    Runs <- MCOneRun
    NTasks <- MCOneTask
    Dataset <- MCOneDataset
    RunPool <- MCOnePool
    WorkerPool <- MCWorkerPool
    MaxInFlight <- MCUnlimited
    MaxAttempts = 1
    MaxActiveTasks = 0
    MaxActiveRuns = 0
    LeaseDuration = 1
    BackoffBase = 1
    BackoffMax = 1
    MaxFaults = 1
SPECIFICATION FairSpec
PROPERTIES
    RunDecided
