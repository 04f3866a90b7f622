CONSTANTS
    w1 = w1
    w2 = w2
    Workers <- MCOneWorker
    Runs <- MCTwoRuns
    NTasks <- MCTwoAndOneTask
    Dataset <- MCTwoDatasets
    RunPool <- MCTwoPools
    WorkerPool <- MCWorkerPool
    MaxInFlight <- MCTwoUnlimited
    MaxAttempts = 1
    MaxActiveTasks = 1
    MaxActiveRuns = 0
    LeaseDuration = 1
    BackoffBase = 1
    BackoffMax = 1
    MaxFaults = 0
SPECIFICATION FairSpec
PROPERTIES
    RunDecided
