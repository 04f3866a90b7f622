CONSTANTS
    w1 = w1
    w2 = w2
    Workers <- MCOneWorker
    Runs <- MCOneRun
    NTasks <- MCTwoTasks
    Dataset <- MCOneDataset
    RunPool <- MCOnePool
    WorkerPool <- MCWorkerPool
    MaxInFlight <- MCOneInFlight
    MaxAttempts = 2
    MaxActiveTasks = 0
    MaxActiveRuns = 0
    LeaseDuration = 1
    BackoffBase = 1
    BackoffMax = 1
    MaxFaults = 2
SPECIFICATION FairSpec
INVARIANTS
    WithinLimits
PROPERTIES
    LostAttemptReclaimed
    ImplementsContract
