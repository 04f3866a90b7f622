CONSTANTS
    w1 = w1
    w2 = w2
    Workers <- MCTwoWorkers
    Runs <- MCOneRun
    NTasks <- MCTwoTasks
    Dataset <- MCOneDataset
    RunPool <- MCOnePool
    WorkerPool <- MCWorkerPool
    MaxInFlight <- MCUnlimited
    MaxAttempts = 2
    MaxActiveTasks = 0
    MaxActiveRuns = 0
    LeaseDuration = 1
    BackoffBase = 1
    BackoffMax = 1
    MaxFaults = 1
SYMMETRY Symmetry
SPECIFICATION Spec
INVARIANTS
    SingleOwner
    RowsAgree
    CommitOnlyComplete
PROPERTIES
    OutcomeIsFinal
