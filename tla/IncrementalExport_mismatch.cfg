CONSTANTS
    Checks = {"immutable"}
    MaxCursor = 2
    Hashes = {h1}
    MaxCopies = 2
    MaxTasks = 2
    MaxRowHashes = 1
    MaxRuns = 2
    Engines = {"sql"}
    Domains = {"int64"}
    Lookbacks = {0}
SPECIFICATION Spec
INVARIANTS
    MismatchIsLoss
