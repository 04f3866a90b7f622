SPECIFICATION Spec
CONSTANT NoOne = NoOne
INVARIANTS
    WorkerTypesOK
    RunsAsAsked
    ExitZeroMeansSucceeded
    EachRowOnce
    SourceReadOnce
    
    SuccessIsTrue
    OutputHasEveryRow
    UploadsWithinLimit
PROPERTY
    DeletesOnlyGarbage
CHECK_DEADLOCK FALSE
