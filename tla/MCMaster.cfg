SPECIFICATION Spec
CONSTANTS
    x1 = x1
    x2 = x2
SYMMETRY Symmetry
INVARIANTS
    MasterTypesOK
    SuccessIsDurable
    CommittedOnce
    TableFilesReadable
    StreamsLoseNothing
    RemoteRowsAreTrue
    SecretsOpen
    StackIsAccountedFor
PROPERTIES
    PublicationStands
    CatalogIsHonest
    RowsFollowRuns
    WritesInOrder
    AccessIsInForce
    MigrationIsSafe
CHECK_DEADLOCK FALSE
