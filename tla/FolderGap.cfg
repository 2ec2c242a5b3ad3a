\* The first synchronisation of a folder while a user edits on Drive.
CONSTANTS
    FileNames = {"a"}
    DirNames = {}
    MaxId = 2
    Seed <- SeedFile
    Resumed = FALSE
    EditsWhileOff = FALSE
    UploadAnswersMd5 = FALSE
    ChownNotifies = TRUE
    MayChown = TRUE
    Budget <- GapBudget

SPECIFICATION Spec
CHECK_DEADLOCK FALSE

INVARIANTS
    KnownConsistentStart
