\* A daemon that may not give files to the configured owner.
CONSTANTS
    FileNames = {"a"}
    DirNames = {}
    MaxId = 2
    Seed <- SeedFile
    Resumed = FALSE
    EditsWhileOff = FALSE
    UploadAnswersMd5 = FALSE
    ChownNotifies = TRUE
    MayChown = FALSE
    Budget <- QuietBudget

SPECIFICATION Spec
CHECK_DEADLOCK FALSE

INVARIANTS
    ChownNeverStopsSync
