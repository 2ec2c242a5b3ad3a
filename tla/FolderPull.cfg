\* The first synchronisation of a folder, which may take several starts.  It may
\* stop for good: a failed initial sync leaves it off until the next start.
CONSTANTS
    FileNames = {"a", "b"}
    DirNames = {"d"}
    MaxId = 3
    Seed <- SeedPull
    Resumed = FALSE
    EditsWhileOff = FALSE
    UploadAnswersMd5 = FALSE
    ChownNotifies = TRUE
    MayChown = TRUE
    Budget <- PullBudget

SPECIFICATION Spec
CHECK_DEADLOCK FALSE

INVARIANTS
    KnownConsistentStart
