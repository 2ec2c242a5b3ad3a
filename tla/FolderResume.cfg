\* A folder that was synchronised before, with users that edit both sides at any
\* time.  It may stop for good: a failed initial sync leaves it off until the
\* next start, and starts are bounded.
CONSTANTS
    FileNames = {"a"}
    DirNames = {"d"}
    MaxId = 3
    Seed <- SeedTree
    Resumed = TRUE
    EditsWhileOff = TRUE
    UploadAnswersMd5 = FALSE
    ChownNotifies = TRUE
    MayChown = TRUE
    Budget <- ResumeBudget

SPECIFICATION Spec
CHECK_DEADLOCK FALSE

INVARIANTS
    TypeOK
    TrackedChangesNotLost
