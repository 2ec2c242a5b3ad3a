\* A folder that is watched without a restart.  It may stop for good: a failed
\* initial sync leaves it off until the next start, and there is one start.
CONSTANTS
    FileNames = {"a"}
    DirNames = {"d"}
    MaxId = 4
    Seed <- SeedTree
    Resumed = TRUE
    EditsWhileOff = FALSE
    UploadAnswersMd5 = FALSE
    ChownNotifies = TRUE
    MayChown = TRUE
    Budget <- WatchBudget

SPECIFICATION FairSpec
CHECK_DEADLOCK FALSE

INVARIANTS
    NoSilentDivergence


    
