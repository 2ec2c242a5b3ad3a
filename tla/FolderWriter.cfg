\* Two local edits and none on Drive.  The answer to an upload holds kind, id,
\* name and mimeType only, unless the request asks for other fields.
CONSTANTS
    FileNames = {"a"}
    DirNames = {}
    MaxId = 2
    Seed <- SeedFile
    Resumed = TRUE
    EditsWhileOff = FALSE
    UploadAnswersMd5 = FALSE
    ChownNotifies = FALSE
    MayChown = TRUE
    Budget <- WriterBudget

SPECIFICATION Spec
CHECK_DEADLOCK FALSE

PROPERTIES
    LastWriterWins
