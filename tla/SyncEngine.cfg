\* Two folders, so that a worker of one can race the operations on the other,
\* and three runs, so that one of them can be restarted twice.
CONSTANTS
    Folders = {f1, f2}
    LocalWorks = {lw}
    Texts = {te}
    MaxGeneration = 3
    MaxRevision = 5
    None = None

SPECIFICATION Spec
SYMMETRY Symmetry

INVARIANTS
    TypeOK
    ActivityIsTruthful
    NoOrphanWorker
    BoardMatchesHandles
    ErrorsFromCurrentRun

PROPERTIES
    NoSilentChange
    ErrorsOutliveOtherWork
