\* One folder that is started twice.
CONSTANTS
    Folders = {f1}
    LocalWorks = {lw}
    Texts = {te}
    MaxGeneration = 2
    MaxRevision = 3
    None = None

SPECIFICATION Spec

INVARIANTS
    AtMostOneWorker
