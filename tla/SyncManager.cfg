\* The window: two clicks or three folders in the picker, one failure, signals that
\* may be lost.
SPECIFICATION Spec
CONSTANTS
    DriveFolders = {root, sub}
    Root = root
    MaxGeneration = 2
    MaxFlight = 2
    MaxQueue = 2
    MaxOperations = 2
    MaxPicks = 3
    MaxFault = 1
INVARIANTS
    TypeOK
    FlagsTruthful
    NoOlderThanTold
    WaitingMeansSignedOut
    PickerShowsAskedFolder
PROPERTY Settles
