\* One folder; four sign-ins and sign-outs in each lifetime of the daemon.
CONSTANTS
    Folders = {f1}
    MaxGeneration = 4

SPECIFICATION Spec
CHECK_DEADLOCK FALSE

INVARIANTS
    TypeOK
    WorkersMatchConfig
    ConfigIsOnDisk
    OneSignInAtATime
    SignalsInOrder

PROPERTIES
    CancelledStaysOut
    GateReopens
    KeepsItsPromise
