\* Two folders, two daemons one after the other, two changes in each, one fault.
CONSTANTS
    Folders = {f1, f2}
    MaxLife = 2
    MaxRevision = 2
    MaxFault = 1
    MaxQueue = 2

SPECIFICATION Spec

INVARIANTS
    TypeOK
    RevisionNamesBoard

PROPERTIES
    NeverGoesBack
    Settles
    LastRevisionSignalled
