SPECIFICATION Spec
CONSTANTS
    Devices = {d1, d2}
    Intents = {i1, i2, i3}
    Files = {f1}
    Blobs = {b1}
    Absent = Absent
    Server = Server
    Retention = 1
    MaxTime = 1
    MaxCalls = 1
ACTION_CONSTRAINTS
    SmallPayloads
    SomeoneStays
SYMMETRY Symmetry
INVARIANTS
    TypeOK
    IntentOwnsOneRevision
    
    RevisionsAreDownloadable
PROPERTIES
    OnlyAckedTombstonesCollected
    PastIsFixed
