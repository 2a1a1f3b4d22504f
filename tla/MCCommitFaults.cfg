SPECIFICATION SyncedSpec
CONSTANTS
    d1 = d1  d2 = d2
    i1 = i1  i2 = i2  i3 = i3
    f1 = f1  f2 = f2  f3 = f3
    b1 = b1  b2 = b2
    p1 = p1
    Devices = {d1, d2}
    Editors = {d1}
    Tandem = {}
    Intents = {i1, i2, i3}
    Files = {f1, f2, f3}
    Blobs = {b1}
    Paths = {p1}
    PathOf <- OnePath
    Absent = Absent
    Deleted = Deleted
    Server = Server
    Retention = 0
    MaxTime = 0
    MaxCalls = 2
    MaxFaults = 2
SYMMETRY MCSymmetry
INVARIANTS
    AckMeansApplied
    ReclaimedEverywhere
