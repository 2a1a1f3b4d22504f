SPECIFICATION Spec
CONSTANTS
    f1 = f1  f2 = f2  f3 = f3
    p1 = p1  p2 = p2  p3 = p3
    c1 = c1  c2 = c2
    u1 = u1  u2 = u2
    Files = {f1, f2, f3}
    Paths = {p1, p2, p3}
    Contents = {c1, c2}
    Drafts = {u1}
    Absent = Absent
    MaxFaults = 2
    MaxEdits = 0
SYMMETRY MCSymmetry
CHECK_DEADLOCK FALSE
INVARIANTS
    MovedBytesSurvive
    QuietApplyHasNoConflicts
