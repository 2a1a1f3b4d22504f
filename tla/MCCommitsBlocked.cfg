SPECIFICATION SSpec
CONSTANTS
    Notes = {f1, f2}
    Contents = {c1, c2}
    Unhashed = Unhashed
    NoToken = NoToken
    MaxMtime = 2
CHECK_DEADLOCK FALSE
INVARIANT PulledNotesCanBeCommitted
