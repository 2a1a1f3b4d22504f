SPECIFICATION ProgressSpec
CONSTANTS
    Uploaders = {"d1", "d2"}
    Resumers = {"d1"}
    Payloads = {"b1", "b2"}
    EmptyPayloads = {"b2"}
    ChunksOf <- MCChunksOf
    MaxTrouble = 2
    Artifacts = {x}
    Iterations = 1
    MaxMishaps = 1
CHECK_DEADLOCK FALSE
INVARIANTS
    ProgressTypeOK
    AvailableIsWhole
PROPERTIES
    DevicesUpload
    PanelReopensGate
