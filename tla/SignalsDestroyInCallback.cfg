SPECIFICATION Spec
CONSTANTS
    Signals = {s1}
    BoolSignals = {}
    Tackers = {t1, t2}
    Slots = {m1}
    NoTacker = NoTacker
    MaxFunctors = 3
    MaxDepth = 2
    InCallback = {"destroy"}
    Assignment = FALSE
PROPERTIES
    CallsOnlyConnected
CHECK_DEADLOCK FALSE
