SPECIFICATION Spec
CONSTANTS
    Signals = {s1, b1}
    BoolSignals = {b1}
    Tackers = {t1, t2}
    Slots = {m1}
    NoTacker = NoTacker
    MaxFunctors = 2
    MaxDepth = 2
    InCallback = {"connect", "emit"}
    Assignment = TRUE
INVARIANTS
    TypeOK
    CountsAgree
    NoneLeaksNoneDangles
PROPERTIES
    CallsEachOnce
    CallsOnlyConnected
CHECK_DEADLOCK FALSE
