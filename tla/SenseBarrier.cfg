SPECIFICATION FairBarrierSpec
CONSTANTS
    Threads = {t1, t2, t3, t4}
    Count = 4
    Unknown = Unknown
INVARIANTS
    BarrierTypeOK
    SenseAgrees
PROPERTIES
    SeparatesPhases
    EverybodyLeaves
