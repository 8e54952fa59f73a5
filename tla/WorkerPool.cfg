SPECIFICATION FairSpec
CONSTANTS
    Workers = {w1, w2}
    Guests = {g1, g2}
    Unknown = Unknown
    MaxTasks = 3
INVARIANTS
    TypeOK
    TaskAlive
PROPERTIES
    ExecutesOnceAndJoins
    CallsReturn
