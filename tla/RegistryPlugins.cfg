SPECIFICATION Spec
CONSTANTS
    l1 = l1 l2 = l2 o1 = o1 o2 = o2 o3 = o3 s1 = s1 d1 = d1 m1 = m1
    Objects = {l1, l2, o1, o2, o3}
    FromProgram = {l1, l2, o1, o2}
    Servers = {}
    Drivers = {}
    Listeners = {l1, l2}
    Delayed = {l2, o2}
    OnRegister <- O1Registers
    OrdersBefore <- OrdersOfConstructors
    OrdersAfter <- OrdersOfObjects
    Uses = {}
INVARIANTS
    TypeOK
    ListenersKnow
    ToldOnce
ACTION_CONSTRAINT
    Orderly
