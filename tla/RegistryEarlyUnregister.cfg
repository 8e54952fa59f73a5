SPECIFICATION Spec
CONSTANTS
    l1 = l1 l2 = l2 o1 = o1 o2 = o2 o3 = o3 s1 = s1 d1 = d1 m1 = m1
    Objects = {o1, o2}
    FromProgram = {o1, o2}
    Servers = {}
    Drivers = {}
    Listeners = {}
    Delayed = {}
    OnRegister <- NoNesting
    OrdersBefore = {}
    OrdersAfter = {}
    Uses = {"early_unregister"}
INVARIANTS
    AllSent
