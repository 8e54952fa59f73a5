SPECIFICATION Spec
CONSTANTS
    l1 = l1 l2 = l2 o1 = o1 o2 = o2 o3 = o3 s1 = s1 d1 = d1 m1 = m1
    Objects = {d1, l1, o2, m1}
    FromProgram = {d1, l1, m1}
    Servers = {m1}
    Drivers = {d1}
    Listeners = {m1, l1}
    Delayed = {l1}
    OnRegister <- D1Registers
    OrdersBefore = {}
    OrdersAfter = {}
    Uses = {"cleanup", "permanent", "raw_constructor"}
INVARIANTS
    AllSent
    NoneDangling
PROPERTIES
    RegisteredOnce
