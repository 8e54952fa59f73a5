SPECIFICATION OrdersSpec
CONSTANTS
    t1 = t1 t2 = t2 t3 = t3 t4 = t4
    Absent = x
    MaxOrders = 2
    MaxLength = 3
INVARIANTS
    OrdersHold
    OvertakesForAReason
CHECK_DEADLOCK FALSE
