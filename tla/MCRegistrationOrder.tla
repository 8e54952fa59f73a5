------------------------- MODULE MCRegistrationOrder -------------------------
(***************************************************************************)
(* define_registration_order adds partial orders one by one; the events    *)
(* are those of Types in a fixed order, and one type has no event.         *)
(***************************************************************************)
EXTENDS RegistrationOrder

CONSTANTS t1, t2, t3, t4,   \* the types of the events
          Absent,           \* a type without event
          MaxOrders,        \* bound: number of orders that are defined
          MaxLength         \* bound: length of an order

ASSUME OrdersAssumption == MaxOrders \in Nat /\ MaxLength \in Nat

VARIABLE order_infos   \* ref_registration_order_infos

Types == <<t1, t2, t3, t4>>
TypeEvents == [k \in DOMAIN Types |-> [obj |-> Types[k]]]

OrdersInit == order_infos = {}

DefineRegistrationOrder ==
    /\ Cardinality(order_infos) < MaxOrders
    /\ \E order \in BoundedSeq(ToSet(Types) \cup {Absent}, MaxLength) :
            order_infos' = order_infos \cup {order}

OrdersSpec == OrdersInit /\ [][DefineRegistrationOrder]_order_infos

Permuted == Permutation(TypeEvents, order_infos)

\* register.h: the order found is in accordance to the combined partial order;
\* a cycle in it does not spoil the orders that are not part of the cycle.
\* Whatever is defined the result is a permutation: the abort in
\* sort_registration_events is unreachable and no event is lost.
OrdersHold == InOrder(TypeEvents, order_infos, Permuted)

\* What sort_registration_events keeps of the actual order: an event overtakes
\* another only if an order, perhaps through further events, asks for one that
\* does not come after the other to be after it.  register.h:42 promises "the
\* order closest to the actual registration order", and that is not computed: for
\* the order <<t4, t3, t1>> the result is 4, 3, 1, 2, which turns five pairs round;
\* 2, 4, 3, 1 turns four round (and lets 2 overtake 1, which nothing asks for).
OvertakesForAReason == OvertakesIfRequired(TypeEvents, order_infos, Permuted)
=============================================================================
