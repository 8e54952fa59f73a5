----------------------------- MODULE MCRegistry -----------------------------
(* Instances of Registry: which objects there are and what they are.       *)
EXTENDS Registry
CONSTANTS l1, l2, o1, o2, o3, s1, d1, m1

NoNesting == [o \in Objects |-> <<>>]
Nesting(outer, inner) == [o \in Objects |-> IF o = outer THEN <<inner>> ELSE <<>>]

O1Registers == Nesting(o1, o3)
D1Registers == Nesting(d1, o2)

\* Type l2 before o1 among the constructors, o2 before l1 among the objects
OrdersOfConstructors == {<<l2, o1>>}
OrdersOfObjects == {<<o2, l1>>}
=============================================================================
