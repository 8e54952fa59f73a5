------------------------- MODULE RegistrationOrder -------------------------
(***************************************************************************)
(* sort_registration_events (cgv/base/register.cxx): the registration      *)
(* events are permuted so that user-defined partial orders hold, by a      *)
(* depth-first traversal that appends an event after those it depends on.  *)
(*                                                                         *)
(* An event is a record with a field obj that stands for its type name; an *)
(* order is a sequence of type names.  Types of events are distinct.       *)
(***************************************************************************)
EXTENDS Integers, SequencesExt, Subsequences

Indices(events) == 1..Len(events)

\* The indices of the first event of each type named by order, as they are found.
EventIndices(events, order) ==
    LET named == Only(order, {events[i].obj : i \in Indices(events)})
    IN  [k \in 1..Len(named) |-> Min({i \in Indices(events) : events[i].obj = named[k]})]

\* combined_partial_order: the events that must come right before event i.
Predecessors(events, orders, i) ==
    UNION {LET idx == EventIndices(events, order)
           IN  {idx[k] : k \in {m \in 1..Len(idx) - 1 : idx[m + 1] = i}} : order \in orders}

\* Mutant: a dependency is appended without its own dependencies.
DescendOneLevel(events, orders, appended) ==
    LET first == Min(Indices(events) \ appended)
        missing == Predecessors(events, orders, first) \ (appended \cup {first})
    IN  IF missing = {} THEN first ELSE Min(missing)

\* Mutant: the events are visited from the last one.
DescendFromLast(events, orders, appended) ==
    LET down[path \in Seq(Indices(events))] ==
            LET missing == Predecessors(events, orders, Last(path))
                                \ (appended \cup ToSet(path))
            IN  IF missing = {} THEN Last(path)
                ELSE down[Append(path, Min(missing))]
    IN  down[<<Max(Indices(events) \ appended)>>]

\* add_partially_ordered: from the first event of path follow the first
\* dependency not appended and not on the path, to one that has none.  A
\* dependency on the path is the cyclic case, reported and skipped.
Descend(events, orders, appended) ==
    LET down[path \in Seq(Indices(events))] ==
            LET missing == Predecessors(events, orders, Last(path))
                                \ (appended \cup ToSet(path))
            IN  IF missing = {} THEN Last(path)
                ELSE down[Append(path, Min(missing))]
    IN  down[<<Min(Indices(events) \ appended)>>]

\* permutation, after k indices have been appended
Permutation(events, orders) ==
    LET perm[k \in 0..Len(events)] ==
            IF k = 0 THEN <<>>
            ELSE Append(perm[k - 1], Descend(events, orders, ToSet(perm[k - 1])))
    IN  perm[Len(events)]

SortRegistrationEvents(events, orders) ==
    LET permutation == Permutation(events, orders)
    IN  [i \in Indices(events) |-> events[permutation[i]]]
-----------------------------------------------------------------------------
(* What is asked of the result                                             *)

\* The pairs <<j, k>> such that event k has to come after event j, by one order
\* or by a chain of them: whatever contains the predecessors of k and those of
\* its members contains j.
Required(events, orders) ==
    LET before == [k \in Indices(events) |-> Predecessors(events, orders, k)]
        closed == {S \in SUBSET Indices(events) : \A k \in S : before[k] \subseteq S}
    IN  {p \in Indices(events) \X Indices(events) :
            \A S \in closed : before[p[2]] \subseteq S => p[1] \in S}

\* All indices are there, and an event comes before one that an order asks for
\* before it only if that is required to be after it as well: on a cycle.
InOrder(events, orders, permutation) ==
    /\ Len(permutation) = Len(events) /\ ToSet(permutation) = Indices(events)
    /\ LET required == Required(events, orders)
       IN  \A j, k \in Indices(events) :
            permutation[k] \in Predecessors(events, orders, permutation[j]) /\ j < k =>
                <<permutation[j], permutation[k]>> \in required

\* An event overtakes another only if it is required before one that does not
\* come after the other.  This is what the traversal keeps of the actual order;
\* it is not the least number of pairs that are turned round.
OvertakesIfRequired(events, orders, permutation) ==
    LET required == Required(events, orders)
    IN  \A j, k \in Indices(events) :
            j < k /\ permutation[j] > permutation[k] =>
                \E m \in 1..permutation[k] : <<permutation[j], m>> \in required
=============================================================================
