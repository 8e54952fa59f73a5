------------------------------ MODULE ForkJoin ------------------------------
(***************************************************************************)
(* What a worker pool promises: a task that is issued is executed once by  *)
(* each of its participants, no other is issued and the pool does not      *)
(* close before all of them have done so.                                  *)
(***************************************************************************)
EXTENDS Naturals

CONSTANTS Workers, Guests

VARIABLES busy,      \* a task has been issued and its issuer has not joined it
          owed,      \* executions each thread still owes to issued tasks
          open       \* the pool can still be used

fjVars == <<busy, owed, open>>

Threads == Workers \cup Guests

Init == busy = FALSE /\ owed = [t \in Threads |-> 0] /\ open = TRUE

\* P is the set of threads that take part.
Fork(P) ==
    /\ open /\ ~busy
    /\ busy' = TRUE
    /\ owed' = [t \in Threads |-> IF t \in P THEN owed[t] + 1 ELSE owed[t]]
    /\ UNCHANGED open

Execute(t) ==
    /\ busy
    /\ owed[t] > 0
    /\ owed' = [owed EXCEPT ![t] = @ - 1]
    /\ UNCHANGED <<busy, open>>

Join ==
    /\ busy
    /\ \A t \in Threads : owed[t] = 0
    /\ busy' = FALSE
    /\ UNCHANGED <<owed, open>>

Close ==
    /\ open /\ ~busy
    /\ open' = FALSE
    /\ UNCHANGED <<busy, owed>>

Next ==
    \/ Fork(Workers)
    \/ \E g \in Guests : Fork(Workers \cup {g})
    \/ \E t \in Threads : Execute(t)
    \/ Join
    \/ Close

Spec == Init /\ [][Next]_fjVars
=============================================================================
