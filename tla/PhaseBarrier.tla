---------------------------- MODULE PhaseBarrier ----------------------------
(***************************************************************************)
(* What a barrier promises: a thread that arrives stays inside until every *)
(* thread of the phase has arrived, then it may leave, and it must leave   *)
(* before it can arrive again.                                             *)
(***************************************************************************)
CONSTANT Threads

VARIABLES arrived,    \* threads held in the current phase
          released    \* threads whose phase is complete and that may leave

phaseVars == <<arrived, released>>

Outside == Threads \ (arrived \cup released)

Init == arrived = {} /\ released = {}

\* A thread arrives and others are still missing.
Arrive(t) ==
    /\ t \in Outside
    /\ arrived \cup {t} # Threads
    /\ arrived' = arrived \cup {t}
    /\ UNCHANGED released

\* The last missing thread arrives: it goes on, all others may leave.
Complete(t) ==
    /\ t \in Outside
    /\ arrived \cup {t} = Threads
    /\ released' = arrived
    /\ arrived' = {}

Leave(t) ==
    /\ t \in released
    /\ released' = released \ {t}
    /\ UNCHANGED arrived

Next == \E t \in Threads : Arrive(t) \/ Complete(t) \/ Leave(t)

Spec == Init /\ [][Next]_phaseVars
=============================================================================
