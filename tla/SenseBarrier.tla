---------------------------- MODULE SenseBarrier ----------------------------
(***************************************************************************)
(* SenseReversingBarrier (libs/point_cloud/concurrency.h): a barrier for   *)
(* Count arrivals.  Each thread keeps, in a map keyed by its id, the sense *)
(* it waits for next; the last arrival of a phase flips the barrier's      *)
(* sense, rearms the counter and notifies everybody.                       *)
(*                                                                         *)
(* await holds barrier_mutex except inside condition.wait, so the part     *)
(* before the wait and the part after a wake-up are one step each.         *)
(***************************************************************************)
EXTENDS Integers, FiniteSets

CONSTANTS Threads,    \* the threads that may call await
          Count,      \* the constructor's argument
          Unknown     \* a thread with no entry in thread_sense yet

ASSUME CountAssumption == Count \in Nat \ {0}
ASSUME UnknownAssumption == Unknown \notin BOOLEAN

VARIABLES remaining,       \* arrivals still missing in this phase
          barrier_sense,
          thread_sense,    \* the map: thread -> sense of its next await
          waiting,         \* threads inside condition.wait
          notified,        \* of those, the ones that were woken up
          sense            \* await's local variable

barrierVars ==
    <<remaining, barrier_sense, thread_sense, waiting, notified, sense>>

BarrierTypeOK ==
    /\ remaining \in 1..Count
    /\ barrier_sense \in BOOLEAN
    /\ thread_sense \in [Threads -> BOOLEAN \cup {Unknown}]
    /\ waiting \in SUBSET Threads
    /\ notified \in SUBSET waiting
    /\ sense \in [Threads -> BOOLEAN]

BarrierInit ==
    /\ remaining = Count
    /\ barrier_sense = FALSE
    /\ thread_sense = [t \in Threads |-> Unknown]
    /\ waiting = {}
    /\ notified = {}
    /\ sense = [t \in Threads |-> FALSE]
-----------------------------------------------------------------------------
(* await, up to the point where the thread returns or starts to wait       *)

\* The sense await looks up, or the one it makes up for a new thread.
LookupSense(t) ==
    IF thread_sense[t] = Unknown THEN ~barrier_sense ELSE thread_sense[t]

\* Mutant: the sense is stored as it is.
KeepSense(t, s) == thread_sense' = [thread_sense EXCEPT ![t] = s]

\* The last statement of await.
ReverseSense(t, s) == thread_sense' = [thread_sense EXCEPT ![t] = ~s]

\* Mutants: the counter is not rearmed; nobody is notified.
ArriveLastNoRearm(t) ==
    /\ t \notin waiting
    /\ remaining = 1
    /\ remaining' = 0
    /\ barrier_sense' = ~barrier_sense
    /\ notified' = waiting
    /\ sense' = [sense EXCEPT ![t] = LookupSense(t)]
    /\ ReverseSense(t, LookupSense(t))
    /\ UNCHANGED waiting

ArriveLastSilently(t) ==
    /\ t \notin waiting
    /\ remaining = 1
    /\ remaining' = Count
    /\ barrier_sense' = ~barrier_sense
    /\ sense' = [sense EXCEPT ![t] = LookupSense(t)]
    /\ ReverseSense(t, LookupSense(t))
    /\ UNCHANGED <<waiting, notified>>

\* The last missing arrival completes the phase and returns.
ArriveLast(t) ==
    /\ t \notin waiting
    /\ remaining = 1
    /\ remaining' = Count
    /\ barrier_sense' = ~barrier_sense
    /\ notified' = waiting
    /\ sense' = [sense EXCEPT ![t] = LookupSense(t)]
    /\ ReverseSense(t, LookupSense(t))
    /\ UNCHANGED waiting

\* An arrival that finds the sense it is looking for already there returns.
ArrivePast(t) ==
    /\ t \notin waiting
    /\ remaining > 1
    /\ LookupSense(t) = barrier_sense
    /\ remaining' = remaining - 1
    /\ sense' = [sense EXCEPT ![t] = LookupSense(t)]
    /\ ReverseSense(t, LookupSense(t))
    /\ UNCHANGED <<barrier_sense, waiting, notified>>

\* Any other arrival waits.
ArriveWait(t) ==
    /\ t \notin waiting
    /\ remaining > 1
    /\ LookupSense(t) # barrier_sense
    /\ remaining' = remaining - 1
    /\ sense' = [sense EXCEPT ![t] = LookupSense(t)]
    /\ waiting' = waiting \cup {t}
    /\ UNCHANGED <<barrier_sense, thread_sense, notified>>

\* As long as everybody takes part in every phase only ArriveWait happens: a
\* stale sense needs a thread that missed a phase, as a guest of WorkerPool may.
ArriveEarly(t) ==
    IF LookupSense(t) = barrier_sense THEN ArrivePast(t) ELSE ArriveWait(t)
-----------------------------------------------------------------------------
(* the loop around condition.wait                                          *)

\* A condition variable may wake a thread for no reason.
SpuriousWakeup(t) ==
    /\ t \in waiting \ notified
    /\ notified' = notified \cup {t}
    /\ UNCHANGED <<remaining, barrier_sense, thread_sense, waiting, sense>>

\* A woken thread that sees its sense returns.
Resume(t) ==
    /\ t \in notified
    /\ sense[t] = barrier_sense
    /\ waiting' = waiting \ {t}
    /\ notified' = notified \ {t}
    /\ ReverseSense(t, sense[t])
    /\ UNCHANGED <<remaining, barrier_sense, sense>>

\* Otherwise it waits again.
WaitAgain(t) ==
    /\ t \in notified
    /\ sense[t] # barrier_sense
    /\ notified' = notified \ {t}
    /\ UNCHANGED <<remaining, barrier_sense, thread_sense, waiting, sense>>
-----------------------------------------------------------------------------
(* The barrier alone: Threads that call await again and again.             *)

AwaitStep(t) ==
    \/ ArriveLast(t) \/ ArriveEarly(t)
    \/ Resume(t) \/ WaitAgain(t)

BarrierNext == \E t \in Threads : AwaitStep(t) \/ SpuriousWakeup(t)

BarrierSpec == BarrierInit /\ [][BarrierNext]_barrierVars

\* Every thread keeps running, and comes back to the barrier.
FairBarrierSpec == BarrierSpec /\ \A t \in Threads : WF_barrierVars(AwaitStep(t))
-----------------------------------------------------------------------------
(* Correctness, when exactly Count threads use the barrier                 *)

\* Threads held back in the current phase, and threads whose phase is over.
Held == {t \in waiting : sense[t] # barrier_sense}
Free == {t \in waiting : sense[t] = barrier_sense}

Phase == INSTANCE PhaseBarrier WITH arrived <- Held, released <- Free

\* The barrier separates phases: no thread leaves await before all Count
\* threads have entered it, and a thread still inside from the last phase is
\* never counted, released or lost by the next one.
SeparatesPhases == Phase!Spec

\* No lost wake-up: a thread whose phase is complete has been notified, so
\* the notification it needs is never one it missed by flipping twice.
FreeAreNotified == Free \subseteq notified

\* Whoever waits at the barrier gets out again.
EverybodyLeaves == \A t \in Threads : t \in waiting ~> t \notin waiting

\* The strengthening the proof needs: the counter counts the threads not held
\* back, and a thread outside looks for the sense the barrier has not yet.
SenseAgrees ==
    /\ remaining = Count - Cardinality(Held)
    /\ \A t \in Threads \ waiting : thread_sense[t] # barrier_sense
    /\ FreeAreNotified
=============================================================================
