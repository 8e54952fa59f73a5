---------------------------- MODULE Threads_proofs ----------------------------
(***************************************************************************)
(* Proofs about the threading utilities.  SenseReversingBarrier for any    *)
(* number of threads: types, the inductive invariant SenseAgrees, and that *)
(* the barrier separates phases.  OsThread: its types, and that the class  *)
(* is safe for masters that only start, stop and destroy, however often    *)
(* and in whatever order.                                                  *)
(***************************************************************************)
EXTENDS SenseBarrier, OsThread, FiniteSetTheorems, TLAPS

-----------------------------------------------------------------------------
(* The barrier                                                             *)

\* The barrier is used by as many threads as it was constructed for.
Participants == IsFiniteSet(Threads) /\ Cardinality(Threads) = Count

\* A sense is one of two values: two senses that differ from a third agree.
LEMMA BooleanSense ==
    ASSUME BarrierTypeOK
    PROVE  /\ barrier_sense \in BOOLEAN
           /\ \A t \in Threads : sense[t] \in BOOLEAN
           /\ \A t \in Threads : LookupSense(t) \in BOOLEAN
  BY UnknownAssumption, Zenon DEF BarrierTypeOK, LookupSense

\* The variables have their types whoever uses the barrier: the counter is
\* never 0 outside the critical section of await, only waiting threads are
\* notified.
THEOREM BarrierTypeCorrect == BarrierSpec => []BarrierTypeOK
<1>1. BarrierInit => BarrierTypeOK
  <2> SUFFICES ASSUME BarrierInit PROVE BarrierTypeOK
    OBVIOUS
  <2>1. remaining \in 1..Count
    BY CountAssumption DEF BarrierInit
  <2>2. thread_sense \in [Threads -> BOOLEAN \cup {Unknown}]
    BY Zenon DEF BarrierInit
  <2>3. sense \in [Threads -> BOOLEAN]
    BY Zenon DEF BarrierInit
  <2> QED
    BY <2>1, <2>2, <2>3, Zenon DEF BarrierInit, BarrierTypeOK
<1>2. BarrierTypeOK /\ [BarrierNext]_barrierVars => BarrierTypeOK'
  <2> SUFFICES ASSUME BarrierTypeOK, [BarrierNext]_barrierVars
               PROVE  BarrierTypeOK'
    OBVIOUS
  <2> USE DEF BarrierTypeOK
  <2>1. ASSUME NEW t \in Threads, ArriveLast(t) PROVE BarrierTypeOK'
    BY <2>1, CountAssumption, BooleanSense DEF ArriveLast, ReverseSense
  <2>2. ASSUME NEW t \in Threads, ArrivePast(t) PROVE BarrierTypeOK'
    BY <2>2, CountAssumption, BooleanSense DEF ArrivePast, ReverseSense
  <2>3. ASSUME NEW t \in Threads, ArriveWait(t) PROVE BarrierTypeOK'
    BY <2>3, CountAssumption, BooleanSense DEF ArriveWait
  <2>4. ASSUME NEW t \in Threads, SpuriousWakeup(t) PROVE BarrierTypeOK'
    BY <2>4 DEF SpuriousWakeup
  <2>5. ASSUME NEW t \in Threads, Resume(t) PROVE BarrierTypeOK'
    BY <2>5, BooleanSense DEF Resume, ReverseSense
  <2>6. ASSUME NEW t \in Threads, WaitAgain(t) PROVE BarrierTypeOK'
    BY <2>6 DEF WaitAgain
  <2>7. CASE UNCHANGED barrierVars
    BY <2>7 DEF barrierVars
  <2> QED
    BY <2>1, <2>2, <2>3, <2>4, <2>5, <2>6, <2>7 DEF BarrierNext, AwaitStep, ArriveEarly
<1> QED
  BY <1>1, <1>2, PTL DEF BarrierSpec
-----------------------------------------------------------------------------
(* The inductive invariant, for the threads the barrier is made for        *)

BarrierInv == BarrierTypeOK /\ SenseAgrees

\* A thread that arrives always looks for the sense the barrier has not yet.
LEMMA ArrivalsLookAhead ==
    ASSUME BarrierInv, NEW t \in Threads, t \notin waiting
    PROVE  LookupSense(t) = ~barrier_sense
<1>1. thread_sense[t] \in BOOLEAN \cup {Unknown} /\ barrier_sense \in BOOLEAN
  BY Zenon DEF BarrierInv, BarrierTypeOK
<1>2. thread_sense[t] # barrier_sense
  BY Zenon DEF BarrierInv, SenseAgrees
<1> QED
  BY <1>1, <1>2, Zenon DEF LookupSense

\* The threads held back are finitely many, so they can be counted.
LEMMA HeldFinite ==
    ASSUME Participants, BarrierTypeOK
    PROVE  /\ Held \subseteq Threads
           /\ IsFiniteSet(Held)
           /\ Cardinality(Held) \in Nat
<1>1. Held \in SUBSET Threads
  BY DEF Held, BarrierTypeOK
<1> QED
  BY <1>1, FS_Subset, FS_CardinalityType DEF Participants

\* When one arrival is missing, everybody but the arriving thread is held.
LEMMA LastArrivalCompletes ==
    ASSUME Participants, BarrierInv, remaining = 1,
           NEW t \in Threads, t \notin waiting
    PROVE  Held \cup {t} = Threads /\ waiting = Held
<1>1. t \notin Held
  BY DEF Held
<1>2. Cardinality(Held) = Count - 1
  BY HeldFinite, CountAssumption DEF BarrierInv, SenseAgrees
<1>3. IsFiniteSet(Held \cup {t}) /\ Cardinality(Held \cup {t}) = Count
  BY <1>1, <1>2, HeldFinite, FS_AddElement, CountAssumption DEF BarrierInv
<1>4. Held \cup {t} \in SUBSET Threads
  BY HeldFinite DEF BarrierInv
<1>5. Held \cup {t} = Threads
  BY <1>3, <1>4, FS_Subset DEF Participants
<1>6. waiting \subseteq Threads /\ Held \subseteq waiting
  BY DEF Held, BarrierInv, BarrierTypeOK
<1> QED
  BY <1>5, <1>6

\* What each step does to the sets of held and freed threads.
LEMMA ArriveLastSets ==
    ASSUME Participants, BarrierInv, NEW t \in Threads, ArriveLast(t)
    PROVE  /\ Held \cup {t} = Threads /\ waiting = Held
           /\ Held' = {} /\ Free' = waiting
<1>1. remaining = 1 /\ t \notin waiting /\ waiting' = waiting
  BY DEF ArriveLast
<1>2. Held \cup {t} = Threads /\ waiting = Held
  BY <1>1, LastArrivalCompletes
<1>3. \A u \in waiting : sense[u] = ~barrier_sense
  <2> TAKE u \in waiting
  <2>1. sense[u] \in BOOLEAN /\ barrier_sense \in BOOLEAN
    BY Zenon DEF BarrierInv, BarrierTypeOK
  <2>2. sense[u] # barrier_sense
    BY <1>2, Zenon DEF Held
  <2> QED
    BY <2>1, <2>2, Zenon
<1>4. \A u \in waiting : sense'[u] = sense[u]
  BY <1>1 DEF ArriveLast, BarrierInv, BarrierTypeOK
<1>5. barrier_sense' = ~barrier_sense
  BY DEF ArriveLast
<1>6. \A u \in waiting : sense'[u] = barrier_sense'
  BY <1>3, <1>4, <1>5, Zenon
<1> QED
  BY <1>1, <1>2, <1>6, Zenon DEF Held, Free

\* An arrival that waits is held back; nobody is freed.
LEMMA ArriveWaitSets ==
    ASSUME BarrierInv, NEW t \in Threads, ArriveWait(t)
    PROVE  t \notin Held /\ t \notin Free /\ Held' = Held \cup {t} /\ Free' = Free
<1>1. /\ t \notin waiting /\ waiting' = waiting \cup {t}
      /\ barrier_sense' = barrier_sense
  BY DEF ArriveWait
<1>2. sense'[t] # barrier_sense
  <2>1. LookupSense(t) # barrier_sense
    BY DEF ArriveWait
  <2>2. sense'[t] = LookupSense(t)
    BY Zenon DEF ArriveWait, BarrierInv, BarrierTypeOK
  <2> QED
    BY <2>1, <2>2, Zenon
<1>3. \A u \in waiting : sense'[u] = sense[u]
  BY <1>1 DEF ArriveWait, BarrierInv, BarrierTypeOK
<1> QED
  BY <1>1, <1>2, <1>3, Zenon DEF Held, Free

\* A thread that leaves was free; nobody else is affected.
LEMMA ResumeSets ==
    ASSUME BarrierInv, NEW t \in Threads, Resume(t)
    PROVE  t \in Free /\ Held' = Held /\ Free' = Free \ {t}
<1>1. /\ t \in waiting /\ sense[t] = barrier_sense /\ waiting' = waiting \ {t}
      /\ barrier_sense' = barrier_sense /\ sense' = sense
  BY DEF Resume, BarrierInv, BarrierTypeOK
<1> QED
  BY <1>1, Zenon DEF Held, Free

\* Steps that only wake threads up hold and free nobody.
LEMMA OtherStepsSets ==
    ASSUME UNCHANGED <<waiting, sense, barrier_sense>>
    PROVE  Held' = Held /\ Free' = Free
  BY Zenon DEF Held, Free

\* The invariant holds when the barrier has been constructed.
LEMMA BarrierInvInit ==
    ASSUME Participants, BarrierInit
    PROVE  BarrierInv
<1>1. BarrierTypeOK
  <2>1. remaining \in 1..Count
    BY CountAssumption DEF BarrierInit
  <2>2. thread_sense \in [Threads -> BOOLEAN \cup {Unknown}]
    BY Zenon DEF BarrierInit
  <2>3. sense \in [Threads -> BOOLEAN]
    BY Zenon DEF BarrierInit
  <2> QED
    BY <2>1, <2>2, <2>3, Zenon DEF BarrierInit, BarrierTypeOK
<1>2. Held = {} /\ Free = {}
  BY DEF BarrierInit, Held, Free
<1>3. remaining = Count - Cardinality(Held)
  BY <1>2, FS_EmptySet, CountAssumption DEF BarrierInit
<1>4. \A t \in Threads \ waiting : thread_sense[t] # barrier_sense
  BY UnknownAssumption, Zenon DEF BarrierInit
<1> QED
  BY <1>1, <1>2, <1>3, <1>4 DEF BarrierInv, SenseAgrees, FreeAreNotified

\* Every step of await keeps the invariant.
LEMMA BarrierInvNext ==
    ASSUME Participants, BarrierInv, BarrierTypeOK', [BarrierNext]_barrierVars
    PROVE  SenseAgrees'
<1>1. ASSUME NEW t \in Threads, ArriveLast(t) PROVE SenseAgrees'
  <2>1. Held' = {} /\ Free' = waiting /\ Held \cup {t} = Threads /\ waiting = Held
    BY <1>1, ArriveLastSets
  <2>2. remaining' = Count - Cardinality(Held')
    BY <1>1, <2>1, FS_EmptySet, CountAssumption DEF ArriveLast
  <2>3. thread_sense'[t] # barrier_sense'
    <3>1. t \notin waiting /\ barrier_sense' = ~barrier_sense
      BY <1>1 DEF ArriveLast
    <3>2. LookupSense(t) = ~barrier_sense
      BY <3>1, ArrivalsLookAhead
    <3>3. thread_sense'[t] = ~LookupSense(t)
      BY <1>1, Zenon DEF ArriveLast, ReverseSense, BarrierInv, BarrierTypeOK
    <3>4. barrier_sense \in BOOLEAN
      BY DEF BarrierInv, BarrierTypeOK
    <3> QED
      BY <3>1, <3>2, <3>3, <3>4, Zenon
  <2>4. \A u \in Threads \ waiting' : u = t
    BY <1>1, <2>1 DEF ArriveLast
  <2>5. Free' \subseteq notified'
    BY <1>1, <2>1 DEF ArriveLast
  <2> QED
    BY <2>2, <2>3, <2>4, <2>5, Zenon DEF SenseAgrees, FreeAreNotified
<1>2. ASSUME NEW t \in Threads, ArrivePast(t) PROVE FALSE
  <2>1. t \notin waiting /\ LookupSense(t) = barrier_sense
    BY <1>2 DEF ArrivePast
  <2>2. LookupSense(t) = ~barrier_sense /\ barrier_sense \in BOOLEAN
    BY <2>1, ArrivalsLookAhead DEF BarrierInv, BarrierTypeOK
  <2> QED
    BY <2>1, <2>2, Zenon
<1>3. ASSUME NEW t \in Threads, ArriveWait(t) PROVE SenseAgrees'
  <2>1. t \notin Held /\ Held' = Held \cup {t} /\ Free' = Free
    BY <1>3, ArriveWaitSets
  <2>2. Cardinality(Held') = Cardinality(Held) + 1
    BY <2>1, HeldFinite, FS_AddElement DEF BarrierInv
  <2>3. remaining = Count - Cardinality(Held) /\ remaining' = remaining - 1
    BY <1>3 DEF BarrierInv, SenseAgrees, ArriveWait
  <2>4. remaining' = Count - Cardinality(Held')
    BY <2>2, <2>3, HeldFinite, CountAssumption DEF BarrierInv
  <2>5. \A u \in Threads \ waiting' : thread_sense'[u] # barrier_sense'
    BY <1>3, Zenon DEF BarrierInv, SenseAgrees, ArriveWait
  <2>6. Free' \subseteq notified'
    BY <1>3, <2>1 DEF BarrierInv, SenseAgrees, FreeAreNotified, ArriveWait
  <2> QED
    BY <2>4, <2>5, <2>6 DEF SenseAgrees, FreeAreNotified
<1>4. ASSUME NEW t \in Threads, Resume(t) PROVE SenseAgrees'
  <2>1. Held' = Held /\ Free' = Free \ {t}
    BY <1>4, ResumeSets
  <2>2. thread_sense'[t] # barrier_sense'
    <3>1. sense[t] = barrier_sense /\ barrier_sense' = barrier_sense
      BY <1>4 DEF Resume
    <3>2. thread_sense'[t] = ~sense[t]
      BY <1>4, Zenon DEF Resume, ReverseSense, BarrierInv, BarrierTypeOK
    <3>3. barrier_sense \in BOOLEAN
      BY DEF BarrierInv, BarrierTypeOK
    <3> QED
      BY <3>1, <3>2, <3>3, Zenon
  <2>3. ASSUME NEW u \in Threads \ waiting', u # t
        PROVE  thread_sense'[u] # barrier_sense'
    <3>1. u \notin waiting
      BY <1>4, <2>3 DEF Resume
    <3>2. thread_sense'[u] = thread_sense[u] /\ barrier_sense' = barrier_sense
      BY <1>4, <2>3 DEF Resume, ReverseSense, BarrierInv, BarrierTypeOK
    <3> QED
      BY <3>1, <3>2, Zenon DEF BarrierInv, SenseAgrees
  <2>4. Free' \subseteq notified' /\ remaining' = Count - Cardinality(Held')
    BY <1>4, <2>1 DEF BarrierInv, SenseAgrees, FreeAreNotified, Resume
  <2> QED
    BY <2>2, <2>3, <2>4, Zenon DEF SenseAgrees, FreeAreNotified
<1>5. ASSUME NEW t \in Threads, WaitAgain(t) PROVE SenseAgrees'
  <2>1. Held' = Held /\ Free' = Free
    BY <1>5, OtherStepsSets DEF WaitAgain
  <2>2. t \notin Free
    BY <1>5, Zenon DEF WaitAgain, Free
  <2>3. Free' \subseteq notified'
    BY <1>5, <2>1, <2>2, Zenon DEF BarrierInv, SenseAgrees, FreeAreNotified, WaitAgain
  <2> QED
    BY <1>5, <2>1, <2>3, Zenon DEF BarrierInv, SenseAgrees, FreeAreNotified, WaitAgain
<1>6. ASSUME NEW t \in Threads, SpuriousWakeup(t) PROVE SenseAgrees'
  <2>1. Held' = Held /\ Free' = Free
    BY <1>6, OtherStepsSets DEF SpuriousWakeup
  <2>2. Free' \subseteq notified'
    BY <1>6, <2>1, Zenon DEF BarrierInv, SenseAgrees, FreeAreNotified, SpuriousWakeup
  <2> QED
    BY <1>6, <2>1, <2>2, Zenon DEF BarrierInv, SenseAgrees, FreeAreNotified, SpuriousWakeup
<1>7. CASE UNCHANGED barrierVars
  <2>1. Held' = Held /\ Free' = Free
    BY <1>7, OtherStepsSets DEF barrierVars
  <2> QED
    BY <1>7, <2>1, Zenon DEF BarrierInv, SenseAgrees, FreeAreNotified, barrierVars
<1> QED
  BY <1>1, <1>2, <1>3, <1>4, <1>5, <1>6, <1>7, Zenon DEF BarrierNext, AwaitStep, ArriveEarly

\* With Count threads the counter always counts the threads still missing, a
\* thread outside never looks for a stale sense, and no thread whose phase is
\* over has missed its notification.
THEOREM SenseAlwaysAgrees ==
    ASSUME Participants
    PROVE  BarrierSpec => []SenseAgrees
<1>1. BarrierInit => BarrierInv
  BY BarrierInvInit
<1>2. BarrierInv /\ BarrierTypeOK' /\ [BarrierNext]_barrierVars => BarrierInv'
  BY BarrierInvNext DEF BarrierInv
<1>3. BarrierInv => SenseAgrees
  BY DEF BarrierInv
<1> QED
  BY <1>1, <1>2, <1>3, BarrierTypeCorrect, PTL DEF BarrierSpec
-----------------------------------------------------------------------------
(* The refinement                                                          *)

\* A waiting thread is either held back or free.
LEMMA HeldAndFree ==
    ASSUME BarrierTypeOK
    PROVE  /\ waiting = Held \cup Free
           /\ Held \cap Free = {}
           /\ Threads \ waiting = Threads \ (Held \cup Free)
<1>1. \A u \in waiting : u \in Held \/ u \in Free
  BY Zenon DEF Held, Free
<1> QED
  BY <1>1 DEF Held, Free

\* Every step of the barrier is one of the abstract barrier, or invisible.
LEMMA StepSimulation ==
    ASSUME Participants, BarrierInv, [BarrierNext]_barrierVars
    PROVE  [Phase!Next]_<<Held, Free>>
<1> USE DEF Phase!Next, Phase!Outside
<1>0. BarrierTypeOK
  BY DEF BarrierInv
<1>1. ASSUME NEW t \in Threads, ArriveLast(t) PROVE Phase!Complete(t)
  <2>1. Held' = {} /\ Free' = waiting /\ Held \cup {t} = Threads /\ waiting = Held
    BY <1>1, ArriveLastSets
  <2>2. t \notin Held \cup Free
    BY <1>1, <1>0, HeldAndFree DEF ArriveLast
  <2> QED
    BY <2>1, <2>2 DEF Phase!Complete
<1>2. ASSUME NEW t \in Threads, ArrivePast(t) PROVE FALSE
  <2>1. t \notin waiting /\ LookupSense(t) = barrier_sense
    BY <1>2 DEF ArrivePast
  <2>2. LookupSense(t) = ~barrier_sense /\ barrier_sense \in BOOLEAN
    BY <1>0, <2>1, ArrivalsLookAhead DEF BarrierTypeOK
  <2> QED
    BY <2>1, <2>2, Zenon
<1>3. ASSUME NEW t \in Threads, ArriveWait(t) PROVE Phase!Arrive(t)
  <2>1. t \notin Held /\ t \notin Free /\ Held' = Held \cup {t} /\ Free' = Free
    BY <1>3, ArriveWaitSets
  <2>2. Held \cup {t} # Threads
    <3>1. Cardinality(Held \cup {t}) = Cardinality(Held) + 1
      BY <1>0, <2>1, HeldFinite, FS_AddElement
    <3>2. remaining > 1 /\ remaining = Count - Cardinality(Held)
      BY <1>3 DEF ArriveWait, BarrierInv, SenseAgrees
    <3>3. Cardinality(Held) \in Nat
      BY <1>0, HeldFinite
    <3>4. Cardinality(Held \cup {t}) # Count
      BY <3>1, <3>2, <3>3, CountAssumption
    <3> QED
      BY <3>4, Zenon DEF Participants
  <2> QED
    BY <2>1, <2>2 DEF Phase!Arrive
<1>4. ASSUME NEW t \in Threads, Resume(t) PROVE Phase!Leave(t)
  BY <1>4, ResumeSets DEF Phase!Leave
<1>5. ASSUME NEW t \in Threads, WaitAgain(t) \/ SpuriousWakeup(t)
      PROVE  Held' = Held /\ Free' = Free
  BY <1>5, OtherStepsSets DEF WaitAgain, SpuriousWakeup
<1>6. CASE UNCHANGED barrierVars
  BY <1>6, OtherStepsSets DEF barrierVars
<1> QED
  BY <1>1, <1>2, <1>3, <1>4, <1>5, <1>6 DEF BarrierNext, AwaitStep, ArriveEarly

\* The sense-reversing barrier is a barrier: no thread leaves await before all
\* Count threads of its phase have entered it.
THEOREM BarrierSeparatesPhases ==
    ASSUME Participants
    PROVE  BarrierSpec => SeparatesPhases
<1>1. BarrierInit => Phase!Init
  BY DEF BarrierInit, Phase!Init, Held, Free
<1>2. BarrierTypeOK /\ SenseAgrees /\ [BarrierNext]_barrierVars
        => [Phase!Next]_<<Held, Free>>
  BY StepSimulation DEF BarrierInv
<1>3. BarrierSpec => []BarrierTypeOK /\ []SenseAgrees
  BY BarrierTypeCorrect, SenseAlwaysAgrees
<1> QED
  BY <1>1, <1>2, <1>3, PTL DEF BarrierSpec, SeparatesPhases, Phase!Spec, Phase!phaseVars

-----------------------------------------------------------------------------
(* The thread                                                              *)

\* The inductive invariant says, for these masters, what each thread does while
\* the master is at a given place: a thread runs until stop is called, so that
\* at most one is alive, and it is the one the object points to.
Alive ==
    /\ starts \in Instances
    /\ thread_ptr = starts
    /\ joinable = {starts}

OnlyLatest ==
    \A k \in Instances : /\ k < starts => thread[k] = "ended"
                         /\ k > starts => thread[k] = "none"

NobodyRuns ==
    /\ joinable = {} /\ ~running
    /\ \A k \in Instances : k <= starts => thread[k] = "ended"

Protocol ==
    /\ ~terminated /\ ~touched /\ ~delete_after_termination
    /\ OnlyLatest
    /\ freed => master = "idle" /\ ~running
    /\ master \in {"created", "assigned"} =>
         /\ starts \in Instances /\ joinable = {starts} /\ ~stop_request
         /\ thread[starts] = "run" /\ (master = "assigned" => thread_ptr = starts)
    /\ master = "idle" /\ running =>
         Alive /\ ~stop_request /\ thread[starts] = "run"
    /\ master = "waiting" => Alive /\ ~stop_request /\ thread[starts] = "run"
    /\ master = "stopping" =>
         /\ Alive /\ thread[starts] \in {"run", "returned", "cleared", "ended"}
         /\ thread[starts] \in {"cleared", "ended"} => ~running
    /\ master = "joined" \/ (master = "idle" /\ ~running) => NobodyRuns

\* The destructor has given up a running thread, which has not gone on yet.
GivenUp == freed /\ master = "idle" /\ ~terminated

Inv ==
    /\ TypeOK
    /\ used = {} => Protocol
    /\ used = {"destroy"} /\ ~touched => GivenUp
------------------------------------------------------------------------------
LEMMA InitInv == Init => Inv
<1> SUFFICES ASSUME Init PROVE Inv
  OBVIOUS
<1> USE ThreadAssumption DEF Init, Instances, Null
<1>1. TypeOK
  <2>1. used \subseteq Uses /\ joinable \subseteq Instances
    OBVIOUS
  <2>2. thread \in [Instances -> {"none", "run", "returned", "cleared", "deleting", "ended"}]
    OBVIOUS
  <2>3. thread_ptr \in Instances \cup {Null} /\ starts \in 0..MaxStarts
    OBVIOUS
  <2>4. master \in {"idle", "created", "assigned", "stopping", "waiting", "joined"}
    OBVIOUS
  <2>5. /\ running \in BOOLEAN /\ stop_request \in BOOLEAN
        /\ delete_after_termination \in BOOLEAN
        /\ freed \in BOOLEAN /\ touched \in BOOLEAN /\ terminated \in BOOLEAN
    OBVIOUS
  <2> QED BY <2>1, <2>2, <2>3, <2>4, <2>5 DEF TypeOK
<1>2. Protocol
  <2>1. \A k \in Instances : thread[k] = "none" /\ ~(k < 0)
    OBVIOUS
  <2> QED BY <2>1 DEF Protocol, OnlyLatest, NobodyRuns
<1>3. used = {}
  OBVIOUS
<1> QED BY <1>1, <1>2, <1>3 DEF Inv

LEMMA TypeStep == TypeOK /\ [Next]_vars => TypeOK'
<1> SUFFICES ASSUME TypeOK, [Next]_vars PROVE TypeOK'
  OBVIOUS
<1> USE ThreadAssumption DEF TypeOK, Instances, Null
<1>1. (used \subseteq Uses)'
  <2>1. CASE UNCHANGED vars BY <2>1 DEF vars
  <2>2. ASSUME NEW k \in Instances, ThreadStep(k) \/ RunCompletes(k)
        PROVE  (used \subseteq Uses)'
    BY <2>2 DEF ThreadStep, RunPolls, RunStops, ClearRunning, CheckDelete,
                DeleteSelf, RunCompletes, Use
  <2>3. CASE MasterStep
    BY <2>3 DEF MasterStep, StorePointer, SetRunning, Join, JoinThrows, ClearStopRequest
  <2>4. CASE MasterCall
    BY <2>4 DEF MasterCall, Start, Stop, WaitForCompletion, Kill, Destroy, Use
  <2> QED BY <2>1, <2>2, <2>3, <2>4 DEF Next
<1>2. (joinable \subseteq Instances)'
  <2>1. CASE UNCHANGED vars BY <2>1 DEF vars
  <2>2. ASSUME NEW k \in Instances, ThreadStep(k) \/ RunCompletes(k)
        PROVE  (joinable \subseteq Instances)'
    BY <2>2 DEF ThreadStep, RunPolls, RunStops, ClearRunning, CheckDelete,
                DeleteSelf, RunCompletes, Destructor, GiveUp
  <2>3. CASE MasterStep
    BY <2>3 DEF MasterStep, StorePointer, SetRunning, Join, JoinThrows, ClearStopRequest
  <2>4. ASSUME NEW d \in BOOLEAN, Start(d) PROVE (joinable \subseteq Instances)'
    BY <2>4 DEF Start
  <2>5. CASE Stop \/ WaitForCompletion \/ Kill \/ Destroy
    BY <2>5 DEF Stop, WaitForCompletion, Kill, Destroy, Destructor, GiveUp
  <2> QED BY <2>1, <2>2, <2>3, <2>4, <2>5 DEF Next, MasterCall
<1> DEFINE Others == /\ thread \in [Instances -> {"none", "run", "returned", "cleared",
                                                "deleting", "ended"}]
                     /\ thread_ptr \in Instances \cup {Null}
                     /\ starts \in 0..MaxStarts
                     /\ master \in {"idle", "created", "assigned", "stopping",
                                    "waiting", "joined"}
                     /\ running \in BOOLEAN /\ stop_request \in BOOLEAN
                     /\ delete_after_termination \in BOOLEAN
                     /\ freed \in BOOLEAN /\ touched \in BOOLEAN
                     /\ terminated \in BOOLEAN
\* What kill and the destructor assign keeps its types.
<1> DEFINE Assigned == /\ thread_ptr \in Instances \cup {Null}
                       /\ running \in BOOLEAN /\ stop_request \in BOOLEAN
                       /\ freed \in BOOLEAN /\ touched \in BOOLEAN
                       /\ terminated \in BOOLEAN
<1>3. GiveUp => terminated' \in BOOLEAN /\ running' \in BOOLEAN
                /\ stop_request' \in BOOLEAN /\ thread_ptr' \in Instances \cup {Null}
  BY DEF GiveUp
<1>4. Destructor => Assigned'
  <2> SUFFICES ASSUME Destructor PROVE Assigned'
    OBVIOUS
  <2>1. touched' = TRUE \/ touched' = FALSE
    <3>1. touched' = (touched \/ freed) BY DEF Destructor, Touch
    <3> QED BY <3>1
  <2>2. terminated' = TRUE \/ terminated' = FALSE
    <3>1. CASE running BY <3>1, <1>3 DEF Destructor
    <3>2. CASE ~running
      <4>1. terminated' = (thread_ptr \in joinable) BY <3>2 DEF Destructor
      <4> QED BY <4>1
    <3> QED BY <3>1, <3>2
  <2>3. freed' = TRUE \/ freed' = FALSE
    <3>1. freed' = (freed \/ ~terminated') BY DEF Destructor
    <3> QED BY <3>1, <2>2
  <2>4. running' \in BOOLEAN /\ stop_request' \in BOOLEAN
        /\ thread_ptr' \in Instances \cup {Null}
    BY <1>3 DEF Destructor
  <2> QED BY <2>1, <2>2, <2>3, <2>4
<1>5. Others'
  <2>1. CASE UNCHANGED vars BY <2>1 DEF vars
  <2>2. ASSUME NEW k \in Instances, ThreadStep(k) \/ RunCompletes(k) PROVE Others'
    <3>6. CASE RunPolls(k) BY <3>6 DEF RunPolls, At, Touch
    <3>1. CASE RunStops(k) BY <3>1 DEF RunStops, At, Touch
    <3>2. CASE ClearRunning(k) BY <3>2 DEF ClearRunning, At, Touch, EndOfExecute
    <3>3. CASE CheckDelete(k) BY <3>3 DEF CheckDelete, At, Touch
    <3>4. CASE DeleteSelf(k)
      <4>1. Destructor BY <3>4 DEF DeleteSelf
      <4> QED BY <3>4, <4>1, <1>4 DEF DeleteSelf, At
    <3>5. CASE RunCompletes(k) BY <3>5 DEF RunCompletes, At
    <3> QED BY <2>2, <3>1, <3>2, <3>3, <3>4, <3>5, <3>6 DEF ThreadStep
  <2>3. CASE StorePointer BY <2>3 DEF StorePointer, Touch, Created
  <2>4. CASE SetRunning BY <2>4 DEF SetRunning, Touch
  <2>5. CASE Join BY <2>5 DEF Join
  <2>6. CASE JoinThrows BY <2>6 DEF JoinThrows
  <2>7. CASE ClearStopRequest BY <2>7 DEF ClearStopRequest
  <2>8. ASSUME NEW d \in BOOLEAN, Start(d) PROVE Others'
    <3>1. starts' \in 0..MaxStarts /\ master' = "created"
      BY <2>8 DEF Start
    <3>2. thread' \in [Instances -> {"none", "run", "returned", "cleared", "deleting",
                                     "ended"}]
      BY <2>8 DEF Start
    <3> QED BY <2>8, <3>1, <3>2 DEF Start
  <2>9. CASE Stop BY <2>9 DEF Stop, RequestAndJoin
  <2>10. CASE WaitForCompletion BY <2>10 DEF WaitForCompletion
  <2>11. CASE Kill BY <2>11, <1>3 DEF Kill
  <2>12. CASE Destroy
    <3>1. Destructor BY <2>12 DEF Destroy
    <3> QED BY <2>12, <3>1, <1>4 DEF Destroy
  <2> QED BY <2>1, <2>2, <2>3, <2>4, <2>5, <2>6, <2>7, <2>8, <2>9, <2>10, <2>11,
             <2>12 DEF Next, MasterStep, MasterCall
<1> QED BY <1>1, <1>2, <1>5

\* A step after which nothing unusual has been done follows the protocol.
LEMMA ProtocolStep ==
  ASSUME TypeOK, Protocol, used = {}, used' = {}, [Next]_vars
  PROVE  Protocol'
<1> USE ThreadAssumption DEF TypeOK, Protocol, OnlyLatest, NobodyRuns, Alive,
                             Instances, Null
<1>1. CASE UNCHANGED vars
  BY <1>1 DEF vars
<1>2. ASSUME NEW k \in Instances, ThreadStep(k) \/ RunCompletes(k) PROVE Protocol'
  <2>6. CASE RunPolls(k) BY <2>6 DEF RunPolls, At, Touch
  <2>1. CASE RunStops(k) BY <2>1 DEF RunStops, At, Touch
  <2>2. CASE ClearRunning(k) BY <2>2 DEF ClearRunning, At, Touch, EndOfExecute
  <2>3. CASE CheckDelete(k) BY <2>3 DEF CheckDelete, At, Touch
  <2>4. CASE DeleteSelf(k) BY <2>4 DEF DeleteSelf, At
  <2>5. CASE RunCompletes(k) BY <2>5 DEF RunCompletes, Use
  <2> QED BY <1>2, <2>1, <2>2, <2>3, <2>4, <2>5, <2>6 DEF ThreadStep
<1>3. CASE StorePointer BY <1>3 DEF StorePointer, Touch, Created
<1>4. CASE SetRunning BY <1>4 DEF SetRunning, Touch
<1>5. CASE Join BY <1>5 DEF Join, JoinReturns
<1>6. CASE JoinThrows BY <1>6 DEF JoinThrows
<1>7. CASE ClearStopRequest BY <1>7 DEF ClearStopRequest
<1>8. ASSUME NEW d \in BOOLEAN, Start(d) PROVE Protocol'
  <2>1. d = FALSE BY <1>8 DEF Start, Use
  <2>2. /\ master = "idle" /\ ~running /\ ~freed
        /\ starts + 1 \in Instances /\ starts' = starts + 1
        /\ joinable' = {starts + 1} /\ ~stop_request'
        /\ thread' = [thread EXCEPT ![starts + 1] = "run"]
    <3>1. /\ master = "idle" /\ ~running /\ ~freed /\ starts < MaxStarts
          /\ starts' = starts + 1 /\ joinable' = joinable \cup {starts + 1}
          /\ stop_request' = FALSE
          /\ thread' = [thread EXCEPT ![starts + 1] = "run"]
      BY <1>8 DEF Start, Call, MayStart
    <3>2. joinable = {}
      BY <3>1
    <3>3. starts + 1 \in Instances
      BY <3>1
    <3> QED BY <3>1, <3>2, <3>3
  <2>3. OnlyLatest' /\ thread'[starts + 1] = "run"
    <3> SUFFICES ASSUME NEW k \in Instances
                 PROVE  /\ k < starts + 1 => thread'[k] = "ended"
                        /\ k > starts + 1 => thread'[k] = "none"
                        /\ thread'[starts + 1] = "run"
      BY <2>2
    <3>1. thread'[starts + 1] = "run" /\ (k # starts + 1 => thread'[k] = thread[k])
      BY <2>2
    <3>2. k < starts + 1 => k < starts \/ k = starts
      BY <2>2
    <3> QED BY <3>1, <3>2, <2>2
  <2> QED BY <1>8, <2>1, <2>2, <2>3 DEF Start
<1>9. CASE Stop BY <1>9 DEF Stop, Call, RequestAndJoin
<1>10. CASE WaitForCompletion BY <1>10 DEF WaitForCompletion, Call
<1>11. CASE Kill BY <1>11 DEF Kill, Use
<1>12. CASE Destroy
  <2>1. ~running BY <1>12 DEF Destroy, Use
  <2> QED BY <1>12, <2>1 DEF Destroy, Destructor, Call, Touch
<1> QED BY <1>1, <1>2, <1>3, <1>4, <1>5, <1>6, <1>7, <1>8, <1>9, <1>10, <1>11,
           <1>12 DEF Next, MasterCall, MasterStep

\* What has been done stays done.
LEMMA UsedGrows == [Next]_vars => used \subseteq used'
<1> SUFFICES ASSUME [Next]_vars PROVE used \subseteq used'
  OBVIOUS
<1> USE DEF Use
<1>1. CASE UNCHANGED vars
  BY <1>1 DEF vars
<1>2. ASSUME NEW k \in Instances, ThreadStep(k) \/ RunCompletes(k)
      PROVE  used \subseteq used'
  BY <1>2 DEF ThreadStep, RunPolls, RunStops, ClearRunning, CheckDelete, DeleteSelf,
              RunCompletes
<1>3. CASE MasterStep
  BY <1>3 DEF MasterStep, StorePointer, SetRunning, Join, JoinThrows, ClearStopRequest
<1>4. CASE MasterCall
  BY <1>4 DEF MasterCall, Start, Stop, WaitForCompletion, Kill, Destroy
<1> QED BY <1>1, <1>2, <1>3, <1>4 DEF Next

\* The destructor of a running thread that master has not joined gives it up.
LEMMA DestroyRunning ==
  ASSUME TypeOK, Protocol, used = {}, used' = {"destroy"}, [Next]_vars
  PROVE  GivenUp'
<1>1. Destroy /\ running
  <2>1. CASE UNCHANGED vars BY <2>1 DEF vars
  <2>2. ASSUME NEW k \in Instances, ThreadStep(k) \/ RunCompletes(k) PROVE FALSE
    BY <2>2 DEF ThreadStep, RunPolls, RunStops, ClearRunning, CheckDelete, DeleteSelf,
                RunCompletes, Use
  <2>3. CASE MasterStep
    BY <2>3 DEF MasterStep, StorePointer, SetRunning, Join, JoinThrows, ClearStopRequest
  <2>4. CASE MasterCall
    BY <2>4 DEF MasterCall, Start, Stop, WaitForCompletion, Kill, Destroy, Use
  <2> QED BY <2>1, <2>2, <2>3, <2>4 DEF Next
<1>2. master = "idle" /\ ~terminated /\ master' = master
  BY <1>1 DEF Destroy, Call
<1>3. thread_ptr \in joinable
  BY <1>1, <1>2 DEF Protocol, Alive
<1>4. terminated' = terminated
  BY <1>1, <1>3 DEF Destroy, Destructor, GiveUp
<1>5. freed' = (freed \/ ~terminated')
  BY <1>1 DEF Destroy, Destructor
<1> QED BY <1>2, <1>4, <1>5 DEF GivenUp

\* Whatever is then done accesses the object, or is another use of it.
LEMMA GivenUpStep ==
  ASSUME TypeOK, GivenUp, used = {"destroy"}, used' = {"destroy"}, ~touched',
         [Next]_vars
  PROVE  GivenUp'
<1> USE DEF GivenUp
<1>1. CASE UNCHANGED vars BY <1>1 DEF vars
<1>2. ASSUME NEW k \in Instances, ThreadStep(k) \/ RunCompletes(k) PROVE FALSE
  <2>1. ~Touch
    <3> SUFFICES ASSUME Touch PROVE FALSE
      OBVIOUS
    <3>1. touched' = (touched \/ freed) BY DEF Touch
    <3> QED BY <3>1
  <2>2. ThreadStep(k) => Touch
    BY Zenon DEF ThreadStep, RunPolls, RunStops, ClearRunning, CheckDelete, DeleteSelf,
                 Destructor
  <2>3. RunCompletes(k) => "complete" \in used'
    BY Zenon DEF RunCompletes, Use
  <2> QED BY <1>2, <2>1, <2>2, <2>3
<1>3. CASE MasterStep
  BY <1>3 DEF MasterStep, StorePointer, SetRunning, Join, JoinThrows, ClearStopRequest
<1>4. CASE MasterCall
  BY <1>4 DEF MasterCall, Start, Stop, WaitForCompletion, Kill, Destroy, Call
<1> QED BY <1>1, <1>2, <1>3, <1>4 DEF Next

\* Nothing undoes an access.
LEMMA TouchedStays == TypeOK /\ [Next]_vars /\ touched => touched'
<1> SUFFICES ASSUME TypeOK, [Next]_vars, touched PROVE touched'
  OBVIOUS
<1> USE DEF Touch
<1>1. CASE UNCHANGED vars BY <1>1 DEF vars
<1>2. ASSUME NEW k \in Instances, ThreadStep(k) \/ RunCompletes(k) PROVE touched'
  <2>1. touched' = (touched \/ freed) \/ touched' = touched
    BY <1>2, Zenon DEF ThreadStep, RunPolls, RunStops, ClearRunning, CheckDelete,
                       DeleteSelf, RunCompletes, Destructor
  <2> QED BY <2>1
<1>3. CASE MasterStep
  BY <1>3 DEF MasterStep, StorePointer, SetRunning, Join, JoinThrows, ClearStopRequest
<1>4. CASE MasterCall
  BY <1>4 DEF MasterCall, Start, Stop, WaitForCompletion, Kill, Destroy, Destructor
<1> QED BY <1>1, <1>2, <1>3, <1>4 DEF Next

LEMMA NextInv == Inv /\ [Next]_vars => Inv'
<1> SUFFICES ASSUME Inv, [Next]_vars PROVE Inv'
  OBVIOUS
<1>1. TypeOK'
  BY TypeStep DEF Inv
<1>2. ASSUME used' = {} PROVE Protocol'
  <2>1. used = {} BY <1>2, UsedGrows
  <2> QED BY <1>2, <2>1, ProtocolStep DEF Inv
<1>3. ASSUME used' = {"destroy"}, ~touched' PROVE GivenUp'
  <2>1. used = {} \/ used = {"destroy"} BY <1>3, UsedGrows
  <2>2. CASE used = {}
    BY <1>3, <2>2, DestroyRunning DEF Inv
  <2>3. CASE used = {"destroy"}
    <3>1. ~touched BY <1>3, TouchedStays DEF Inv
    <3> QED BY <1>3, <2>3, <3>1, GivenUpStep DEF Inv
  <2> QED BY <2>1, <2>2, <2>3
<1> QED BY <1>1, <1>2, <1>3 DEF Inv
------------------------------------------------------------------------------
\* However often the thread is started and whatever is done with it, the state
\* has its types.
THEOREM ThreadTypeCorrect == Spec => []TypeOK
<1>1. Inv => TypeOK
  BY DEF Inv
<1> QED BY InitInv, NextInv, <1>1, PTL DEF Spec

\* stop and ~thread: a master that only starts, stops and destroys, in any order
\* and any number of times, is never terminated: not even when it destroys the object
\* while the thread runs, at least until that thread goes on with the destroyed
\* object.  If it stops the thread first, no thread ever does.
THEOREM StopIsAlwaysSafe == Spec => []StopIsSafe
<1>1. Inv => StopIsSafe
  <2> SUFFICES ASSUME Inv PROVE StopIsSafe
    OBVIOUS
  <2>1. used = {} => ~terminated /\ ~touched
    BY DEF Inv, Protocol
  <2>2. used = {"destroy"} /\ ~touched => ~terminated
    BY DEF Inv, GivenUp
  <2>3. used \subseteq {"destroy"} => used = {} \/ used = {"destroy"}
    OBVIOUS
  <2> QED BY <2>1, <2>2, <2>3 DEF StopIsSafe
<1> QED BY InitInv, NextInv, <1>1, PTL DEF Spec
=============================================================================
