-------------------------- MODULE WorkerPool_proofs --------------------------
(* Proofs about WorkerPool, for any number of workers, guests and tasks: a     *)
(* task outlives its use, and the pool implements ForkJoin.                    *)
EXTENDS WorkerPool, FiniteSetTheorems, TLAPS

Size == Cardinality(Workers)

\* Who still has to execute the task or to count itself out.
Unfinished == {t \in Threads : owed[t] = 1 \/ pc[t] = "count"}

\* Workers that wait for others in the barrier, and those that wait there for
\* the current task, or the end of the pool, to be announced.
HeldWorkers == {w \in Workers : w \in waiting /\ sense[w] # barrier_sense}
AtBarrier(w) == pc[w] = "await" \/ w \in HeldWorkers
Pending == {w \in Workers : AtBarrier(w) /\ (owed[w] = 1 \/ ~alive)}

\* The guest that announces it has arrived and the workers have not all.
GuestIn == IF (is_busy \/ ~alive) /\ Pending # {} /\ \A g \in Guests : pc[g] # "await"
           THEN 1 ELSE 0

BarrierAgrees ==
  /\ \A t \in Threads : t \in waiting <=> pc[t] = "waiting"
  /\ \A w \in Workers \ waiting : thread_sense[w] # barrier_sense
  /\ remaining = Size + 1 - Cardinality(HeldWorkers) - GuestIn
  /\ Pending # {} \/ (\E g \in Guests : pc[g] = "await") => Pending = Workers

WorkersAgree == \A w \in Workers :
  /\ pc[w] \in {"await", "waiting", "passed", "check", "execute", "count", "ended"}
  /\ pc[w] = "ended" => ~alive
  /\ owed[w] \in {0, 1}
  /\ owed[w] = 1 => is_busy /\ pc[w] # "count"
  /\ pc[w] \in {"passed", "check", "execute"} \/ (pc[w] = "waiting" /\ w \notin HeldWorkers)
     => ~alive \/ owed[w] = 1
  /\ pc[w] = "check" => ptask[w] = current_task
  /\ pc[w] \in {"execute", "count"} => is_busy /\ ptask[w] = current_task

GuestsAgree == \A g \in Guests :
  /\ \A h \in Guests : call[g] # NoCall /\ call[h] # NoCall => g = h
  /\ call[g] = NoCall => pc[g] = "outside"
  /\ call[g] = "run" => pc[g] \in {"await", "waiting", "passed", "check", "execute", "count", "spin"}
  /\ call[g] = "launch" => pc[g] \in {"await", "waiting", "passed"}
  /\ call[g] = "sync" => pc[g] = "spin"
  /\ call[g] = "destroy" => pc[g] \in {"await", "waiting", "passed", "check", "join"}
  /\ call[g] \in {"run", "launch", "sync"} => is_busy /\ alive
  /\ call[g] = "destroy" => ~alive /\ stop_request
  /\ owed[g] = IF call[g] = "run" /\ pc[g] \in {"await", "waiting", "passed", "check", "execute"}
               THEN 1 ELSE 0
  /\ pc[g] \in {"check", "execute", "count", "spin"} => ptask[g] = current_task

TaskAgrees ==
  /\ alive => ~stop_request
  /\ ~alive => ~is_busy
  /\ ~alive /\ ~stop_request => \A w \in Workers : pc[w] = "ended"
  /\ current_task <= issued
  /\ IsFiniteSet(Unfinished)
  /\ Cardinality(Unfinished) = IF is_busy THEN task_remaining[current_task] ELSE 0

PoolInv == TypeOK /\ BarrierAgrees /\ WorkersAgree /\ GuestsAgree /\ TaskAgrees
-----------------------------------------------------------------------------
LEMMA SizeType == IsFiniteSet(Workers) /\ Size \in Nat
BY PoolAssumption, FS_CardinalityType DEF Size

\* The types of the barrier's variables, whoever uses it.
LEMMA BooleanSense ==
  ASSUME barrier_pre!BarrierTypeOK
  PROVE  /\ barrier_sense \in BOOLEAN
         /\ \A t \in Threads : sense[t] \in BOOLEAN
         /\ \A t \in Threads : barrier_pre!LookupSense(t) \in BOOLEAN
BY PoolAssumption, Zenon DEF barrier_pre!BarrierTypeOK, barrier_pre!LookupSense

LEMMA BarrierTypes ==
  ASSUME barrier_pre!BarrierTypeOK, NEW t \in Threads,
         \/ barrier_pre!ArriveLast(t) \/ barrier_pre!ArrivePast(t)
         \/ barrier_pre!ArriveWait(t) \/ barrier_pre!SpuriousWakeup(t)
         \/ barrier_pre!Resume(t) \/ barrier_pre!WaitAgain(t)
         \/ UNCHANGED barrierVars
  PROVE  barrier_pre!BarrierTypeOK'
<1>0. Cardinality(Workers) \in Nat
  BY SizeType DEF Size
<1> USE DEF barrier_pre!BarrierTypeOK
<1>1. CASE barrier_pre!ArriveLast(t)
  BY <1>0, <1>1, BooleanSense DEF barrier_pre!ArriveLast, barrier_pre!ReverseSense
<1>2. CASE barrier_pre!ArrivePast(t)
  BY <1>0, <1>2, BooleanSense DEF barrier_pre!ArrivePast, barrier_pre!ReverseSense
<1>3. CASE barrier_pre!ArriveWait(t)
  BY <1>0, <1>3, BooleanSense DEF barrier_pre!ArriveWait
<1>4. CASE barrier_pre!SpuriousWakeup(t)
  BY <1>4 DEF barrier_pre!SpuriousWakeup
<1>5. CASE barrier_pre!Resume(t)
  BY <1>5, BooleanSense DEF barrier_pre!Resume, barrier_pre!ReverseSense
<1>6. CASE barrier_pre!WaitAgain(t)
  BY <1>6 DEF barrier_pre!WaitAgain
<1>7. CASE UNCHANGED barrierVars
  BY <1>7 DEF barrierVars
<1> QED
  BY <1>1, <1>2, <1>3, <1>4, <1>5, <1>6, <1>7
-----------------------------------------------------------------------------
\* Workers held back can be counted.
LEMMA HeldCount ==
  ASSUME TRUE
  PROVE  /\ HeldWorkers \subseteq Workers /\ IsFiniteSet(HeldWorkers)
         /\ Cardinality(HeldWorkers) \in 0 .. Size
         /\ Cardinality(HeldWorkers) = Size => HeldWorkers = Workers
<1>1. HeldWorkers \in SUBSET Workers
  BY DEF HeldWorkers
<1> QED BY <1>1, SizeType, FS_Subset, FS_CardinalityType DEF Size

\* A worker always looks for the sense the barrier has not yet.
LEMMA WorkersLookAhead ==
  ASSUME TypeOK, BarrierAgrees, NEW w \in Workers, w \notin waiting
  PROVE  barrier_pre!LookupSense(w) = ~barrier_sense
<1>1. thread_sense[w] \in BOOLEAN \cup {Unknown} /\ barrier_sense \in BOOLEAN
  BY Zenon DEF TypeOK, barrier_pre!BarrierTypeOK, Threads
<1>2. thread_sense[w] # barrier_sense
  BY Zenon DEF BarrierAgrees
<1> QED BY <1>1, <1>2, Zenon DEF barrier_pre!LookupSense

\* The guest at the barrier is the only one in a call, and has something to say.
LEMMA OneCaller ==
  ASSUME TypeOK, GuestsAgree, NEW g \in Guests, pc[g] # "outside"
  PROVE  /\ \A h \in Guests \ {g} : call[h] = NoCall /\ pc[h] = "outside"
         /\ pc[g] = "await" => is_busy \/ ~alive
         /\ call[g] # NoCall
<1>1. call[g] # NoCall
  BY DEF GuestsAgree
<1>2. \A h \in Guests \ {g} : call[h] = NoCall /\ pc[h] = "outside"
  BY <1>1 DEF GuestsAgree
<1>3. call[g] = "sync" => pc[g] = "spin"
  BY DEF GuestsAgree
<1>4. call[g] \in {NoCall, "run", "launch", "sync", "destroy"}
  BY DEF TypeOK
<1> QED BY <1>1, <1>2, <1>3, <1>4 DEF GuestsAgree

\* Who completes a phase finds all workers in the barrier, and all of them have
\* been given a task, or notice of the end, since they were there last.
LEMMA LastArrival ==
  ASSUME PoolInv, remaining = 1, NEW t \in Threads, pc[t] = "await"
  PROVE  /\ HeldWorkers \cup ({t} \cap Workers) = Workers /\ Pending = Workers
         /\ \A g \in Guests \ {t} : pc[g] # "await"
<1>0. t \notin waiting /\ t \notin HeldWorkers
  BY DEF PoolInv, BarrierAgrees, HeldWorkers
<1>1. remaining = Size + 1 - Cardinality(HeldWorkers) - GuestIn
  BY DEF PoolInv, BarrierAgrees
<1>2. CASE t \in Guests
  <2>1. GuestIn = 0
    BY <1>2 DEF GuestIn
  <2>2. HeldWorkers = Workers
    BY <1>1, <2>1, HeldCount, SizeType
  <2>3. \A g \in Guests \ {t} : pc[g] # "await"
    BY <1>2, OneCaller DEF PoolInv
  <2> QED BY <1>2, <2>2, <2>3, PoolAssumption DEF PoolInv, BarrierAgrees
<1>3. CASE t \in Workers
  <2>1. IsFiniteSet(HeldWorkers \cup {t})
        /\ Cardinality(HeldWorkers \cup {t}) = Cardinality(HeldWorkers) + 1
    BY <1>0, HeldCount, FS_AddElement
  <2>2. HeldWorkers \cup {t} \in SUBSET Workers
    BY <1>3, HeldCount
  <2>3. Cardinality(HeldWorkers \cup {t}) <= Size
        /\ (Cardinality(HeldWorkers \cup {t}) = Size => HeldWorkers \cup {t} = Workers)
    BY <2>2, SizeType, FS_Subset DEF Size
  <2>4. GuestIn \in {0, 1}
        /\ (GuestIn = 1 => Pending # {} /\ \A g \in Guests : pc[g] # "await")
    BY DEF GuestIn
  <2>5. GuestIn = 1 /\ HeldWorkers \cup {t} = Workers
    BY <1>1, <2>1, <2>3, <2>4, HeldCount, SizeType
  <2> QED BY <1>3, <2>4, <2>5 DEF PoolInv, BarrierAgrees
<1> QED BY <1>2, <1>3 DEF Threads

\* Then everybody is released.
LEMMA Released ==
  ASSUME PoolInv, NEW t \in Threads, pc[t] = "await", barrier_pre!ArriveLast(t)
  PROVE  /\ HeldWorkers' = {} /\ waiting' = waiting
         /\ remaining' = Size + 1
         /\ \A w \in Workers \ waiting' : thread_sense'[w] # barrier_sense'
<1>0. barrier_pre!BarrierTypeOK
  BY DEF PoolInv, TypeOK
<1>1. /\ remaining = 1 /\ t \notin waiting /\ waiting' = waiting
      /\ remaining' = Size + 1 /\ barrier_sense' = ~barrier_sense
  BY DEF barrier_pre!ArriveLast, Size
<1>2. HeldWorkers \cup ({t} \cap Workers) = Workers
  BY <1>1, LastArrival
<1>3. \A w \in Workers \ {t} : w \in waiting /\ sense[w] # barrier_sense
  BY <1>2 DEF HeldWorkers
<1>4. \A u \in Threads \ {t} : sense'[u] = sense[u]
  BY <1>0 DEF barrier_pre!ArriveLast, barrier_pre!BarrierTypeOK
<1>5. \A w \in Workers \ {t} : sense'[w] = barrier_sense'
  <2> TAKE w \in Workers \ {t}
  <2>1. sense[w] \in BOOLEAN /\ barrier_sense \in BOOLEAN
    BY <1>0, BooleanSense DEF Threads
  <2>2. sense[w] # barrier_sense
    BY <1>3
  <2>3. sense'[w] = sense[w]
    BY <1>4 DEF Threads
  <2> QED BY <1>1, <2>1, <2>2, <2>3, Zenon
<1>6. HeldWorkers' = {}
  BY <1>1, <1>5, Zenon DEF HeldWorkers
<1>7. ASSUME t \in Workers PROVE thread_sense'[t] # barrier_sense'
  <2>1. barrier_pre!LookupSense(t) = ~barrier_sense
    BY <1>1, <1>7, WorkersLookAhead DEF PoolInv
  <2>2. thread_sense'[t] = ~barrier_pre!LookupSense(t)
    BY <1>0, Zenon DEF barrier_pre!ArriveLast, barrier_pre!ReverseSense, barrier_pre!BarrierTypeOK
  <2>3. barrier_sense \in BOOLEAN
    BY <1>0, BooleanSense
  <2> QED BY <1>1, <2>1, <2>2, <2>3, Zenon
<1> QED BY <1>1, <1>3, <1>6, <1>7

\* An arrival that does not complete a phase.
LEMMA Arrived ==
  ASSUME PoolInv, NEW t \in Threads, pc[t] = "await",
         barrier_pre!ArrivePast(t) \/ barrier_pre!ArriveWait(t)
  PROVE  /\ remaining > 1 /\ remaining' = remaining - 1
         /\ \/ waiting' = waiting \cup {t} /\ barrier_pre!ArriveWait(t)
            \/ waiting' = waiting /\ t \notin Workers
         /\ HeldWorkers' = HeldWorkers \cup ({t} \cap Workers) /\ t \notin HeldWorkers
         /\ \A w \in Workers \ waiting' : thread_sense'[w] # barrier_sense'
<1>0. barrier_pre!BarrierTypeOK
  BY DEF PoolInv, TypeOK
<1>1. /\ remaining > 1 /\ t \notin waiting
      /\ remaining' = remaining - 1 /\ barrier_sense' = barrier_sense
  BY DEF barrier_pre!ArriveWait, barrier_pre!ArrivePast
<1>2. t \notin HeldWorkers
  BY <1>1 DEF HeldWorkers
<1>3. \A u \in Threads \ {t} : sense'[u] = sense[u] /\ thread_sense'[u] = thread_sense[u]
  BY <1>0 DEF barrier_pre!ArriveWait, barrier_pre!ArrivePast, barrier_pre!ReverseSense,
     barrier_pre!BarrierTypeOK
<1>4. \A w \in Workers \ waiting : thread_sense[w] # barrier_sense
  BY DEF PoolInv, BarrierAgrees
<1>5. CASE barrier_pre!ArrivePast(t)
  <2>1. t \notin Workers
    <3> SUFFICES ASSUME t \in Workers PROVE FALSE
      OBVIOUS
    <3>1. barrier_pre!LookupSense(t) = ~barrier_sense
      BY <1>1, WorkersLookAhead DEF PoolInv
    <3>2. barrier_pre!LookupSense(t) = barrier_sense /\ barrier_sense \in BOOLEAN
      BY <1>0, <1>5, BooleanSense DEF barrier_pre!ArrivePast
    <3> QED BY <3>1, <3>2, Zenon
  <2>2. waiting' = waiting
    BY <1>5 DEF barrier_pre!ArrivePast
  <2>3. \A w \in Workers : w \in Threads \ {t}
    BY <2>1 DEF Threads
  <2>4. HeldWorkers' = HeldWorkers
    BY <1>1, <1>3, <2>2, <2>3, Zenon DEF HeldWorkers
  <2>5. \A w \in Workers \ waiting' : thread_sense'[w] # barrier_sense'
    BY <1>1, <1>3, <1>4, <2>2, <2>3, Zenon
  <2> QED BY <1>1, <1>2, <2>1, <2>2, <2>4, <2>5
<1>6. CASE barrier_pre!ArriveWait(t)
  <2>1. waiting' = waiting \cup {t} /\ thread_sense' = thread_sense
    BY <1>6 DEF barrier_pre!ArriveWait
  <2>2. sense'[t] # barrier_sense'
    <3>1. barrier_pre!LookupSense(t) # barrier_sense
      BY <1>6 DEF barrier_pre!ArriveWait
    <3>2. sense'[t] = barrier_pre!LookupSense(t)
      BY <1>0, <1>6, Zenon DEF barrier_pre!ArriveWait, barrier_pre!BarrierTypeOK
    <3> QED BY <1>1, <3>1, <3>2, Zenon
  <2>3. ASSUME NEW w PROVE w \in HeldWorkers' <=> w \in HeldWorkers \cup ({t} \cap Workers)
    <3>1. CASE w = t
      BY <2>1, <2>2, <3>1, Zenon DEF HeldWorkers
    <3>2. CASE w # t
      <4>1. w \in Workers => sense'[w] = sense[w]
        BY <1>3, <3>2 DEF Threads
      <4> QED BY <1>1, <2>1, <3>2, <4>1, Zenon DEF HeldWorkers
    <3> QED BY <3>1, <3>2
  <2>4. \A w \in Workers \ waiting' : thread_sense'[w] # barrier_sense'
    BY <1>1, <1>4, <2>1, Zenon
  <2> QED BY <1>1, <1>2, <1>6, <2>1, <2>3, <2>4
<1> QED BY <1>5, <1>6

\* Wake-ups hold back nobody and release nobody.
LEMMA Woken ==
  ASSUME PoolInv, NEW t \in Threads,
         barrier_pre!Resume(t) \/ barrier_pre!WaitAgain(t) \/ barrier_pre!SpuriousWakeup(t)
  PROVE  /\ remaining' = remaining /\ HeldWorkers' = HeldWorkers
         /\ barrier_pre!Resume(t) =>
              t \notin HeldWorkers /\ t \in waiting /\ waiting' = waiting \ {t}
         /\ ~barrier_pre!Resume(t) => waiting' = waiting
         /\ \A w \in Workers \ waiting' : thread_sense'[w] # barrier_sense'
<1>0. barrier_pre!BarrierTypeOK
  BY DEF PoolInv, TypeOK
<1>1. remaining' = remaining /\ barrier_sense' = barrier_sense /\ sense' = sense
  BY DEF barrier_pre!Resume, barrier_pre!WaitAgain, barrier_pre!SpuriousWakeup
<1>2. \A w \in Workers \ waiting : thread_sense[w] # barrier_sense
  BY DEF PoolInv, BarrierAgrees
<1>3. CASE barrier_pre!Resume(t)
  <2>1. t \in waiting /\ sense[t] = barrier_sense /\ waiting' = waiting \ {t}
    BY <1>0, <1>3 DEF barrier_pre!Resume, barrier_pre!BarrierTypeOK
  <2>2. HeldWorkers' = HeldWorkers /\ t \notin HeldWorkers
    BY <1>1, <2>1, Zenon DEF HeldWorkers
  <2>3. ASSUME NEW w \in Workers \ waiting' PROVE thread_sense'[w] # barrier_sense'
    <3>1. CASE w = t
      <4>1. thread_sense'[t] = ~barrier_sense
        BY <1>0, <1>3, <2>1, Zenon DEF barrier_pre!Resume, barrier_pre!ReverseSense,
           barrier_pre!BarrierTypeOK
      <4>2. barrier_sense \in BOOLEAN
        BY <1>0, BooleanSense
      <4> QED BY <1>1, <3>1, <4>1, <4>2, Zenon
    <3>2. CASE w # t
      <4>1. thread_sense'[w] = thread_sense[w]
        BY <1>0, <1>3, <3>2 DEF barrier_pre!Resume, barrier_pre!ReverseSense,
           barrier_pre!BarrierTypeOK, Threads
      <4>2. w \notin waiting
        BY <2>1, <2>3, <3>2
      <4> QED BY <1>1, <1>2, <4>1, <4>2, Zenon
    <3> QED BY <3>1, <3>2
  <2> QED BY <1>1, <1>3, <2>1, <2>2, <2>3
<1>4. CASE ~barrier_pre!Resume(t)
  <2>1. waiting' = waiting /\ thread_sense' = thread_sense
    BY <1>4 DEF barrier_pre!WaitAgain, barrier_pre!SpuriousWakeup
  <2>2. HeldWorkers' = HeldWorkers
    BY <1>1, <2>1, Zenon DEF HeldWorkers
  <2> QED BY <1>1, <1>2, <1>4, <2>1, <2>2, Zenon
<1> QED BY <1>3, <1>4
-----------------------------------------------------------------------------
\* Steps outside of the barrier.
LEMMA BarrierKept ==
  ASSUME PoolInv, UNCHANGED <<barrierVars, alive, current_task>>, NEW t \in Threads,
         pc[t] \notin {"await", "waiting"}, pc'[t] # "waiting",
         \A u \in Threads \ {t} : pc'[u] = pc[u] /\ owed'[u] = owed[u],
         pc'[t] = "await" => t \in Workers /\ alive /\ owed'[t] = 0
  PROVE  BarrierAgrees' /\ HeldWorkers' = HeldWorkers
<1>1. HeldWorkers' = HeldWorkers
  BY Zenon DEF HeldWorkers, barrierVars
<1>2. (is_busy' <=> is_busy) /\ (alive' <=> alive) /\ remaining' = remaining
  BY DEF is_busy, barrierVars
<1>3. \A w \in HeldWorkers : pc[w] = "waiting"
  BY DEF HeldWorkers, PoolInv, BarrierAgrees, Threads
<1>4. Pending' = Pending
  <2>1. ASSUME NEW w \in Workers, w # t PROVE w \in Pending' <=> w \in Pending
    <3>1. pc'[w] = pc[w] /\ owed'[w] = owed[w]
      BY <2>1 DEF Threads
    <3> QED BY <1>1, <1>2, <3>1 DEF Pending, AtBarrier
  <2>2. t \notin Pending
    BY <1>3 DEF Pending, AtBarrier
  <2>3. t \notin Pending'
    BY <1>1, <1>2, <1>3 DEF Pending, AtBarrier
  <2> QED BY <2>1, <2>2, <2>3 DEF Pending
<1>5. \A g \in Guests : pc'[g] = "await" <=> pc[g] = "await"
  BY PoolAssumption DEF Threads
<1>6. GuestIn' = GuestIn
  BY <1>2, <1>4, <1>5, Zenon DEF GuestIn
<1>7. \A u \in Threads : u \in waiting' <=> pc'[u] = "waiting"
  BY DEF PoolInv, BarrierAgrees, barrierVars
<1>8. \A w \in Workers \ waiting' : thread_sense'[w] # barrier_sense'
  BY Zenon DEF PoolInv, BarrierAgrees, barrierVars
<1>9. remaining' = Size' + 1 - Cardinality(HeldWorkers') - GuestIn'
  BY <1>1, <1>2, <1>6 DEF PoolInv, BarrierAgrees, Size
<1>10. Pending' # {} \/ (\E g \in Guests : pc'[g] = "await") => Pending' = Workers
  BY <1>4, <1>5 DEF PoolInv, BarrierAgrees
<1> QED BY <1>1, <1>7, <1>8, <1>9, <1>10 DEF BarrierAgrees
-----------------------------------------------------------------------------
\* await, as the kernel calls it.
LEMMA ArriveLastKeeps ==
  ASSUME PoolInv, NEW t \in Threads, Await(t), barrier_pre!ArriveLast(t), pc'[t] = "passed"
  PROVE  BarrierAgrees' /\ HeldWorkers' = {} /\ Pending = Workers
<1>1. /\ pc[t] = "await" /\ pc' = [pc EXCEPT ![t] = "passed"]
      /\ UNCHANGED <<taskVars, stop_request, ptask, call, alive>>
  BY DEF Await, PoolInv, TypeOK
<1>2. /\ HeldWorkers' = {} /\ waiting' = waiting /\ remaining' = Size + 1
      /\ \A w \in Workers \ waiting' : thread_sense'[w] # barrier_sense'
  BY <1>1, Released
<1>3. /\ HeldWorkers \cup ({t} \cap Workers) = Workers /\ Pending = Workers
      /\ \A g \in Guests \ {t} : pc[g] # "await"
  BY <1>1, LastArrival DEF barrier_pre!ArriveLast
<1>4. \A u \in Threads \ {t} : pc'[u] = pc[u]
  BY <1>1 DEF PoolInv, TypeOK
<1>5. \A u \in Threads : u \in waiting' <=> pc'[u] = "waiting"
  BY <1>1, <1>2, <1>4 DEF PoolInv, BarrierAgrees
<1>6. Pending' = {}
  <2>1. \A w \in Workers \ {t} : pc[w] = "waiting"
    BY <1>3 DEF HeldWorkers, PoolInv, BarrierAgrees, Threads
  <2>2. \A w \in Workers : pc'[w] # "await"
    BY <1>4, <2>1 DEF Threads
  <2> QED BY <1>2, <2>2 DEF Pending, AtBarrier
<1>7. \A g \in Guests : pc'[g] # "await"
  BY <1>3, <1>4 DEF Threads
<1>8. GuestIn' = 0 /\ Cardinality(HeldWorkers') = 0
  BY <1>2, <1>6, FS_EmptySet DEF GuestIn
<1>9. remaining' = Size' + 1 - Cardinality(HeldWorkers') - GuestIn'
  BY <1>2, <1>8, SizeType DEF Size
<1> QED BY <1>2, <1>3, <1>5, <1>6, <1>7, <1>9 DEF BarrierAgrees

LEMMA ArriveKeeps ==
  ASSUME PoolInv, NEW t \in Threads, Await(t), ~barrier_pre!ArriveLast(t)
  PROVE  /\ BarrierAgrees' /\ Pending' = Pending
         /\ HeldWorkers \subseteq HeldWorkers'
         /\ pc'[t] \in {"passed", "waiting"} /\ (t \in Workers => t \in HeldWorkers')
         /\ t \in Workers => pc'[t] = "waiting"
<1>1. /\ pc[t] = "await" /\ pc'[t] \in {"passed", "waiting"}
      /\ UNCHANGED <<taskVars, stop_request, ptask, call, alive>>
      /\ \/ barrier_pre!ArrivePast(t) /\ pc'[t] = "passed"
         \/ barrier_pre!ArriveWait(t) /\ pc'[t] = "waiting"
      /\ \A u \in Threads \ {t} : pc'[u] = pc[u]
  <2>1. /\ pc[t] = "await" /\ UNCHANGED <<taskVars, stop_request, ptask, call, alive>>
        /\ \/ barrier_pre!ArrivePast(t) /\ pc' = [pc EXCEPT ![t] = "passed"]
           \/ barrier_pre!ArriveWait(t) /\ pc' = [pc EXCEPT ![t] = "waiting"]
    BY Zenon DEF Await
  <2>2. \A v : pc' = [pc EXCEPT ![t] = v] => pc'[t] = v /\ \A u \in Threads \ {t} : pc'[u] = pc[u]
    BY DEF PoolInv, TypeOK
  <2>3. CASE barrier_pre!ArrivePast(t) /\ pc' = [pc EXCEPT ![t] = "passed"]
    <3>1. pc'[t] = "passed" /\ \A u \in Threads \ {t} : pc'[u] = pc[u]
      BY <2>2, <2>3
    <3> QED BY <2>1, <2>3, <3>1
  <2>4. CASE barrier_pre!ArriveWait(t) /\ pc' = [pc EXCEPT ![t] = "waiting"]
    BY <2>1, <2>2, <2>4, Zenon
  <2> QED BY <2>1, <2>3, <2>4, Zenon
<1>2. /\ remaining > 1 /\ remaining' = remaining - 1
      /\ \/ waiting' = waiting \cup {t} /\ barrier_pre!ArriveWait(t)
         \/ waiting' = waiting /\ t \notin Workers
      /\ HeldWorkers' = HeldWorkers \cup ({t} \cap Workers) /\ t \notin HeldWorkers
      /\ \A w \in Workers \ waiting' : thread_sense'[w] # barrier_sense'
  BY <1>1, Arrived
<1>3. /\ barrier_pre!ArriveWait(t) => waiting' = waiting \cup {t} /\ t \notin waiting
      /\ barrier_pre!ArrivePast(t) => waiting' = waiting /\ t \notin waiting
  BY DEF barrier_pre!ArriveWait, barrier_pre!ArrivePast
<1>4. \A u \in Threads : u \in waiting' <=> pc'[u] = "waiting"
  BY <1>1, <1>3 DEF PoolInv, BarrierAgrees
<1>5. UNCHANGED <<owed, alive, is_busy>>
  BY <1>1 DEF taskVars, is_busy
<1>6. \A w \in Workers : AtBarrier(w)' <=> AtBarrier(w)
  <2> TAKE w \in Workers
  <2>1. CASE w = t
    BY <1>1, <1>2, <2>1 DEF AtBarrier
  <2>2. CASE w # t
    BY <1>1, <1>2, <2>2 DEF AtBarrier, Threads
  <2> QED BY <2>1, <2>2
<1>7. Pending' = Pending
  BY <1>5, <1>6 DEF Pending
<1>8. /\ remaining = Size + 1 - Cardinality(HeldWorkers) - GuestIn
      /\ Pending # {} \/ (\E g \in Guests : pc[g] = "await") => Pending = Workers
  BY DEF PoolInv, BarrierAgrees
<1>9. CASE t \in Workers
  <2>1. Cardinality(HeldWorkers') = Cardinality(HeldWorkers) + 1 /\ HeldWorkers' = HeldWorkers \cup {t}
    BY <1>2, <1>9, HeldCount, FS_AddElement
  <2>2. \A g \in Guests : pc'[g] = "await" <=> pc[g] = "await"
    BY <1>1, <1>9, PoolAssumption DEF Threads
  <2>3. GuestIn' = GuestIn
    BY <1>5, <1>7, <2>2, Zenon DEF GuestIn
  <2>4. GuestIn \in {0, 1}
    BY DEF GuestIn
  <2>5. remaining' = Size' + 1 - Cardinality(HeldWorkers') - GuestIn'
    BY <1>2, <1>8, <2>1, <2>3, <2>4, HeldCount, SizeType DEF Size
  <2>6. pc'[t] = "waiting"
    BY <1>1, <1>2, <1>3, <1>9
  <2> QED BY <1>1, <1>2, <1>4, <1>7, <1>8, <1>9, <2>1, <2>2, <2>5, <2>6 DEF BarrierAgrees
<1>10. CASE t \in Guests
  <2>1. HeldWorkers' = HeldWorkers /\ t \notin Workers
    BY <1>2, <1>10, PoolAssumption
  <2>2. /\ is_busy \/ ~alive
        /\ \A g \in Guests \ {t} : pc[g] = "outside"
    BY <1>1, <1>10, OneCaller DEF PoolInv
  <2>3. \A g \in Guests : pc'[g] # "await"
    BY <1>1, <2>2 DEF Threads
  <2>4. Pending = Workers /\ GuestIn = 0
    BY <1>1, <1>8, <1>10 DEF GuestIn
  <2>5. Workers # {}
    <3>1. Size > 0
      BY <1>2, <1>8, <2>4, HeldCount, SizeType
    <3> QED BY <3>1, FS_EmptySet DEF Size
  <2>6. GuestIn' = 1
    BY <1>5, <1>7, <2>2, <2>3, <2>4, <2>5, Zenon DEF GuestIn
  <2>7. remaining' = Size' + 1 - Cardinality(HeldWorkers') - GuestIn'
    <3>1. remaining = Size + 1 - Cardinality(HeldWorkers) - 0
      BY <1>8, <2>4
    <3>2. Cardinality(HeldWorkers) \in Int /\ Size \in Int /\ Size' = Size
      BY HeldCount, SizeType DEF Size
    <3>3. remaining' = Size + 1 - Cardinality(HeldWorkers) - 1
      BY <1>2, <3>1, <3>2
    <3> QED BY <2>1, <2>6, <3>2, <3>3
  <2> QED BY <1>1, <1>2, <1>4, <1>7, <2>1, <2>4, <2>7 DEF BarrierAgrees
<1> QED BY <1>9, <1>10 DEF Threads

LEMMA WakeKeeps ==
  ASSUME PoolInv, NEW t \in Threads, Wake(t) \/ Spurious(t)
  PROVE  /\ BarrierAgrees' /\ HeldWorkers' = HeldWorkers
         /\ \A u \in Threads \ {t} : pc'[u] = pc[u]
         /\ pc'[t] = pc[t] \/ (pc[t] = "waiting" /\ pc'[t] = "passed" /\ t \notin HeldWorkers)
<1>1. /\ UNCHANGED <<taskVars, stop_request, ptask, call, alive>>
      /\ barrier_pre!Resume(t) \/ barrier_pre!WaitAgain(t) \/ barrier_pre!SpuriousWakeup(t)
      /\ \/ barrier_pre!Resume(t) /\ pc[t] = "waiting" /\ pc' = [pc EXCEPT ![t] = "passed"]
         \/ ~barrier_pre!Resume(t) /\ pc' = pc
  <2>1. ~(barrier_pre!Resume(t) /\ barrier_pre!SpuriousWakeup(t))
    BY DEF barrier_pre!Resume, barrier_pre!SpuriousWakeup
  <2>2. ~(barrier_pre!Resume(t) /\ barrier_pre!WaitAgain(t))
    BY DEF barrier_pre!Resume, barrier_pre!WaitAgain
  <2> QED BY <2>1, <2>2 DEF Wake, Spurious
<1>2. /\ remaining' = remaining /\ HeldWorkers' = HeldWorkers
      /\ barrier_pre!Resume(t) =>
           t \notin HeldWorkers /\ t \in waiting /\ waiting' = waiting \ {t}
      /\ ~barrier_pre!Resume(t) => waiting' = waiting
      /\ \A w \in Workers \ waiting' : thread_sense'[w] # barrier_sense'
  BY <1>1, Woken
<1>3. \A u \in Threads \ {t} : pc'[u] = pc[u]
  BY <1>1 DEF PoolInv, TypeOK
<1>4. pc'[t] = pc[t] \/ (pc[t] = "waiting" /\ pc'[t] = "passed" /\ t \notin HeldWorkers)
  BY <1>1, <1>2 DEF PoolInv, TypeOK
<1>5. \A u \in Threads : u \in waiting' <=> pc'[u] = "waiting"
  <2>1. \A u \in Threads : u \in waiting <=> pc[u] = "waiting"
    BY DEF PoolInv, BarrierAgrees
  <2>2. CASE barrier_pre!Resume(t)
    <3>1. pc'[t] = "passed"
      BY <1>1, <2>2 DEF PoolInv, TypeOK
    <3> QED BY <1>2, <1>3, <2>1, <2>2, <3>1
  <2>3. CASE ~barrier_pre!Resume(t)
    BY <1>1, <1>2, <2>1, <2>3
  <2> QED BY <2>2, <2>3
<1>6. UNCHANGED <<owed, alive, is_busy>>
  BY <1>1 DEF taskVars, is_busy
<1>7. \A w \in Threads : pc'[w] = "await" <=> pc[w] = "await"
  BY <1>3, <1>4
<1>8. Pending' = Pending
  BY <1>2, <1>6, <1>7 DEF Pending, AtBarrier, Threads
<1>9. GuestIn' = GuestIn
  BY <1>6, <1>7, <1>8, Zenon DEF GuestIn, Threads
<1>10. remaining' = Size' + 1 - Cardinality(HeldWorkers') - GuestIn'
  BY <1>2, <1>9 DEF PoolInv, BarrierAgrees, Size
<1>11. Pending' # {} \/ (\E g \in Guests : pc'[g] = "await") => Pending' = Workers
  BY <1>7, <1>8 DEF PoolInv, BarrierAgrees, Threads
<1> QED BY <1>2, <1>3, <1>4, <1>5, <1>10, <1>11 DEF BarrierAgrees
-----------------------------------------------------------------------------
\* Steps that leave the task and its remaining executions alone.
LEMMA TaskKept ==
  ASSUME PoolInv, UNCHANGED <<current_task, task_remaining, issued, alive, stop_request>>,
         Unfinished' = Unfinished,
         \A w \in Workers : pc[w] = "ended" => pc'[w] = "ended"
  PROVE  TaskAgrees'
<1>1. is_busy' <=> is_busy
  BY DEF is_busy
<1> QED BY <1>1, Zenon DEF PoolInv, TaskAgrees

LEMMA AwaitInv ==
  ASSUME PoolInv, NEW t \in Threads, Await(t)
  PROVE  PoolInv'
<1>0. /\ pc[t] = "await" /\ UNCHANGED <<taskVars, stop_request, ptask, call, alive>>
      /\ \/ (barrier_pre!ArriveLast(t) \/ barrier_pre!ArrivePast(t))
            /\ pc' = [pc EXCEPT ![t] = "passed"]
         \/ barrier_pre!ArriveWait(t) /\ pc' = [pc EXCEPT ![t] = "waiting"]
  BY Zenon DEF Await
<1>1. TypeOK'
  <2>1. barrier_pre!BarrierTypeOK'
    BY <1>0, BarrierTypes DEF PoolInv, TypeOK
  <2> QED BY <1>0, <2>1 DEF PoolInv, TypeOK, taskVars
<1>2. pc'[t] \in {"passed", "waiting"} /\ \A u \in Threads \ {t} : pc'[u] = pc[u]
  BY <1>0 DEF PoolInv, TypeOK
<1>3. BarrierAgrees' /\ \A w \in Workers :
        pc'[w] = "passed" \/ (pc'[w] = "waiting" /\ w \notin HeldWorkers') =>
          ~alive \/ owed[w] = 1
  <2>1. CASE barrier_pre!ArriveLast(t)
    <3>1. pc'[t] = "passed"
      <4>1. ~barrier_pre!ArriveWait(t)
        BY <2>1 DEF barrier_pre!ArriveLast, barrier_pre!ArriveWait
      <4> QED BY <1>0, <4>1 DEF PoolInv, TypeOK
    <3>2. BarrierAgrees' /\ Pending = Workers
      BY <2>1, <3>1, ArriveLastKeeps
    <3> QED BY <3>2 DEF Pending
  <2>2. CASE ~barrier_pre!ArriveLast(t)
    <3>1. /\ BarrierAgrees' /\ HeldWorkers \subseteq HeldWorkers'
          /\ t \in Workers => t \in HeldWorkers' /\ pc'[t] = "waiting"
      BY <2>2, ArriveKeeps
    <3>2. ASSUME NEW w \in Workers,
                 pc'[w] = "passed" \/ (pc'[w] = "waiting" /\ w \notin HeldWorkers')
          PROVE  ~alive \/ owed[w] = 1
      <4>1. w # t
        BY <3>1, <3>2
      <4>2. pc'[w] = pc[w]
        BY <1>2, <4>1 DEF Threads
      <4> QED BY <3>1, <3>2, <4>2 DEF PoolInv, WorkersAgree
    <3> QED BY <3>1, <3>2
  <2> QED BY <2>1, <2>2
<1>4. WorkersAgree'
  <2> SUFFICES ASSUME NEW w \in Workers
               PROVE  /\ pc'[w] \in {"await", "waiting", "passed", "check", "execute", "count", "ended"}
                      /\ pc'[w] = "ended" => ~alive
                      /\ owed[w] \in {0, 1}
                      /\ owed[w] = 1 => is_busy /\ pc'[w] # "count"
                      /\ pc'[w] \in {"passed", "check", "execute"}
                           \/ (pc'[w] = "waiting" /\ w \notin HeldWorkers')
                         => ~alive \/ owed[w] = 1
                      /\ pc'[w] = "check" => ptask[w] = current_task
                      /\ pc'[w] \in {"execute", "count"} => is_busy /\ ptask[w] = current_task
    BY <1>0 DEF WorkersAgree, taskVars, is_busy
  <2>1. w \in Threads /\ (w # t => pc'[w] = pc[w])
    BY <1>2 DEF Threads
  <2> QED BY <1>2, <1>3, <2>1 DEF PoolInv, WorkersAgree
<1>5. GuestsAgree'
  <2>1. \A g \in Guests : g \in Threads
    BY DEF Threads
  <2> QED BY <1>0, <1>2, <2>1 DEF PoolInv, GuestsAgree, taskVars, is_busy
<1>6. TaskAgrees'
  <2>1. Unfinished' = Unfinished
    <3>1. owed' = owed /\ \A u \in Threads : pc'[u] = "count" <=> pc[u] = "count"
      BY <1>0, <1>2 DEF taskVars
    <3> QED BY <3>1 DEF Unfinished
  <2> QED BY <1>0, <1>2, <2>1, TaskKept DEF taskVars, Threads
<1> QED BY <1>1, <1>3, <1>4, <1>5, <1>6 DEF PoolInv

LEMMA WakeInv ==
  ASSUME PoolInv, NEW t \in Threads, Wake(t) \/ Spurious(t)
  PROVE  PoolInv'
<1>0. /\ UNCHANGED <<taskVars, stop_request, ptask, call, alive>>
      /\ \/ barrier_pre!Resume(t) \/ barrier_pre!WaitAgain(t)
         \/ barrier_pre!SpuriousWakeup(t)
      /\ pc' = pc \/ pc' = [pc EXCEPT ![t] = "passed"]
  BY DEF Wake, Spurious
<1>1. TypeOK'
  <2>1. barrier_pre!BarrierTypeOK'
    BY <1>0, BarrierTypes DEF PoolInv, TypeOK
  <2> QED BY <1>0, <2>1 DEF PoolInv, TypeOK, taskVars
<1>2. /\ BarrierAgrees' /\ HeldWorkers' = HeldWorkers
      /\ \A u \in Threads \ {t} : pc'[u] = pc[u]
      /\ pc'[t] = pc[t] \/ (pc[t] = "waiting" /\ pc'[t] = "passed" /\ t \notin HeldWorkers)
  BY WakeKeeps
<1>3. WorkersAgree'
  <2>1. \A w \in Workers : w \in Threads
    BY DEF Threads
  <2> QED BY <1>0, <1>2, <2>1 DEF PoolInv, WorkersAgree, taskVars, is_busy
<1>4. GuestsAgree'
  <2>1. \A g \in Guests : g \in Threads
    BY DEF Threads
  <2> QED BY <1>0, <1>2, <2>1 DEF PoolInv, GuestsAgree, taskVars, is_busy
<1>5. TaskAgrees'
  <2>1. Unfinished' = Unfinished
    <3>1. owed' = owed /\ \A u \in Threads : pc'[u] = "count" <=> pc[u] = "count"
      BY <1>0, <1>2 DEF taskVars
    <3> QED BY <3>1 DEF Unfinished
  <2> QED BY <1>0, <1>2, <2>1, TaskKept DEF taskVars, Threads
<1> QED BY <1>1, <1>2, <1>3, <1>4, <1>5 DEF PoolInv
-----------------------------------------------------------------------------
\* The kernel behind the barrier.
LEMMA FetchInv ==
  ASSUME PoolInv, NEW t \in Threads, FetchTask(t)
  PROVE  PoolInv'
<1>0. /\ pc[t] = "passed" /\ ptask' = [ptask EXCEPT ![t] = current_task]
      /\ pc' = [pc EXCEPT ![t] = "check"] /\ (t \in Guests => call[t] # "launch")
      /\ UNCHANGED <<barrierVars, taskVars, stop_request, call, alive>>
  BY DEF FetchTask
<1>1. TypeOK'
  <2>1. barrier_pre!BarrierTypeOK'
    BY <1>0, BarrierTypes DEF PoolInv, TypeOK
  <2> QED BY <1>0, <2>1 DEF PoolInv, TypeOK, taskVars
<1>2. /\ pc'[t] = "check" /\ ptask'[t] = current_task
      /\ \A u \in Threads \ {t} : pc'[u] = pc[u] /\ ptask'[u] = ptask[u]
      /\ UNCHANGED <<owed, call, alive, stop_request>> /\ (is_busy' <=> is_busy)
      /\ current_task' = current_task
  BY <1>0 DEF PoolInv, TypeOK, taskVars, is_busy
<1>3. BarrierAgrees' /\ HeldWorkers' = HeldWorkers
  BY <1>0, <1>2, BarrierKept
<1>4. WorkersAgree'
  <2>1. \A w \in Workers : w \in Threads
    BY DEF Threads
  <2> QED BY <1>0, <1>2, <1>3, <2>1 DEF PoolInv, WorkersAgree
<1>5. GuestsAgree'
  <2>1. \A g \in Guests : g \in Threads
    BY DEF Threads
  <2> QED BY <1>0, <1>2, <2>1 DEF PoolInv, GuestsAgree
<1>6. TaskAgrees'
  <2>1. Unfinished' = Unfinished
    BY <1>0, <1>2 DEF Unfinished
  <2> QED BY <1>0, <1>2, <2>1, TaskKept DEF taskVars, Threads
<1> QED BY <1>1, <1>3, <1>4, <1>5, <1>6 DEF PoolInv

\* After the check a worker or the caller of run executes, or the pool ends.
LEMMA CheckStops ==
  ASSUME PoolInv, NEW t \in Threads, CheckStop(t)
  PROVE  /\ pc[t] = "check" /\ ptask[t] = current_task /\ UNCHANGED call
         /\ \/ /\ alive /\ is_busy /\ owed[t] = 1 /\ pc'[t] = "execute"
               /\ (t \in Guests => call[t] = "run")
            \/ ~alive /\ stop_request /\ t \in Workers /\ pc'[t] = "ended"
            \/ ~alive /\ stop_request /\ t \in Guests /\ call[t] = "destroy" /\ pc'[t] = "join"
<1>0. /\ pc[t] = "check"
      /\ pc'[t] = IF stop_request THEN IF t \in Workers THEN "ended" ELSE "join"
                  ELSE IF ptask[t] # NoTask THEN "execute"
                  ELSE IF t \in Workers THEN "await" ELSE "outside"
      /\ \A u \in Threads \ {t} : pc'[u] = pc[u]
      /\ call' = [g \in Guests |-> IF pc'[g] = "outside" THEN NoCall ELSE call[g]]
  BY DEF CheckStop, PoolInv, TypeOK
<1>1. CASE t \in Workers
  <2>1. ptask[t] = current_task /\ (~alive \/ owed[t] = 1) /\ (owed[t] = 1 => is_busy)
    BY <1>0, <1>1 DEF PoolInv, WorkersAgree
  <2>2. alive => ~stop_request
    BY DEF PoolInv, TaskAgrees
  <2>3. ~alive => stop_request
    BY <1>0, <1>1 DEF PoolInv, TaskAgrees
  <2>4. pc'[t] # "outside"
    BY <1>0, <1>1
  <2>5. \A g \in Guests : pc'[g] = pc[g]
    BY <1>0, <1>1, PoolAssumption DEF Threads
  <2>6. call' = call
    <3>1. \A g \in Guests : pc[g] = "outside" => call[g] = NoCall
      BY OneCaller DEF PoolInv, GuestsAgree, TypeOK
    <3> QED BY <1>0, <2>5, <3>1 DEF PoolInv, TypeOK
  <2>7. t \notin Guests
    BY <1>1, PoolAssumption
  <2> QED BY <1>0, <1>1, <2>1, <2>2, <2>3, <2>6, <2>7 DEF is_busy
<1>2. CASE t \in Guests
  <2>1. /\ ptask[t] = current_task
        /\ call[t] \in {"run", "destroy"}
        /\ call[t] = "run" => is_busy /\ alive /\ owed[t] = 1
        /\ call[t] = "destroy" => ~alive /\ stop_request
    BY <1>0, <1>2 DEF PoolInv, GuestsAgree, TypeOK
  <2>2. alive => ~stop_request
    BY DEF PoolInv, TaskAgrees
  <2>3. t \notin Workers
    BY <1>2, PoolAssumption
  <2>4. pc'[t] \in {"execute", "join"}
    BY <1>0, <2>1, <2>2, <2>3 DEF is_busy
  <2>5. call' = call
    <3>1. \A g \in Guests : pc'[g] = "outside" => pc[g] = "outside"
      BY <1>0, <2>4 DEF Threads
    <3>2. \A g \in Guests : pc[g] = "outside" => call[g] = NoCall
      BY DEF PoolInv, GuestsAgree, TypeOK
    <3> QED BY <1>0, <3>1, <3>2 DEF PoolInv, TypeOK
  <2> QED BY <1>0, <1>2, <2>1, <2>2, <2>3, <2>5 DEF is_busy
<1> QED BY <1>1, <1>2 DEF Threads

LEMMA CheckInv ==
  ASSUME PoolInv, NEW t \in Threads, CheckStop(t)
  PROVE  PoolInv'
<1>0. /\ UNCHANGED <<barrierVars, taskVars, stop_request, ptask, alive>>
      /\ \E v \in {"ended", "join", "execute", "await", "outside"} : pc' = [pc EXCEPT ![t] = v]
  BY DEF CheckStop
<1>1. /\ pc[t] = "check" /\ ptask[t] = current_task /\ UNCHANGED call
      /\ \/ /\ alive /\ is_busy /\ owed[t] = 1 /\ pc'[t] = "execute"
            /\ (t \in Guests => call[t] = "run")
         \/ ~alive /\ stop_request /\ t \in Workers /\ pc'[t] = "ended"
         \/ ~alive /\ stop_request /\ t \in Guests /\ call[t] = "destroy" /\ pc'[t] = "join"
  BY CheckStops
<1>2. TypeOK'
  <2>1. barrier_pre!BarrierTypeOK'
    BY <1>0, BarrierTypes DEF PoolInv, TypeOK
  <2> QED BY <1>0, <1>1, <2>1 DEF PoolInv, TypeOK, taskVars
<1>3. /\ \A u \in Threads \ {t} : pc'[u] = pc[u]
      /\ UNCHANGED <<owed, current_task>> /\ (is_busy' <=> is_busy)
  BY <1>0 DEF PoolInv, TypeOK, taskVars, is_busy
<1>4. BarrierAgrees' /\ HeldWorkers' = HeldWorkers
  BY <1>0, <1>1, <1>3, BarrierKept
<1>5. WorkersAgree'
  <2>1. \A w \in Workers : w \in Threads /\ w \notin Guests
    BY PoolAssumption DEF Threads
  <2> QED BY <1>0, <1>1, <1>3, <1>4, <2>1 DEF PoolInv, WorkersAgree
<1>6. GuestsAgree'
  <2>1. \A g \in Guests : g \in Threads /\ g \notin Workers
    BY PoolAssumption DEF Threads
  <2> QED BY <1>0, <1>1, <1>3, <2>1 DEF PoolInv, GuestsAgree
<1>7. TaskAgrees'
  <2>1. Unfinished' = Unfinished
    BY <1>1, <1>3 DEF Unfinished
  <2> QED BY <1>0, <1>1, <1>3, <2>1, TaskKept DEF taskVars, Threads
<1> QED BY <1>2, <1>4, <1>5, <1>6, <1>7 DEF PoolInv

\* Who executes owes an execution of the task.
LEMMA Executes ==
  ASSUME PoolInv, NEW t \in Threads, pc[t] = "execute"
  PROVE  owed[t] = 1 /\ is_busy /\ alive /\ ptask[t] = current_task
         /\ (t \in Guests => call[t] = "run")
<1>1. CASE t \in Workers
  BY <1>1, PoolAssumption DEF PoolInv, WorkersAgree, TaskAgrees
<1>2. CASE t \in Guests
  BY <1>2 DEF PoolInv, GuestsAgree, TypeOK
<1> QED BY <1>1, <1>2 DEF Threads

LEMMA ExecuteInv ==
  ASSUME PoolInv, NEW t \in Threads, Execute(t)
  PROVE  PoolInv'
<1>0. /\ pc[t] = "execute" /\ owed' = [owed EXCEPT ![t] = @ - 1]
      /\ pc' = [pc EXCEPT ![t] = "count"]
      /\ UNCHANGED <<barrierVars, current_task, task_remaining, issued, stop_request, ptask,
                     call, alive>>
  BY DEF Execute
<1>1. owed[t] = 1 /\ is_busy /\ alive /\ ptask[t] = current_task
      /\ (t \in Guests => call[t] = "run")
  BY <1>0, Executes
<1>2. TypeOK'
  <2>1. barrier_pre!BarrierTypeOK'
    BY <1>0, BarrierTypes DEF PoolInv, TypeOK
  <2> QED BY <1>0, <2>1 DEF PoolInv, TypeOK
<1>3. /\ pc'[t] = "count" /\ owed'[t] = 0
      /\ \A u \in Threads \ {t} : pc'[u] = pc[u] /\ owed'[u] = owed[u]
      /\ (is_busy' <=> is_busy)
  BY <1>0, <1>1 DEF PoolInv, TypeOK, is_busy
<1>4. BarrierAgrees' /\ HeldWorkers' = HeldWorkers
  BY <1>0, <1>3, BarrierKept
<1>5. WorkersAgree'
  <2>1. \A w \in Workers : w \in Threads
    BY DEF Threads
  <2> QED BY <1>0, <1>1, <1>3, <1>4, <2>1 DEF PoolInv, WorkersAgree
<1>6. GuestsAgree'
  <2>1. \A g \in Guests : g \in Threads
    BY DEF Threads
  <2> QED BY <1>0, <1>1, <1>3, <2>1 DEF PoolInv, GuestsAgree
<1>7. TaskAgrees'
  <2>1. Unfinished' = Unfinished
    BY <1>1, <1>3 DEF Unfinished
  <2> QED BY <1>0, <1>3, <2>1, TaskKept DEF Threads
<1> QED BY <1>2, <1>4, <1>5, <1>6, <1>7 DEF PoolInv

LEMMA CountInv ==
  ASSUME PoolInv, NEW t \in Threads, CountDown(t)
  PROVE  PoolInv'
<1>0. /\ pc[t] = "count"
      /\ task_remaining' = [task_remaining EXCEPT ![ptask[t]] = @ - 1]
      /\ pc' = [pc EXCEPT ![t] = IF t \in Workers THEN "await" ELSE "spin"]
      /\ UNCHANGED <<barrierVars, current_task, issued, owed, stop_request, ptask, call, alive>>
  BY DEF CountDown
<1>1. /\ owed[t] = 0 /\ is_busy /\ alive /\ ptask[t] = current_task
      /\ (t \in Guests => call[t] = "run")
  <2>1. CASE t \in Workers
    BY <1>0, <2>1, PoolAssumption DEF PoolInv, WorkersAgree, TaskAgrees
  <2>2. CASE t \in Guests
    BY <1>0, <2>2 DEF PoolInv, GuestsAgree, TypeOK
  <2> QED BY <2>1, <2>2 DEF Threads
<1>2. /\ pc'[t] = IF t \in Workers THEN "await" ELSE "spin"
      /\ \A u \in Threads \ {t} : pc'[u] = pc[u] /\ owed'[u] = owed[u]
      /\ (is_busy' <=> is_busy)
  BY <1>0 DEF PoolInv, TypeOK, is_busy
<1>3. current_task \in Tasks
  BY <1>1 DEF PoolInv, TypeOK, is_busy
<1>4. /\ Cardinality(Unfinished) = task_remaining[current_task] /\ IsFiniteSet(Unfinished)
      /\ t \in Unfinished
  BY <1>0, <1>1 DEF PoolInv, TaskAgrees, Unfinished
<1>5. Unfinished' = Unfinished \ {t}
  BY <1>0, <1>1, <1>2 DEF Unfinished
<1>6. /\ IsFiniteSet(Unfinished') /\ Cardinality(Unfinished') = Cardinality(Unfinished) - 1
      /\ Cardinality(Unfinished') \in Nat
  BY <1>4, <1>5, FS_RemoveElement, FS_CardinalityType
<1>7. task_remaining'[current_task] = task_remaining[current_task] - 1
  BY <1>0, <1>1, <1>3 DEF PoolInv, TypeOK
<1>8. TypeOK'
  <2>1. barrier_pre!BarrierTypeOK'
    BY <1>0, BarrierTypes DEF PoolInv, TypeOK
  <2>2. task_remaining[current_task] - 1 \in 0 .. Cardinality(Workers) + 1
    BY <1>3, <1>4, <1>6, SizeType DEF PoolInv, TypeOK, Size
  <2>3. task_remaining' \in [Tasks -> 0 .. Cardinality(Workers) + 1]
    BY <1>0, <1>1, <2>2 DEF PoolInv, TypeOK
  <2>4. pc' \in [Threads -> {"outside", "await", "waiting", "passed", "check",
                             "execute", "count", "spin", "join", "ended"}]
    BY <1>0 DEF PoolInv, TypeOK
  <2> QED BY <1>0, <2>1, <2>3, <2>4 DEF PoolInv, TypeOK
<1>9. BarrierAgrees' /\ HeldWorkers' = HeldWorkers
  <2>1. pc'[t] = "await" => t \in Workers /\ alive /\ owed'[t] = 0
    BY <1>0, <1>1, <1>2
  <2> QED BY <1>0, <1>2, <2>1, BarrierKept
<1>10. WorkersAgree'
  <2>1. \A w \in Workers : w \in Threads
    BY DEF Threads
  <2> QED BY <1>0, <1>1, <1>2, <1>9, <2>1 DEF PoolInv, WorkersAgree
<1>11. GuestsAgree'
  <2>1. \A g \in Guests : g \in Threads /\ g \notin Workers
    BY PoolAssumption DEF Threads
  <2> QED BY <1>0, <1>1, <1>2, <2>1 DEF PoolInv, GuestsAgree
<1>12. TaskAgrees'
  <2>1. Cardinality(Unfinished') = task_remaining'[current_task']
    BY <1>0, <1>4, <1>6, <1>7
  <2> QED BY <1>0, <1>1, <1>2, <1>6, <2>1 DEF PoolInv, TaskAgrees
<1> QED BY <1>8, <1>9, <1>10, <1>11, <1>12 DEF PoolInv
-----------------------------------------------------------------------------
\* Steps of the guest in a call.
LEMMA LaunchReturnsInv ==
  ASSUME PoolInv, NEW g \in Guests, LaunchReturns(g)
  PROVE  PoolInv'
<1>0. /\ pc[g] = "passed" /\ call[g] = "launch" /\ g \in Threads /\ g \notin Workers
      /\ call' = [call EXCEPT ![g] = NoCall] /\ pc' = [pc EXCEPT ![g] = "outside"]
      /\ UNCHANGED <<barrierVars, taskVars, stop_request, ptask, alive>>
  BY PoolAssumption DEF LaunchReturns, Return, Threads
<1>1. TypeOK'
  <2>1. barrier_pre!BarrierTypeOK'
    BY <1>0, BarrierTypes DEF PoolInv, TypeOK
  <2> QED BY <1>0, <2>1 DEF PoolInv, TypeOK, taskVars
<1>2. /\ pc'[g] = "outside" /\ call'[g] = NoCall
      /\ \A u \in Threads \ {g} : pc'[u] = pc[u]
      /\ \A h \in Guests \ {g} : call'[h] = call[h]
      /\ UNCHANGED <<owed, current_task>> /\ (is_busy' <=> is_busy)
  BY <1>0 DEF PoolInv, TypeOK, taskVars, is_busy
<1>3. BarrierAgrees' /\ HeldWorkers' = HeldWorkers
  BY <1>0, <1>2, BarrierKept
<1>4. WorkersAgree'
  <2>1. \A w \in Workers : w \in Threads
    BY DEF Threads
  <2> QED BY <1>0, <1>2, <1>3, <2>1 DEF PoolInv, WorkersAgree
<1>5. GuestsAgree'
  <2>1. \A h \in Guests : h \in Threads
    BY DEF Threads
  <2> QED BY <1>0, <1>2, <2>1 DEF PoolInv, GuestsAgree, NoCall
<1>6. TaskAgrees'
  <2>1. Unfinished' = Unfinished
    BY <1>0, <1>2 DEF Unfinished
  <2> QED BY <1>0, <1>2, <2>1, TaskKept DEF taskVars, Threads
<1> QED BY <1>1, <1>3, <1>4, <1>5, <1>6 DEF PoolInv

LEMMA JoinInv ==
  ASSUME PoolInv, NEW g \in Guests, JoinThreads(g)
  PROVE  PoolInv'
<1>0. /\ pc[g] = "join" /\ g \in Threads /\ g \notin Workers
      /\ \A w \in Workers : pc[w] = "ended"
      /\ call' = [call EXCEPT ![g] = NoCall] /\ pc' = [pc EXCEPT ![g] = "outside"]
      /\ stop_request' = FALSE
      /\ UNCHANGED <<barrierVars, taskVars, ptask, alive>>
  BY PoolAssumption DEF JoinThreads, Return, Threads
<1>1. TypeOK'
  <2>1. barrier_pre!BarrierTypeOK'
    BY <1>0, BarrierTypes DEF PoolInv, TypeOK
  <2> QED BY <1>0, <2>1 DEF PoolInv, TypeOK, taskVars
<1>2. /\ pc'[g] = "outside" /\ call'[g] = NoCall
      /\ \A u \in Threads \ {g} : pc'[u] = pc[u]
      /\ \A h \in Guests \ {g} : call'[h] = call[h]
      /\ UNCHANGED <<owed, current_task, issued, task_remaining>> /\ (is_busy' <=> is_busy)
  BY <1>0 DEF PoolInv, TypeOK, taskVars, is_busy
<1>3. call[g] = "destroy" /\ \A h \in Guests \ {g} : call[h] = NoCall
  <2>1. call[g] # NoCall /\ call[g] # "run" /\ call[g] # "launch" /\ call[g] # "sync"
    BY <1>0 DEF PoolInv, GuestsAgree
  <2> QED BY <1>0, <2>1, OneCaller DEF PoolInv, TypeOK
<1>4. BarrierAgrees' /\ HeldWorkers' = HeldWorkers
  BY <1>0, <1>2, BarrierKept
<1>5. WorkersAgree'
  <2>1. \A w \in Workers : w \in Threads
    BY DEF Threads
  <2> QED BY <1>0, <1>2, <1>4, <2>1 DEF PoolInv, WorkersAgree
<1>6. GuestsAgree'
  <2>1. \A h \in Guests : h \in Threads
    BY DEF Threads
  <2> QED BY <1>0, <1>2, <1>3, <2>1 DEF PoolInv, GuestsAgree, NoCall
<1>7. TaskAgrees'
  <2>1. Unfinished' = Unfinished
    BY <1>0, <1>2 DEF Unfinished
  <2>2. \A w \in Workers : pc'[w] = "ended"
    BY <1>0, <1>2 DEF Threads
  <2> QED BY <1>0, <1>2, <2>1, <2>2 DEF PoolInv, TaskAgrees
<1> QED BY <1>1, <1>4, <1>5, <1>6, <1>7 DEF PoolInv

LEMMA SyncInv ==
  ASSUME PoolInv, NEW g \in Guests, Sync(g)
  PROVE  PoolInv'
<1>0. /\ alive /\ is_busy /\ g \in Threads /\ g \notin Workers
      /\ \A h \in Guests : call[h] = NoCall
      /\ call' = [call EXCEPT ![g] = "sync"] /\ pc' = [pc EXCEPT ![g] = "spin"]
      /\ ptask' = [ptask EXCEPT ![g] = current_task]
      /\ UNCHANGED <<barrierVars, taskVars, stop_request, alive>>
  BY PoolAssumption DEF Sync, Enter, MayCall, Threads
<1>1. TypeOK'
  <2>1. barrier_pre!BarrierTypeOK'
    BY <1>0, BarrierTypes DEF PoolInv, TypeOK
  <2> QED BY <1>0, <2>1 DEF PoolInv, TypeOK, taskVars
<1>2. /\ pc[g] = "outside" /\ pc'[g] = "spin" /\ call'[g] = "sync" /\ ptask'[g] = current_task
      /\ \A u \in Threads \ {g} : pc'[u] = pc[u] /\ ptask'[u] = ptask[u]
      /\ \A h \in Guests \ {g} : call'[h] = call[h]
      /\ UNCHANGED <<owed, current_task>> /\ (is_busy' <=> is_busy)
  BY <1>0 DEF PoolInv, TypeOK, GuestsAgree, taskVars, is_busy
<1>3. BarrierAgrees' /\ HeldWorkers' = HeldWorkers
  BY <1>0, <1>2, BarrierKept
<1>4. WorkersAgree'
  <2>1. \A w \in Workers : w \in Threads
    BY DEF Threads
  <2> QED BY <1>0, <1>2, <1>3, <2>1 DEF PoolInv, WorkersAgree
<1>5. GuestsAgree'
  <2>1. \A h \in Guests : h \in Threads
    BY DEF Threads
  <2> QED BY <1>0, <1>2, <2>1 DEF PoolInv, GuestsAgree, NoCall
<1>6. TaskAgrees'
  <2>1. Unfinished' = Unfinished
    BY <1>0, <1>2 DEF Unfinished
  <2> QED BY <1>0, <1>2, <2>1, TaskKept DEF taskVars, Threads
<1> QED BY <1>1, <1>3, <1>4, <1>5, <1>6 DEF PoolInv
-----------------------------------------------------------------------------
\* When nobody has to execute or to count, every worker is at the barrier.
LEMMA Quiet ==
  ASSUME PoolInv, alive, \A t \in Threads : owed[t] = 0 /\ pc[t] # "count"
  PROVE  /\ \A w \in Workers : AtBarrier(w) /\ pc[w] \in {"await", "waiting"}
         /\ Pending = {} /\ GuestIn = 0
<1>1. \A w \in Workers : owed[w] = 0 /\ pc[w] # "count" /\ pc[w] # "execute"
  BY Executes DEF Threads
<1>2. \A w \in Workers : AtBarrier(w) /\ pc[w] \in {"await", "waiting"}
  BY <1>1 DEF PoolInv, WorkersAgree, AtBarrier
<1>3. Pending = {}
  BY <1>1 DEF Pending
<1> QED BY <1>2, <1>3 DEF GuestIn

\* So it is between two tasks.
LEMMA Idle ==
  ASSUME PoolInv, alive, ~is_busy, \A h \in Guests : call[h] = NoCall
  PROVE  /\ \A t \in Threads : owed[t] = 0 /\ pc[t] # "count"
         /\ \A h \in Guests : pc[h] = "outside"
         /\ Unfinished = {}
<1>1. ASSUME NEW t \in Threads PROVE owed[t] = 0 /\ pc[t] # "count"
  <2>1. CASE t \in Workers
    BY <2>1 DEF PoolInv, WorkersAgree
  <2>2. CASE t \in Guests
    BY <2>2 DEF PoolInv, GuestsAgree, NoCall
  <2> QED BY <2>1, <2>2 DEF Threads
<1>2. \A h \in Guests : pc[h] = "outside"
  BY DEF PoolInv, GuestsAgree
<1> QED BY <1>1, <1>2 DEF Unfinished

\* A guest announces a task, or the end, to workers that are all at the barrier.
LEMMA Announced ==
  ASSUME PoolInv, NEW g \in Guests, pc[g] = "outside", pc'[g] = "await",
         \A u \in Threads \ {g} : pc'[u] = pc[u],
         \A w \in Workers : AtBarrier(w), GuestIn = 0,
         UNCHANGED barrierVars, is_busy' \/ ~alive',
         \A w \in Workers : owed'[w] = 1 \/ ~alive'
  PROVE  BarrierAgrees' /\ HeldWorkers' = HeldWorkers
<1>1. HeldWorkers' = HeldWorkers
  BY Zenon DEF HeldWorkers, barrierVars
<1>2. \A w \in Workers : pc'[w] = pc[w]
  BY PoolAssumption DEF Threads
<1>3. Pending' = Workers
  BY <1>1, <1>2 DEF Pending, AtBarrier
<1>4. GuestIn' = 0
  BY DEF GuestIn
<1>5. \A u \in Threads : u \in waiting' <=> pc'[u] = "waiting"
  BY DEF PoolInv, BarrierAgrees, barrierVars
<1>6. \A w \in Workers \ waiting' : thread_sense'[w] # barrier_sense'
  BY Zenon DEF PoolInv, BarrierAgrees, barrierVars
<1>7. remaining' = Size' + 1 - Cardinality(HeldWorkers') - GuestIn'
  BY <1>1, <1>4 DEF PoolInv, BarrierAgrees, Size, barrierVars
<1> QED BY <1>1, <1>3, <1>5, <1>6, <1>7 DEF BarrierAgrees

\* run and launch differ in who takes part.
LEMMA IssueInv ==
  ASSUME PoolInv, NEW g \in Guests,
         \/ Run(g)
         \/ Launch(g)
  PROVE  PoolInv'
<1> DEFINE P == IF call'[g] = "run" THEN Workers \cup {g} ELSE Workers
<1>0. /\ alive /\ ~is_busy /\ issued < MaxTasks /\ g \in Threads /\ g \notin Workers
      /\ \A h \in Guests : call[h] = NoCall
      /\ call' = [call EXCEPT ![g] = "run"] \/ call' = [call EXCEPT ![g] = "launch"]
      /\ pc' = [pc EXCEPT ![g] = "await"]
      /\ issued' = issued + 1 /\ current_task' = issued + 1
      /\ UNCHANGED <<barrierVars, stop_request, ptask, alive>>
  BY PoolAssumption DEF Run, Launch, MakeTask, Enter, MayCall, Threads
<1>1. /\ task_remaining' = [task_remaining EXCEPT ![issued + 1] = Cardinality(P)]
      /\ owed' = [t \in Threads |-> IF t \in P THEN owed[t] + 1 ELSE owed[t]]
  <2>1. CASE Run(g)
    <3>1. call'[g] = "run"
      BY <2>1 DEF Run, Enter, PoolInv, TypeOK
    <3> QED BY <2>1, <3>1 DEF Run, MakeTask
  <2>2. CASE Launch(g)
    <3>1. call'[g] # "run"
      BY <2>2 DEF Launch, Enter, PoolInv, TypeOK
    <3> QED BY <2>2, <3>1 DEF Launch, MakeTask
  <2> QED BY <2>1, <2>2
<1>2. /\ \A t \in Threads : owed[t] = 0 /\ pc[t] # "count"
      /\ \A h \in Guests : pc[h] = "outside"
      /\ Unfinished = {}
  BY <1>0, Idle
<1>3. /\ \A w \in Workers : AtBarrier(w) /\ pc[w] \in {"await", "waiting"}
      /\ GuestIn = 0
  BY <1>0, <1>2, Quiet
<1>4. IsFiniteSet(P) /\ Cardinality(P) \in 0 .. Cardinality(Workers) + 1
  <2>1. IsFiniteSet(Workers) /\ Cardinality(Workers) \in Nat
    BY SizeType DEF Size
  <2>2. IsFiniteSet(Workers \cup {g}) /\ Cardinality(Workers \cup {g}) = Cardinality(Workers) + 1
    BY <1>0, <2>1, FS_AddElement
  <2> QED BY <2>1, <2>2
<1>5. issued + 1 \in Tasks /\ issued \in Nat /\ current_task' # NoTask /\ is_busy'
  BY <1>0, PoolAssumption DEF PoolInv, TypeOK, Tasks, NoTask, is_busy
<1>6. P \subseteq Threads
  BY DEF Threads
<1>7. /\ \A t \in Threads : owed'[t] = IF t \in P THEN 1 ELSE 0
      /\ task_remaining'[current_task'] = Cardinality(P)
  BY <1>0, <1>1, <1>2, <1>5 DEF PoolInv, TypeOK
<1>8. /\ pc[g] = "outside" /\ pc'[g] = "await" /\ call'[g] \in {"run", "launch"}
      /\ \A u \in Threads \ {g} : pc'[u] = pc[u]
      /\ \A h \in Guests \ {g} : call'[h] = call[h]
  BY <1>0, <1>2 DEF PoolInv, TypeOK
<1> HIDE DEF P
<1>9. \A w \in Workers : w \in P /\ w \in Threads
  BY DEF P, Threads
<1>10. \A h \in Guests : h \in P <=> h = g /\ call'[g] = "run"
  BY PoolAssumption, <1>0 DEF P
<1>11. TypeOK'
  <2>1. barrier_pre!BarrierTypeOK'
    BY <1>0, BarrierTypes DEF PoolInv, TypeOK
  <2>2. owed' \in [Threads -> Int]
    BY <1>1 DEF PoolInv, TypeOK
  <2>3. task_remaining' \in [Tasks -> 0 .. Cardinality(Workers) + 1]
    BY <1>1, <1>4 DEF PoolInv, TypeOK
  <2>4. issued' \in 0 .. MaxTasks
    BY <1>0, <1>5, PoolAssumption
  <2>5. current_task' \in Tasks \cup {NoTask}
    BY <1>0, <1>5
  <2> QED BY <1>0, <2>1, <2>2, <2>3, <2>4, <2>5 DEF PoolInv, TypeOK
<1>12. BarrierAgrees' /\ HeldWorkers' = HeldWorkers
  BY <1>0, <1>3, <1>5, <1>7, <1>8, <1>9, Announced
<1>13. WorkersAgree'
  <2>1. \A w \in Workers : pc'[w] = pc[w] /\ owed'[w] = 1
    BY <1>0, <1>7, <1>8, <1>9
  <2>2. \A w \in Workers : pc[w] = "waiting" => w \in HeldWorkers
    BY <1>3 DEF AtBarrier
  <2> QED BY <1>0, <1>3, <1>5, <1>12, <2>1, <2>2 DEF WorkersAgree
<1>14. GuestsAgree'
  <2>1. \A h \in Guests : h \in Threads
    BY DEF Threads
  <2>2. \A h \in Guests \ {g} : call'[h] = NoCall /\ pc'[h] = "outside" /\ owed'[h] = 0
    BY <1>0, <1>2, <1>7, <1>8, <1>10, <2>1
  <2>3. owed'[g] = IF call'[g] = "run" THEN 1 ELSE 0
    BY <1>7, <1>10, <2>1
  <2> QED BY <1>0, <1>5, <1>8, <2>2, <2>3 DEF GuestsAgree, NoCall
<1>15. TaskAgrees'
  <2>1. Unfinished' = P
    BY <1>2, <1>6, <1>7, <1>8 DEF Unfinished
  <2>2. alive => ~stop_request
    BY DEF PoolInv, TaskAgrees
  <2> QED BY <1>0, <1>4, <1>5, <1>7, <2>1, <2>2 DEF TaskAgrees
<1> QED BY <1>11, <1>12, <1>13, <1>14, <1>15 DEF PoolInv

LEMMA DestroyInv ==
  ASSUME PoolInv, NEW g \in Guests, Destroy(g)
  PROVE  PoolInv'
<1>0. /\ alive /\ ~is_busy /\ g \in Threads /\ g \notin Workers
      /\ \A h \in Guests : call[h] = NoCall
      /\ call' = [call EXCEPT ![g] = "destroy"] /\ pc' = [pc EXCEPT ![g] = "await"]
      /\ stop_request' = TRUE /\ current_task' = NoTask /\ alive' = FALSE
      /\ ptask' = [ptask EXCEPT ![g] = NoTask]
      /\ UNCHANGED <<barrierVars, task_remaining, issued, owed>>
  BY PoolAssumption DEF Destroy, Enter, MayCall, Threads
<1>1. /\ \A t \in Threads : owed[t] = 0 /\ pc[t] # "count"
      /\ \A h \in Guests : pc[h] = "outside"
      /\ Unfinished = {}
  BY <1>0, Idle
<1>2. /\ \A w \in Workers : AtBarrier(w) /\ pc[w] \in {"await", "waiting"}
      /\ GuestIn = 0
  BY <1>0, <1>1, Quiet
<1>3. /\ pc[g] = "outside" /\ pc'[g] = "await" /\ call'[g] = "destroy"
      /\ \A u \in Threads \ {g} : pc'[u] = pc[u]
      /\ \A h \in Guests \ {g} : call'[h] = call[h]
      /\ ~is_busy'
  BY <1>0, <1>1 DEF PoolInv, TypeOK, is_busy
<1>4. TypeOK'
  <2>1. barrier_pre!BarrierTypeOK'
    BY <1>0, BarrierTypes DEF PoolInv, TypeOK
  <2> QED BY <1>0, <2>1 DEF PoolInv, TypeOK
<1>5. BarrierAgrees' /\ HeldWorkers' = HeldWorkers
  BY <1>0, <1>2, <1>3, Announced
<1>6. WorkersAgree'
  <2>1. \A w \in Workers : pc'[w] = pc[w] /\ owed'[w] = 0
    BY <1>0, <1>1, <1>3 DEF Threads
  <2> QED BY <1>0, <1>2, <2>1 DEF WorkersAgree
<1>7. GuestsAgree'
  <2>1. \A h \in Guests \ {g} : call'[h] = NoCall /\ pc'[h] = "outside" /\ owed'[h] = 0
    BY <1>0, <1>1, <1>3 DEF Threads
  <2>2. owed'[g] = 0
    BY <1>0, <1>1
  <2> QED BY <1>0, <1>3, <2>1, <2>2 DEF GuestsAgree, NoCall
<1>8. TaskAgrees'
  <2>1. Unfinished' = Unfinished
    BY <1>0, <1>1, <1>3 DEF Unfinished
  <2>2. current_task' <= issued' 
    BY <1>0 DEF PoolInv, TypeOK, NoTask
  <2>3. IsFiniteSet(Unfinished') /\ Cardinality(Unfinished') = 0
    BY <1>1, <2>1, FS_EmptySet
  <2> QED BY <1>0, <1>3, <2>2, <2>3 DEF TaskAgrees
<1> QED BY <1>4, <1>5, <1>6, <1>7, <1>8 DEF PoolInv

\* Who joins a task finds that everybody has executed it and counted.
LEMMA Joins ==
  ASSUME PoolInv, NEW g \in Guests, ClearTask(g)
  PROVE  /\ is_busy /\ alive /\ Unfinished = {}
         /\ \A t \in Threads : owed[t] = 0 /\ pc[t] # "count"
         /\ \A h \in Guests \ {g} : call[h] = NoCall /\ pc[h] = "outside"
<1>1. /\ is_busy /\ alive /\ ptask[g] = current_task /\ pc[g] = "spin"
      /\ \A h \in Guests \ {g} : call[h] = NoCall /\ pc[h] = "outside"
  <2>1. pc[g] = "spin" /\ pc[g] # "outside"
    BY DEF ClearTask
  <2>2. call[g] \in {"run", "sync"}
    BY <2>1, OneCaller DEF PoolInv, GuestsAgree, TypeOK
  <2> QED BY <2>1, <2>2, OneCaller DEF PoolInv, GuestsAgree
<1>2. Unfinished = {}
  <2>1. Cardinality(Unfinished) = 0 /\ IsFiniteSet(Unfinished)
    BY <1>1 DEF PoolInv, TaskAgrees, ClearTask
  <2> QED BY <2>1, FS_EmptySet
<1>3. ASSUME NEW t \in Threads PROVE owed[t] = 0 /\ pc[t] # "count"
  <2>1. owed[t] # 1 /\ pc[t] # "count"
    BY <1>2 DEF Unfinished
  <2>2. owed[t] \in {0, 1}
    BY DEF PoolInv, WorkersAgree, GuestsAgree, Threads
  <2> QED BY <2>1, <2>2
<1> QED BY <1>1, <1>2, <1>3

LEMMA ClearTaskInv ==
  ASSUME PoolInv, NEW g \in Guests, ClearTask(g)
  PROVE  PoolInv'
<1>0. /\ pc[g] = "spin" /\ g \in Threads /\ g \notin Workers
      /\ call' = [call EXCEPT ![g] = NoCall] /\ pc' = [pc EXCEPT ![g] = "outside"]
      /\ current_task' = NoTask
      /\ UNCHANGED <<barrierVars, task_remaining, issued, owed, stop_request, ptask, alive>>
  BY PoolAssumption DEF ClearTask, Return, Threads
<1>1. /\ is_busy /\ alive /\ Unfinished = {}
      /\ \A t \in Threads : owed[t] = 0 /\ pc[t] # "count"
      /\ \A h \in Guests \ {g} : call[h] = NoCall /\ pc[h] = "outside"
  BY Joins
<1>2. /\ \A w \in Workers : AtBarrier(w) /\ pc[w] \in {"await", "waiting"}
      /\ Pending = {} /\ GuestIn = 0
  BY <1>1, Quiet
<1>3. /\ pc'[g] = "outside" /\ call'[g] = NoCall
      /\ \A u \in Threads \ {g} : pc'[u] = pc[u]
      /\ \A h \in Guests \ {g} : call'[h] = call[h]
      /\ ~is_busy'
  BY <1>0 DEF PoolInv, TypeOK, is_busy
<1>4. TypeOK'
  <2>1. barrier_pre!BarrierTypeOK'
    BY <1>0, BarrierTypes DEF PoolInv, TypeOK
  <2> QED BY <1>0, <2>1 DEF PoolInv, TypeOK
<1>5. HeldWorkers' = HeldWorkers
  BY <1>0, Zenon DEF HeldWorkers, barrierVars
<1>6. BarrierAgrees'
  <2>1. Pending' = {}
    BY <1>0, <1>1 DEF Pending, Threads
  <2>2. GuestIn' = 0
    BY <2>1 DEF GuestIn
  <2>3. \A u \in Threads : u \in waiting' <=> pc'[u] = "waiting"
    BY <1>0, <1>3 DEF PoolInv, BarrierAgrees, barrierVars
  <2>4. \A w \in Workers \ waiting' : thread_sense'[w] # barrier_sense'
    BY <1>0, Zenon DEF PoolInv, BarrierAgrees, barrierVars
  <2>5. remaining' = Size' + 1 - Cardinality(HeldWorkers') - GuestIn'
    BY <1>0, <1>2, <1>5, <2>2 DEF PoolInv, BarrierAgrees, Size, barrierVars
  <2>6. \A h \in Guests : pc'[h] # "await"
    BY <1>1, <1>3 DEF Threads
  <2> QED BY <2>1, <2>3, <2>4, <2>5, <2>6 DEF BarrierAgrees
<1>7. WorkersAgree'
  <2>1. \A w \in Workers : pc'[w] = pc[w] /\ owed'[w] = 0
    BY <1>0, <1>1, <1>3 DEF Threads
  <2>2. \A w \in Workers : pc[w] = "waiting" => w \in HeldWorkers
    BY <1>2 DEF AtBarrier
  <2> QED BY <1>2, <1>5, <2>1, <2>2 DEF WorkersAgree
<1>8. GuestsAgree'
  <2>1. \A h \in Guests : call'[h] = NoCall /\ pc'[h] = "outside" /\ owed'[h] = 0
    BY <1>0, <1>1, <1>3 DEF Threads
  <2> QED BY <2>1 DEF GuestsAgree, NoCall
<1>9. TaskAgrees'
  <2>1. Unfinished' = Unfinished
    BY <1>0, <1>1, <1>3 DEF Unfinished
  <2>2. current_task' <= issued'
    BY <1>0 DEF PoolInv, TypeOK, NoTask
  <2>3. IsFiniteSet(Unfinished') /\ Cardinality(Unfinished') = 0
    BY <1>1, <2>1, FS_EmptySet
  <2>4. alive => ~stop_request
    BY DEF PoolInv, TaskAgrees
  <2> QED BY <1>0, <1>1, <1>3, <2>2, <2>3, <2>4 DEF TaskAgrees
<1> QED BY <1>4, <1>6, <1>7, <1>8, <1>9 DEF PoolInv
-----------------------------------------------------------------------------
LEMMA PoolInitial == Init => PoolInv
<1> SUFFICES ASSUME Init PROVE PoolInv
  OBVIOUS
<1>0. IsFiniteSet(Workers) /\ Cardinality(Workers) \in Nat /\ Size = Cardinality(Workers)
  BY SizeType DEF Size
<1>1. /\ \A t \in Threads : owed[t] = 0
      /\ \A w \in Workers : pc[w] = "await"
      /\ \A g \in Guests : pc[g] = "outside" /\ call[g] = NoCall
      /\ \A t \in Threads : pc[t] \in {"await", "outside"}
      /\ alive /\ ~is_busy /\ ~stop_request /\ current_task = 0 /\ issued = 0
      /\ waiting = {} /\ remaining = Size + 1 /\ barrier_sense = FALSE
  BY PoolAssumption, <1>0 DEF Init, barrier_pre!BarrierInit, Threads, is_busy, NoTask
<1>2. TypeOK
  <2>1. barrier_pre!BarrierTypeOK
    <3>1. remaining \in 1 .. Cardinality(Workers) + 1
      BY <1>0, <1>1
    <3>2. /\ barrier_sense \in BOOLEAN /\ waiting \in SUBSET Threads
          /\ notified \in SUBSET waiting /\ sense \in [Threads -> BOOLEAN]
          /\ thread_sense \in [Threads -> BOOLEAN \cup {Unknown}]
      BY <1>1, Zenon DEF Init, barrier_pre!BarrierInit
    <3> QED BY <3>1, <3>2, Zenon DEF barrier_pre!BarrierTypeOK
  <2>2. 0 \in 0 .. Cardinality(Workers) + 1 /\ 0 \in 0 .. MaxTasks
    BY <1>0, PoolAssumption
  <2>3. /\ task_remaining \in [Tasks -> 0 .. Cardinality(Workers) + 1]
        /\ ptask \in [Threads -> Tasks \cup {NoTask}] /\ owed \in [Threads -> Int]
    BY <2>2 DEF Init, NoTask
  <2>4. /\ pc \in [Threads -> {"outside", "await", "waiting", "passed", "check",
                             "execute", "count", "spin", "join", "ended"}]
        /\ call \in [Guests -> {NoCall, "run", "launch", "sync", "destroy"}]
    BY Zenon DEF Init
  <2> QED BY <1>1, <2>1, <2>2, <2>3, <2>4, Zenon DEF Init, TypeOK
<1>3. HeldWorkers = {} /\ Pending = {}
  BY <1>1 DEF HeldWorkers, Pending, Threads
<1>4. BarrierAgrees
  <2>1. GuestIn = 0
    BY <1>3 DEF GuestIn
  <2>2. Cardinality(HeldWorkers) = 0
    BY <1>3, FS_EmptySet
  <2>3. \A w \in Workers : thread_sense[w] # barrier_sense
    BY <1>1, PoolAssumption, Zenon DEF Init, barrier_pre!BarrierInit, Threads
  <2> QED BY <1>0, <1>1, <1>3, <2>1, <2>2, <2>3 DEF BarrierAgrees
<1>5. WorkersAgree
  BY <1>1 DEF WorkersAgree, Threads
<1>6. GuestsAgree
  BY <1>1 DEF GuestsAgree, NoCall, Threads
<1>7. TaskAgrees
  <2>1. Unfinished = {}
    BY <1>1 DEF Unfinished
  <2> QED BY <1>1, <2>1, FS_EmptySet DEF TaskAgrees
<1> QED BY <1>2, <1>4, <1>5, <1>6, <1>7 DEF PoolInv

LEMMA PoolStutters ==
  ASSUME PoolInv, UNCHANGED vars
  PROVE  PoolInv'
<1>0. /\ UNCHANGED <<barrierVars, taskVars, stop_request, ptask, pc, call, alive>>
      /\ (is_busy' <=> is_busy)
  BY DEF vars, taskVars, is_busy
<1>1. TypeOK'
  <2>1. barrier_pre!BarrierTypeOK'
    BY <1>0, Zenon DEF PoolInv, TypeOK, barrierVars, barrier_pre!BarrierTypeOK
  <2> QED BY <1>0, <2>1 DEF PoolInv, TypeOK, taskVars
<1>2. HeldWorkers' = HeldWorkers
  BY <1>0, Zenon DEF HeldWorkers, barrierVars
<1>3. Pending' = Pending
  BY <1>0, <1>2, Zenon DEF Pending, AtBarrier, taskVars
<1>4. GuestIn' = GuestIn
  BY <1>0, <1>3, Zenon DEF GuestIn
<1>5. BarrierAgrees'
  BY <1>0, <1>2, <1>3, <1>4, Zenon DEF PoolInv, BarrierAgrees, barrierVars, Size
<1>6. WorkersAgree'
  BY <1>0, <1>2 DEF PoolInv, WorkersAgree, taskVars
<1>7. GuestsAgree'
  BY <1>0 DEF PoolInv, GuestsAgree, taskVars
<1>8. TaskAgrees'
  <2>1. Unfinished' = Unfinished
    BY <1>0 DEF Unfinished, taskVars
  <2> QED BY <1>0, <2>1, TaskKept DEF taskVars
<1> QED BY <1>1, <1>5, <1>6, <1>7, <1>8 DEF PoolInv

LEMMA PoolStep == PoolInv /\ [Next]_vars => PoolInv'
<1> SUFFICES ASSUME PoolInv, [Next]_vars PROVE PoolInv'
  OBVIOUS
<1>1. ASSUME NEW g \in Guests, Call(g) PROVE PoolInv'
  BY <1>1, IssueInv, SyncInv, DestroyInv DEF Call
<1>2. ASSUME NEW g \in Guests, GuestStep(g) PROVE PoolInv'
  BY <1>2, LaunchReturnsInv, ClearTaskInv, JoinInv DEF GuestStep
<1>3. ASSUME NEW t \in Threads, KernelStep(t) PROVE PoolInv'
  BY <1>3, AwaitInv, WakeInv, FetchInv, CheckInv, ExecuteInv, CountInv DEF KernelStep
<1>4. ASSUME NEW t \in Threads, Spurious(t) PROVE PoolInv'
  BY <1>4, WakeInv
<1>5. CASE UNCHANGED vars
  BY <1>5, PoolStutters
<1> QED BY <1>1, <1>2, <1>3, <1>4, <1>5 DEF Next, Finished

LEMMA PoolInvariant == Spec => []PoolInv
BY PoolInitial, PoolStep, PTL DEF Spec

\* The barrier's counter stays within its bounds, and so does that of a task.
THEOREM PoolTypeCorrect == Spec => []TypeOK
<1>1. PoolInv => TypeOK
  BY DEF PoolInv
<1> QED BY <1>1, PoolInvariant, PTL

\* No use after free: the caller of run or sync clears the unique_ptr only when
\* no worker is between ptask = current_task.get() and its fetch_sub.
THEOREM TaskIsAlive == Spec => []TaskAlive
<1>1. PoolInv => TaskAlive
  <2> SUFFICES ASSUME PoolInv, NEW t \in Threads, pc[t] \in {"execute", "count", "spin"}
               PROVE  current_task # NoTask /\ ptask[t] = current_task
    BY DEF TaskAlive
  <2>1. CASE t \in Workers
    BY <2>1 DEF PoolInv, WorkersAgree, is_busy
  <2>2. CASE t \in Guests
    BY <2>2 DEF PoolInv, GuestsAgree, TypeOK, is_busy
  <2> QED BY <2>1, <2>2 DEF Threads
<1> QED BY <1>1, PoolInvariant, PTL
-----------------------------------------------------------------------------
\* A step of the pool is a step of ForkJoin, or is not seen there.
LEMMA StepsForkJoin ==
  ASSUME PoolInv, [Next]_vars
  PROVE  [Promise!Next]_Promise!fjVars
<1> USE DEF Promise!fjVars
<1>1. ASSUME NEW g \in Guests, Run(g) PROVE Promise!Fork(Workers \cup {g})
  BY <1>1, PoolAssumption
     DEF Run, Enter, MayCall, MakeTask, Promise!Fork, Promise!Threads, Threads, is_busy,
         NoTask, PoolInv, TypeOK
<1>2. ASSUME NEW g \in Guests, Launch(g) PROVE Promise!Fork(Workers)
  BY <1>2, PoolAssumption
     DEF Launch, Enter, MayCall, MakeTask, Promise!Fork, Promise!Threads, Threads, is_busy,
         NoTask, PoolInv, TypeOK
<1>3. ASSUME NEW g \in Guests, Destroy(g) PROVE Promise!Close
  BY <1>3 DEF Destroy, Enter, MayCall, Promise!Close, is_busy
<1>4. ASSUME NEW t \in Threads, Execute(t) PROVE Promise!Execute(t)
  <2>1. owed[t] = 1 /\ is_busy
    BY <1>4, Executes DEF Execute
  <2> QED BY <1>4, <2>1 DEF Execute, Promise!Execute, is_busy
<1>5. ASSUME NEW g \in Guests, ClearTask(g) PROVE Promise!Join
  <2>1. is_busy /\ \A t \in Threads : owed[t] = 0
    BY <1>5, Joins
  <2> QED BY <1>5, <2>1 DEF ClearTask, Promise!Join, Promise!Threads, Threads, is_busy
<1>6. ASSUME NEW g \in Guests, Sync(g) \/ LaunchReturns(g) \/ JoinThreads(g)
      PROVE  UNCHANGED <<is_busy, owed, alive>>
  BY <1>6 DEF Sync, LaunchReturns, JoinThreads, taskVars, is_busy
<1>7. ASSUME NEW t \in Threads,
             Await(t) \/ Wake(t) \/ FetchTask(t) \/ CheckStop(t) \/ CountDown(t) \/ Spurious(t)
      PROVE  UNCHANGED <<is_busy, owed, alive>>
  BY <1>7 DEF Await, Wake, FetchTask, CheckStop, CountDown, Spurious, taskVars, is_busy
<1>8. CASE UNCHANGED vars
  BY <1>8 DEF vars, taskVars, is_busy
<1> QED BY <1>1, <1>2, <1>3, <1>4, <1>5, <1>6, <1>7, <1>8
        DEF Next, Call, GuestStep, KernelStep, Finished, Promise!Next, Promise!Threads, Threads

\* For any number of workers and guests: each participant executes each task
\* once, and run and sync return, the next task is issued and the pool is
\* destroyed only after all of them have.
THEOREM PoolIsForkJoin == Spec => ExecutesOnceAndJoins
<1>1. Init => Promise!Init
  BY DEF Init, Promise!Init, Promise!Threads, Threads, is_busy, NoTask
<1>2. PoolInv /\ [Next]_vars => [Promise!Next]_Promise!fjVars
  BY StepsForkJoin
<1> QED BY <1>1, <1>2, PoolInvariant, PTL DEF Spec, ExecutesOnceAndJoins, Promise!Spec
=============================================================================
