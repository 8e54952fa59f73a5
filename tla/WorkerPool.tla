----------------------------- MODULE WorkerPool -----------------------------
(***************************************************************************)
(* WorkerPool (libs/point_cloud/concurrency.h, .cxx): a fixed set of       *)
(* threads that all execute each task handed to the pool.  One barrier for *)
(* the workers and the thread that calls the pool separates the tasks; an  *)
(* atomic counter in the task tells the caller that it is finished.        *)
(*                                                                         *)
(* The octree builder only uses run and the destructor; launch and sync    *)
(* are public too and modelled.  The pool is not meant for concurrent      *)
(* callers, so calls are serialised, but different threads (Guests) may    *)
(* make them, and the destructor runs only when no task is outstanding.    *)
(***************************************************************************)
EXTENDS Integers, FiniteSets

CONSTANTS Workers, Guests,
          Unknown,
          MaxTasks    \* bound: how many tasks are issued

ASSUME PoolAssumption ==
    /\ IsFiniteSet(Workers)
    /\ Workers \cap Guests = {}
    /\ MaxTasks \in Nat
    /\ Unknown \notin BOOLEAN

Threads == Workers \cup Guests
Tasks == 1..MaxTasks
NoTask == 0
NoCall == "none"

VARIABLES remaining, barrier_sense, thread_sense, waiting, notified, sense,
          current_task,    \* the unique_ptr: the live task or NoTask
          task_remaining,  \* PoolTask::remaining of every task ever made
          stop_request,
          ptask,           \* worker_kernel's local copy of the task pointer
          pc,              \* where each thread is
          call,            \* the pool operation each guest is in
          alive,           \* the pool has not been destroyed
          issued,          \* tasks made so far
          owed             \* history: issued minus executed, per thread

barrierVars ==
    <<remaining, barrier_sense, thread_sense, waiting, notified, sense>>
taskVars == <<current_task, task_remaining, issued, owed>>
vars == <<barrierVars, taskVars, stop_request, ptask, pc, call, alive>>

barrier_pre == INSTANCE SenseBarrier
    WITH Count <- Cardinality(Workers) + 1

TypeOK ==
    /\ barrier_pre!BarrierTypeOK
    /\ current_task \in Tasks \cup {NoTask}
    /\ task_remaining \in [Tasks -> 0..Cardinality(Workers) + 1]
    /\ stop_request \in BOOLEAN
    /\ ptask \in [Threads -> Tasks \cup {NoTask}]
    /\ pc \in [Threads -> {"outside", "await", "waiting", "passed", "check",
                           "execute", "count", "spin", "join", "ended"}]
    /\ call \in [Guests -> {NoCall, "run", "launch", "sync", "destroy"}]
    /\ alive \in BOOLEAN
    /\ issued \in 0..MaxTasks
    /\ owed \in [Threads -> Int]

\* The constructor: the workers are started and on their way to the barrier.
Init ==
    /\ barrier_pre!BarrierInit
    /\ current_task = NoTask
    /\ task_remaining = [k \in Tasks |-> 0]
    /\ stop_request = FALSE
    /\ ptask = [t \in Threads |-> NoTask]
    /\ pc = [t \in Threads |-> IF t \in Workers THEN "await" ELSE "outside"]
    /\ call = [g \in Guests |-> NoCall]
    /\ alive = TRUE
    /\ issued = 0
    /\ owed = [t \in Threads |-> 0]

is_busy == current_task # NoTask
-----------------------------------------------------------------------------
(* Calls of the pool.  A call that throws or has nothing to do is a no-op. *)

MayCall(g) == alive /\ \A h \in Guests : call[h] = NoCall

Enter(g, op, at) ==
    /\ MayCall(g)
    /\ call' = [call EXCEPT ![g] = op]
    /\ pc' = [pc EXCEPT ![g] = at]

Return(g) ==
    /\ call' = [call EXCEPT ![g] = NoCall]
    /\ pc' = [pc EXCEPT ![g] = "outside"]

\* Mutants: the counter starts one too low, or one too high.
MakeTaskOneLess(participants) ==
    /\ ~is_busy
    /\ issued < MaxTasks
    /\ issued' = issued + 1
    /\ current_task' = issued + 1
    /\ task_remaining' =
            [task_remaining EXCEPT ![issued + 1] = Cardinality(participants) - 1]
    /\ owed' = [t \in Threads |->
                    IF t \in participants THEN owed[t] + 1 ELSE owed[t]]

MakeTaskOneMore(participants) ==
    /\ ~is_busy
    /\ issued < MaxTasks
    /\ issued' = issued + 1
    /\ current_task' = issued + 1
    /\ task_remaining' =
            [task_remaining EXCEPT ![issued + 1] = Cardinality(participants) + 1]
    /\ owed' = [t \in Threads |->
                    IF t \in participants THEN owed[t] + 1 ELSE owed[t]]

\* current_task = make_unique<PoolTask>(func, |participants|)
MakeTask(participants) ==
    /\ ~is_busy
    /\ issued < MaxTasks
    /\ issued' = issued + 1
    /\ current_task' = issued + 1
    /\ task_remaining' =
            [task_remaining EXCEPT ![issued + 1] = Cardinality(participants)]
    /\ owed' = [t \in Threads |->
                    IF t \in participants THEN owed[t] + 1 ELSE owed[t]]

Run(g) ==
    /\ Enter(g, "run", "await")
    /\ MakeTask(Workers \cup {g})
    /\ UNCHANGED <<barrierVars, stop_request, ptask, alive>>

Launch(g) ==
    /\ Enter(g, "launch", "await")
    /\ MakeTask(Workers)
    /\ UNCHANGED <<barrierVars, stop_request, ptask, alive>>

\* sync and its landing_kernel
Sync(g) ==
    /\ Enter(g, "sync", "spin")
    /\ is_busy
    /\ ptask' = [ptask EXCEPT ![g] = current_task]
    /\ UNCHANGED <<barrierVars, taskVars, stop_request, alive>>

\* The destructor: join_all up to its call of worker_kernel
Destroy(g) ==
    /\ Enter(g, "destroy", "await")
    /\ ~is_busy
    /\ stop_request' = TRUE
    /\ current_task' = NoTask
    /\ alive' = FALSE
    /\ ptask' = [ptask EXCEPT ![g] = NoTask]
    /\ UNCHANGED <<barrierVars, task_remaining, issued, owed>>
-----------------------------------------------------------------------------
(* worker_kernel, by a worker or by the guest inside run or ~WorkerPool    *)

\* barrier_pre.await() starts; it returns at once or waits.
Await(t) ==
    /\ pc[t] = "await"
    /\ \/ /\ barrier_pre!ArriveLast(t) \/ barrier_pre!ArrivePast(t)
          /\ pc' = [pc EXCEPT ![t] = "passed"]
       \/ /\ barrier_pre!ArriveWait(t)
          /\ pc' = [pc EXCEPT ![t] = "waiting"]
    /\ UNCHANGED <<taskVars, stop_request, ptask, call, alive>>

\* barrier_pre.await() goes on after a wake-up.
Wake(t) ==
    /\ pc[t] = "waiting"
    /\ \/ /\ barrier_pre!Resume(t)
          /\ pc' = [pc EXCEPT ![t] = "passed"]
       \/ /\ barrier_pre!WaitAgain(t)
          /\ UNCHANGED pc
    /\ UNCHANGED <<taskVars, stop_request, ptask, call, alive>>

Spurious(t) ==
    /\ barrier_pre!SpuriousWakeup(t)
    /\ UNCHANGED <<taskVars, stop_request, ptask, pc, call, alive>>

\* launch returns when the barrier has let it through.
LaunchReturns(g) ==
    /\ pc[g] = "passed" /\ call[g] = "launch"
    /\ Return(g)
    /\ UNCHANGED <<barrierVars, taskVars, stop_request, ptask, alive>>

\* ptask = current_task.get()
FetchTask(t) ==
    /\ pc[t] = "passed"
    /\ t \in Guests => call[t] # "launch"
    /\ ptask' = [ptask EXCEPT ![t] = current_task]
    /\ pc' = [pc EXCEPT ![t] = "check"]
    /\ UNCHANGED <<barrierVars, taskVars, stop_request, call, alive>>

\* if (stop_request) return; and if (ptask)
CheckStop(t) ==
    /\ pc[t] = "check"
    /\ pc' = [pc EXCEPT ![t] =
            IF stop_request THEN IF t \in Workers THEN "ended" ELSE "join"
            ELSE IF ptask[t] # NoTask THEN "execute"
            ELSE IF t \in Workers THEN "await" ELSE "outside"]
    /\ call' = [g \in Guests |-> IF pc'[g] = "outside" THEN NoCall ELSE call[g]]
    /\ UNCHANGED <<barrierVars, taskVars, stop_request, ptask, alive>>

\* ptask->task(thread_id)
Execute(t) ==
    /\ pc[t] = "execute"
    /\ owed' = [owed EXCEPT ![t] = @ - 1]
    /\ pc' = [pc EXCEPT ![t] = "count"]
    /\ UNCHANGED <<barrierVars, current_task, task_remaining, issued,
                   stop_request, ptask, call, alive>>

\* ptask->remaining.fetch_sub(1)
CountDown(t) ==
    /\ pc[t] = "count"
    /\ task_remaining' = [task_remaining EXCEPT ![ptask[t]] = @ - 1]
    /\ pc' = [pc EXCEPT ![t] = IF t \in Workers THEN "await" ELSE "spin"]
    /\ UNCHANGED <<barrierVars, current_task, issued, owed,
                   stop_request, ptask, call, alive>>

\* Mutant: the caller does not wait.
ClearTaskAtOnce(g) ==
    /\ pc[g] = "spin"
    /\ current_task' = NoTask
    /\ Return(g)
    /\ UNCHANGED <<barrierVars, task_remaining, issued, owed,
                   stop_request, ptask, alive>>

\* while (ptask->remaining.load() > 0) yield(); current_task = nullptr
ClearTask(g) ==
    /\ pc[g] = "spin"
    /\ task_remaining[ptask[g]] = 0
    /\ current_task' = NoTask
    /\ Return(g)
    /\ UNCHANGED <<barrierVars, task_remaining, issued, owed,
                   stop_request, ptask, alive>>

\* The rest of join_all, when every worker has returned from its kernel.
JoinThreads(g) ==
    /\ pc[g] = "join"
    /\ \A w \in Workers : pc[w] = "ended"
    /\ stop_request' = FALSE
    /\ Return(g)
    /\ UNCHANGED <<barrierVars, taskVars, ptask, alive>>
-----------------------------------------------------------------------------
Call(g) == Run(g) \/ Launch(g) \/ Sync(g) \/ Destroy(g)

KernelStep(t) ==
    Await(t) \/ Wake(t) \/ FetchTask(t) \/ CheckStop(t) \/ Execute(t) \/ CountDown(t)

GuestStep(g) == LaunchReturns(g) \/ ClearTask(g) \/ JoinThreads(g)

\* The pool is gone and its destructor has returned.
Finished ==
    /\ ~alive
    /\ \A g \in Guests : call[g] = NoCall
    /\ UNCHANGED vars

Next ==
    \/ \E g \in Guests : Call(g) \/ GuestStep(g)
    \/ \E t \in Threads : KernelStep(t) \/ Spurious(t)
    \/ Finished

Spec == Init /\ [][Next]_vars

\* Threads are scheduled fairly; no guest has to call anything, except that
\* who launched a task comes back for it.
Fairness ==
    /\ \A t \in Threads : WF_vars(KernelStep(t))
    /\ \A g \in Guests : WF_vars(GuestStep(g))

FairSpec == Spec /\ Fairness
-----------------------------------------------------------------------------
(* Correctness                                                             *)

\* Each participant executes each issued task exactly once, and run and sync
\* return, the next task is issued and the pool is destroyed only after all of
\* them have.
Promise == INSTANCE ForkJoin
    WITH busy <- is_busy, open <- alive

ExecutesOnceAndJoins == Promise!Spec

\* No use after free: a thread between fetching the task and counting itself
\* out holds the pointer of the live task.
TaskAlive ==
    \A t \in Threads :
        pc[t] \in {"execute", "count", "spin"} =>
            current_task # NoTask /\ ptask[t] = current_task

\* Every operation of the pool returns.
CallsReturn == \A g \in Guests : call[g] # NoCall ~> call[g] = NoCall
=============================================================================
