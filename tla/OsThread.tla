------------------------------ MODULE OsThread ------------------------------
(***************************************************************************)
(* cgv::os::thread in its std::thread variant (cgv/os/thread_std_thread.h) *)
(* used by one master: start, stop, kill, wait_for_completion and the      *)
(* destructor, against the threads that start has created.                 *)
(*                                                                         *)
(* The flags are plain bools that both sides access: a step reads or       *)
(* writes one of them, which gives every order the accesses can take       *)
(* effect in.                                                              *)
(***************************************************************************)
EXTENDS Integers, FiniteSets

CONSTANTS MaxStarts,   \* bound: how often the thread is started
          Uses         \* what is done beyond start and stop: subset of UseNames

UseNames == {"complete",       \* run() returns without a stop request
             "kill",           \* the master kills the thread
             "destroy",        \* it destroys the object while running
             "auto_delete"}    \* it starts it with delete_after_termination

ASSUME ThreadAssumption == MaxStarts \in Nat /\ Uses \subseteq UseNames

Instances == 1..MaxStarts
Null == 0

VARIABLES
    running, stop_request, delete_after_termination,
    thread_ptr,    \* the std::thread the object points to, or Null
    joinable,      \* the std::threads that are joinable
    thread,        \* what each created thread is doing
    master,        \* where the master is
    starts,        \* threads created so far
    freed,         \* the thread object has been destroyed
    touched,       \* history: the object was accessed after that
    terminated,    \* an uncaught exception or a null pointer ended the program
    used           \* history: the uses made so far

vars == <<running, stop_request, delete_after_termination, thread_ptr, joinable,
          thread, master, starts, freed, touched, terminated, used>>

TypeOK ==
    /\ running \in BOOLEAN /\ stop_request \in BOOLEAN
    /\ delete_after_termination \in BOOLEAN
    /\ thread_ptr \in Instances \cup {Null}
    /\ joinable \subseteq Instances
    /\ thread \in [Instances -> {"none", "run", "returned", "cleared", "deleting", "ended"}]
    /\ master \in {"idle", "created", "assigned", "stopping", "waiting", "joined"}
    /\ starts \in 0..MaxStarts
    /\ freed \in BOOLEAN /\ touched \in BOOLEAN /\ terminated \in BOOLEAN
    /\ used \subseteq Uses

Init ==
    /\ running = FALSE /\ stop_request = FALSE /\ delete_after_termination = FALSE
    /\ thread_ptr = Null /\ joinable = {}
    /\ thread = [k \in Instances |-> "none"]
    /\ master = "idle" /\ starts = 0
    /\ freed = FALSE /\ touched = FALSE /\ terminated = FALSE
    /\ used = {}

\* A use is made only if the instance has it.
Use(u) == u \in Uses /\ used' = used \cup {u}

\* The object is accessed.
Touch == touched' = (touched \/ freed)
-----------------------------------------------------------------------------
(* The destructor, by the master or by the thread itself                   *)

\* kill of a running thread gives the std::thread up.  detach() throws if that
\* is no longer joinable, and nothing catches it.
GiveUp ==
    \/ /\ thread_ptr \in joinable
       /\ joinable' = joinable \ {thread_ptr}
       /\ thread_ptr' = Null
       /\ stop_request' = FALSE /\ running' = FALSE
       /\ UNCHANGED terminated
    \/ /\ thread_ptr \notin joinable
       /\ terminated' = TRUE
       /\ UNCHANGED <<joinable, thread_ptr, stop_request, running>>

\* A running thread is killed; deleting a std::thread that is joinable ends the
\* program.
Destructor ==
    /\ IF running
       THEN GiveUp
       ELSE /\ terminated' = (thread_ptr \in joinable)
            /\ UNCHANGED <<joinable, thread_ptr, stop_request, running>>
    /\ freed' = (freed \/ ~terminated')
    /\ Touch
-----------------------------------------------------------------------------
(* The created threads: execute_s                                          *)

At(k, from, to) ==
    /\ ~terminated
    /\ thread[k] = from
    /\ thread' = [thread EXCEPT ![k] = to]

\* run() polls for a stop request and goes on if there is none ...  (In an object
\* that has been destroyed it may read anything.)
RunPolls(k) ==
    /\ At(k, "run", "run")
    /\ ~stop_request \/ freed
    /\ Touch
    /\ UNCHANGED <<running, stop_request, delete_after_termination, thread_ptr,
                   joinable, master, starts, freed, terminated, used>>

\* ... and returns if there is one ...
RunStops(k) ==
    /\ At(k, "run", "returned")
    /\ stop_request \/ freed
    /\ Touch
    /\ UNCHANGED <<running, stop_request, delete_after_termination, thread_ptr,
                   joinable, master, starts, freed, terminated, used>>

\* ... or by itself.
RunCompletes(k) ==
    /\ At(k, "run", "returned")
    /\ Use("complete")
    /\ UNCHANGED <<running, stop_request, delete_after_termination, thread_ptr,
                   joinable, master, starts, freed, touched, terminated>>

\* execute ends with running = false.
EndOfExecute == running' = FALSE

ClearRunning(k) ==
    /\ At(k, "returned", "cleared")
    /\ EndOfExecute
    /\ Touch
    /\ UNCHANGED <<stop_request, delete_after_termination, thread_ptr, joinable,
                   master, starts, freed, terminated, used>>

\* if (t->delete_after_termination)
CheckDelete(k) ==
    /\ \/ At(k, "cleared", "deleting") /\ (delete_after_termination \/ freed)
       \/ At(k, "cleared", "ended") /\ (~delete_after_termination \/ freed)
    /\ Touch
    /\ UNCHANGED <<running, stop_request, delete_after_termination, thread_ptr,
                   joinable, master, starts, freed, terminated, used>>

\* delete t
DeleteSelf(k) ==
    /\ At(k, "deleting", "ended")
    /\ Destructor
    /\ UNCHANGED <<delete_after_termination, master, starts, used>>
-----------------------------------------------------------------------------
(* The master.  It does not use an object that deletes itself.             *)

Call == ~terminated /\ ~freed /\ master = "idle" /\ ~delete_after_termination

\* start is a no-op if running.
MayStart == ~running

\* start, up to the creation of the thread
Start(autoDelete) ==
    /\ Call
    /\ MayStart
    /\ starts < MaxStarts
    /\ IF autoDelete THEN Use("auto_delete") ELSE UNCHANGED used
    /\ delete_after_termination' = autoDelete
    /\ stop_request' = FALSE
    /\ starts' = starts + 1
    /\ thread' = [thread EXCEPT ![starts + 1] = "run"]
    /\ joinable' = joinable \cup {starts + 1}
    /\ master' = "created"
    /\ UNCHANGED <<running, thread_ptr, freed, touched, terminated>>

\* Mutant: the pointer is one off.
CreatedNext == starts + 1

\* the std::thread that new has returned
Created == starts

StorePointer ==
    /\ ~terminated /\ master = "created"
    /\ thread_ptr' = Created
    /\ master' = "assigned"
    /\ Touch
    /\ UNCHANGED <<running, stop_request, delete_after_termination, joinable,
                   thread, starts, freed, terminated, used>>

\* running = true
SetRunning ==
    /\ ~terminated /\ master = "assigned"
    /\ running' = TRUE
    /\ master' = "idle"
    /\ Touch
    /\ UNCHANGED <<stop_request, delete_after_termination, thread_ptr, joinable,
                   thread, starts, freed, terminated, used>>

\* Mutants: stop does not wait; it does not ask.
RequestOnly == stop_request' = TRUE /\ master' = "idle"
JoinOnly == UNCHANGED stop_request /\ master' = "stopping"

\* stop asks run() to return and waits for it.
RequestAndJoin == stop_request' = TRUE /\ master' = "stopping"

\* stop, up to the join; a no-op if not running
Stop ==
    /\ Call
    /\ running
    /\ RequestAndJoin
    /\ UNCHANGED <<running, delete_after_termination, thread_ptr, joinable,
                   thread, starts, freed, touched, terminated, used>>

\* wait_for_completion, of a run() that may complete by itself
WaitForCompletion ==
    /\ Call
    /\ running
    /\ "complete" \in Uses
    /\ master' = "waiting"
    /\ UNCHANGED <<running, stop_request, delete_after_termination, thread_ptr,
                   joinable, thread, starts, freed, touched, terminated, used>>

\* join() returns when the thread has ended.
JoinReturns == thread[thread_ptr] = "ended"

Join ==
    /\ ~terminated /\ master \in {"stopping", "waiting"}
    /\ thread_ptr \in joinable /\ JoinReturns
    /\ joinable' = joinable \ {thread_ptr}
    /\ master' = IF master = "stopping" THEN "joined" ELSE "idle"
    /\ UNCHANGED <<running, stop_request, delete_after_termination, thread_ptr,
                   thread, starts, freed, touched, terminated, used>>

\* join() of what is not joinable throws, and nothing catches it.
JoinThrows ==
    /\ ~terminated /\ master \in {"stopping", "waiting"}
    /\ thread_ptr \notin joinable
    /\ terminated' = TRUE
    /\ UNCHANGED <<running, stop_request, delete_after_termination, thread_ptr,
                   joinable, thread, master, starts, freed, touched, used>>

\* the end of stop
ClearStopRequest ==
    /\ ~terminated /\ master = "joined"
    /\ stop_request' = FALSE
    /\ master' = "idle"
    /\ UNCHANGED <<running, delete_after_termination, thread_ptr, joinable,
                   thread, starts, freed, touched, terminated, used>>

Kill ==
    /\ Call
    /\ running
    /\ Use("kill")
    /\ GiveUp
    /\ UNCHANGED <<delete_after_termination, thread, master, starts, freed, touched>>

\* The destructor, called by the master.
Destroy ==
    /\ Call
    /\ IF running THEN Use("destroy") ELSE UNCHANGED used
    /\ Destructor
    /\ UNCHANGED <<delete_after_termination, thread, master, starts>>
-----------------------------------------------------------------------------
ThreadStep(k) ==
    RunPolls(k) \/ RunStops(k) \/ ClearRunning(k) \/ CheckDelete(k) \/ DeleteSelf(k)

MasterStep ==
    StorePointer \/ SetRunning \/ Join \/ JoinThrows \/ ClearStopRequest

MasterCall ==
    \/ \E autoDelete \in BOOLEAN : Start(autoDelete)
    \/ Stop \/ WaitForCompletion \/ Kill \/ Destroy

Next ==
    \/ MasterCall \/ MasterStep
    \/ \E k \in Instances : ThreadStep(k) \/ RunCompletes(k)

Spec == Init /\ [][Next]_vars

\* Both sides are scheduled and run() polls the stop request.  Nothing makes it
\* complete, so wait_for_completion may wait for ever.
FairSpec ==
    Spec /\ WF_vars(MasterStep) /\ \A k \in Instances : WF_vars(ThreadStep(k))
-----------------------------------------------------------------------------
(* Correctness.  The class is meant for threads that run until they are    *)
(* stopped; each property says which of the other uses it survives.        *)

\* Start, stop and destruction in any order never end the program, by joining or
\* detaching a std::thread that is no longer joinable or destroying one that
\* still is, even if the destructor has to kill a running thread: not before that
\* thread, which kill only gives up, goes on with the destroyed object.  If no
\* running thread is destroyed, nobody accesses the object after its destructor.
\* (A thread that completes by itself, is killed or deletes itself may end the
\* program later.)
StopIsSafe ==
    /\ used \subseteq {"destroy"} /\ ~touched => ~terminated
    /\ used = {} => ~touched

\* stop comes back, or the program ends.
StopReturns == master = "stopping" ~> master # "stopping" \/ terminated
=============================================================================
