# Formal models of the CGV framework

The CGV framework (`src/`) is a C++ framework for interactive graphics: a
plugin-based core (`src/cgv`), libraries on top of it (`src/libs`), and plugins
and applications. Most of it computes: mathematics, formats, geometry, OpenGL.
The models in this directory are about the part that coordinates: who is told
about whom, who calls whom, who waits for whom, and who owns what, across
callbacks, threads, devices and switches that are toggled while work is going on.

Modules are plain TLA+ checked with TLC; the theorems are checked with TLAPS.
`PROJECT.json` lists components, runs, mutants, the source lines behind each
definition, the hazards, the divergences found and the theorems.

## 1. The system

Parts whose behaviour depends on order, and so is worth a model:

| part | source | state | operations | hard because |
|---|---|---|---|---|
| sense-reversing barrier | `libs/point_cloud/concurrency.{h,cxx}` | counter, shared sense, sense per thread id | `await` | threads of two phases are inside at once; spurious wake-ups; threads that are strangers to the map |
| worker pool | same | task pointer, its counter, stop request, two barriers in one | `run`, `launch`, `sync`, destructor | pointer read outside locks, freed by the caller; callers that take turns |
| object registration | `cgv/base/register.{h,cxx}` | buffered events, listeners, collection of objects, four switches | `register_object`, `unregister_object`, enabling and disabling of registration, permanent registration, event cleanup | `on_register` re-enters; indices remembered across erasures; five loops over one vector that grows |
| order of registration | `register.cxx` | set of orders between type names | `sort_registration_events` | partial order with cycles, permutation of a buffer |
| signals and tackers | `cgv/signal` | vectors of functors, counts per tacker and signal | connect, disconnect, emission, destruction | callbacks change the vector that is being iterated; two views of one relation |
| threads | `cgv/os/thread*` | running and stop flags, pointer to a `std::thread` | start, stop, kill, wait, destruction, delete on termination | flags written by both sides; lifetime of the object against the thread |
| Azure Kinect driver, RGBD input | `plugins/rgbd_kinect_azure`, `libs/rgbd_capture/rgbd_input.cxx` | ring of frames per stream, error slot, flags of two layers | attach, start, stop, `get_frame`, capture thread | capture laps the reader; errors cross threads; flags kept twice |
| mutexes, condition mutexes | `cgv/os/mutex*` | one `unique_lock` shared by all waiters | wait, send signal | no predicate, shared lock |
| Spider driver, screen grabber | `plugins/rgbd_spider`, `plugins/vr_stream_gui` | one flag for starting and stopping; two mutexes | start, stop, worker | flag reset before it is set; join under a lock |
| octree builder, task pool | `libs/point_cloud/octree.h` | shared task counter | parallel phases | phases on top of the worker pool |
| traversal | `cgv/base/traverser.cxx` | focus, visited children | traverse | early returns skip the leaving callback |
| nodes, groups, references | `cgv/base`, `cgv/data/ref_ptr.h` | parent pointers, reference counts | append, remove, assignment | counts against raw pointers |
| stream visualisation | `libs/stream_vis`, `libs/plot` | ring buffers per time series, copies of them in a storage and a vertex buffer, range to draw | append, resample, per-frame update | appended under a lock that the drawing side does not take; counts remembered per frame; wrap-around |
| focus dispatcher | `libs/cg_nui` | focus attachments on four levels, default focus, dispatch information per device | attach, detach, dispatch of an event, requests of its handlers | four overlapping maps displace each other; a pointer into them is kept through calls into objects that change them |

How they interact. Plugins register objects while they are loaded; registration
calls `on_register` and the listeners synchronously, and these register more.
Objects connect methods to signals by deriving from `tacker`; a GUI or another
object emits. Long work runs in `cgv::os::thread`s or in the worker pool, which
talks to its callers through the barrier and one atomic counter. Devices have
capture threads, polled by a timer of the application through `rgbd_input`.
Events of input devices go to the focus dispatcher, which calls into the objects
that grab, hold or are pointed to, and these call back to attach and detach.

What makes each correct: the barrier separates phases; the pool executes each
task exactly once per participant and joins; every listener learns of every
object exactly once whatever the order; an emission calls the functors connected
when it began and never one of a destroyed instance; stopping a thread returns
and leaves nothing behind; frames arrive in order and once; what is drawn of a
stream is what was received, and all of it is drawn; the holder of the focus is
first to get an event, has been told that it is, and keeps it as long as it asked to.

`PROJECT.json` lists every other component with the reason why it is not
modelled: numerical and graphics code without a protocol, thin wrappers of the
operating system, text transformation at build time, vendored code.

## 2. Modules

State variables carry the names of the members, actions those of the functions.

**Barrier and pool.** `SenseBarrier` is `await`, cut where the mutex is released
by the condition variable: arriving last, arriving behind an already reversed
sense, waiting, waking up with or without notification, leaving. A thread id that
the map has not seen is `Unknown` and takes the negation of the barrier's sense,
as `LookupSense` does. `PhaseBarrier` is what a barrier promises: threads arrive,
the last one releases all, nobody arrives again before it has left.
An arrival that finds its sense already there does not happen while everybody
takes part in every phase; it does in `WorkerPool`, where guests take turns.
`WorkerPool` has an INSTANCE of `SenseBarrier` (its `barrier_pre`) and has the
kernel of `worker_kernel` one access of shared memory at a time, run by the
workers and by the guest that calls `run` or has launched a task. Guests take
turns. `ForkJoin` is the promise: a task is handed to all, executed once by each,
and finished only then.

**Registration.** `RegistrationOrder` has the permutation that
`sort_registration_events` computes, by two recursive functions: one index after the other
is appended, each the end of a depth-first descent; `Registry` uses it in `Enable`. In `Registry` an object is a
model value with roles (server, driver, listener, plain), possibly given as a
constructor for later. `register_object` is one action including the calls it
makes to listeners. `enable_registration` is a small state machine over its five
loops (constructors, servers, drivers, listeners, all others), because `on_register` of the
object at hand may register further objects between two iterations; so is
`unregister_all_objects`. `MCRegistry` gives the instances their objects.

**Signals.** `Signals` has the vector of functors of each signal with its
allocation (a slot past the end still holds the pointer that was there, as the
memory does), the functors alive, the counts per tacker and signal, and a stack
of emissions in progress. `signal` reads the size once, `bool_signal` in every
iteration and stops at the first callback that returns true. Callbacks are
actions that fire while the stack is not empty. The destructor of a tacker is a
loop over its map.

**Threads.** `OsThread` has the object (`running`, `stop_request`,
`delete_after_termination`, the `std::thread` pointer) and up to `MaxStarts`
threads, each executing `execute_s` statement by statement, with the master
between the statements of `start`, `stop` and `wait_for_completion`. A `run()` polls
the stop request (`RunPolls`, `RunStops`), also that of an object which is gone. `GiveUp` is what
`kill` does to a running thread, called by the master or by the destructor: it only detaches, and
`detach` and `join` of a `std::thread` that is not joinable throw and end the program. The
history variable `used` records which of the unusual uses have occurred
(completing without a stop, kill, destruction of a running thread, deletion on
termination); `StopIsSafe` says what holds after which of them.

**RGBD.** `FrameRing` has the caches of the driver: `Store` is the locked part of
`capture`, `Take` the locked part of `get_frame`, `ResetRing` that of `attach`.
`FrameQueue` is the promise: a queue of at most four frames per stream that loses
everything it holds when a fifth arrives. `AzureKinect` EXTENDS `FrameRing` with
the capture thread, the driver's flags and error slot, and `rgbd_input` above it.
`get_frame` reads its flag before it takes the lock and is therefore two
actions; `stop_device` is cut at the join. The device is external: it opens or
not, starts or not, delivers or throws, and it numbers its frames.

**Stream visualisation.** `StreamVis` has two series of one plot, a sampled one
and one that is resampled from a source, of floats or of bools (`is_bool`). The receiving thread takes a packet
(`Receive`), keeps a value of the source (`CacheValue`) or appends a sample
(`AppendSampled`, `Resample`, `AppendResampled`). `AppendResampled` clears the cached value, except
where the bool variant returns early, and `OffsetFor` and `Stored` are the value offset, which is
taken from the first value where none was declared, nan included. While it is about to count a sample it is writing
it, and a reader of that slot sees old or new time and old or new value
(`Visible`). The draw thread goes through the series: how many samples are new
(`Count`), for each whether it is still cached (`Check`) and what it is (`Read`),
then the upload of the changed slots (`Upload`); at the end the range common to both
axes (`Domains`) and the drawing (`Draw`).

**Focus.** `FocusDispatcher` has the two maps, the list of category attachments
and `focus_all_attachment` as one function from attachments to holders, since all
four are searched in one fixed order. `Attach` and `Detach` are `attach_focus` and
`detach_focus`, as functions on the part of the state they work on, because a
handler's request combines them; `Displaced` has the loops over the other
levels with their index ranges as in the code. One event passes through the
actions in the order of `dispatch`: `Dispatch` (lookup), `Grab`, `NoAnalysis` or
`Analysis` (spatial dispatch, with `Refocus`), `HandFocus`, and `Visit` for each
object of the hierarchies. Whatever an object answers is chosen freely. Where the code
follows a null pointer the phase becomes `crashed`, and nothing happens any more: in
`Analysis`, of a device for which neither proximity nor pointing is checked (`Checks`) while spatial refocusing is
off, and in `HandFocus`, when the request of a handler that declines leaves nobody in focus.
`MCFocusDispatcher` has the instance.

`Subsequences` has the elements of a sequence at some places, `At(s, K)`, and those that
are in a set, `Only(s, S)`. The traversal of the hierarchies and the erasing loops of
signals and registry filter a vector; they use these operators and not `SelectSeq`
because their definition says which element comes at which place without recursion,
so that one can reason about it. `RemoveObject` is `object_collection::remove_object`
in the same form: the loop increments its index once too often after an erasure,
so an occurrence is erased unless one of the two before it was.

Proofs are in a module per component (`Registry_proofs`, `Signals_proofs` and so on; barrier
and threads share `Threads_proofs`), what they need about filters in `Subsequences_proofs`.

Definitions marked *Mutant* are wrong variants next to the right one. No
specification uses them. They show what a property would notice.

## 3. Runs

| run | instance | shows |
|---|---|---|
| `SenseBarrier` | 4 threads, barrier of 4 | implements `PhaseBarrier` (`SeparatesPhases`), the invariant of the proof (`SenseAgrees`), everybody leaves |
| `WorkerPool` | 2 workers, 2 guests, 3 tasks | implements `ForkJoin` (`ExecutesOnceAndJoins`), no use of a freed task, calls return |
| `RegistrationOrder` | 4 events of different types, all sets of up to 2 orders over these and an absent type, up to 3 types long | the result is a permutation that honours all orders that are not on a cycle (`OrdersHold`), and lets an event overtake another only for a reason (`OvertakesForAReason`); it is not the closest such order, see section 6 |
| `RegistryPlugins` | 2 listeners, 3 objects of which one is registered by another and two are delayed; an order between constructors and one between objects, which put no new object before an old one (`Orderly`) | every listener knows every object (`ListenersKnow`) and was told once (`ToldOnce`), in every order |
| `RegistryRoles` | driver, server that listens, listener, plain object registered by the driver; every switch toggled at any time | no registration lost (`AllSent`) or repeated, nothing dangles |
| `Signals` | a signal, a bool_signal, 2 tackers, 2 functors per signal, emissions nested twice, assignment of tackers | counts agree, no leaks and nothing dangling, each connected functor called once, never a dead one |
| `OsThread` | 3 starts, every use | starts, stops and destruction in any order never end the program, even if the destructor kills a running thread, until that thread goes on with the destroyed object; without such a destruction nobody touches the object after it (`StopIsSafe`); stop returns |
| `AzureKinect` | one active and one idle stream, frames numbered modulo 5 | frames in order and once (`FramesInOrder`, a refinement of `FrameQueue`), thread against device, errors stop the device, calls return |
| `FocusDispatcher` | a tree of two objects and a single one; a controller and the pose of the HMD; attachments on all four levels; two configurations, of which the one for drags switches spatial refocusing and a check off | which attachments may overlap (`LevelsDisjoint`), that holders are told (`ToldBalanced`), who is first (`FocusFirst`), that everybody is offered an event once (`OfferedToAllOnce`), that a drag keeps the focus and goes on to the object in focus, or ends the program if nothing is checked for its device (`DragKept`) |
| `StreamVis` | rings of 3 samples, 4 packets | resampling takes the latest value, with the two exceptions of the code stated (`ResampledIsLatest`), a frame draws what was received (`FrameIsFaithful`), and every sample gets drawn (`EverySampleIsDrawn`) |

Runs that are expected to fail each show one disagreement between a document and
the code; section 6 describes them.

**Bounds, and why they are enough.** A barrier of four has two phases in
flight with at least two threads in each. Three tasks let a guest come back after
another one has used the pool, which is when its stored sense is stale. Two
functors per signal and two levels of emission contain every pair of "functor
called now" and "functor changed by the callback"; the vector of the failing
run has three, because there one must be skipped. Three starts are needed for a
thread whose predecessor was detached or not joined. Five frame numbers
distinguish the four frames of a full ring from the next one, so that any slot
that is read too early, too late or twice is visible. One active stream is
enough for TLC, since streams share only the lock; the proofs cover any number.
Four packets fill a ring of three and pass its end, so that
the upload has one part, two parts and all slots in turn. The pose of the HMD
arrives as a controller of index −1, outside the range the kit loop enumerates;
one tree of two objects and one of a single object tell the hierarchy of the
focus from the others, the children of the focus from the rest.
Registration
needs, for each of its indices, one event before, at and after it, and one object per
loop. `MaxTasks`, `MaxStarts`, `MaxFunctors`, `MaxDepth` and `MaxPackets` are the only bounds in guards;
`FrameIds` is a modulus.

Deadlock is checked except in `RegistrationOrder` (a computation that ends), `Signals` and
`OsThread` (objects may all be destroyed, and the program may have been ended) and `FocusDispatcher`
(the program may have crashed).

**Fairness, and why the code has it.** Threads are scheduled (weak fairness of
each thread's steps: the barrier, the kernels, the capture thread, a thread
whose `run` polls the stop request). A function that has been entered continues
(the joins, the loops of the pool's guests). Drawing goes on: `outofdate` is set
and never reset, and each timer event posts a redraw, hence weak fairness of `Frame`. The Kinect
device answers or throws, and the application keeps polling while it thinks the
device is running: `rgbd_control` and `vr_rgbd` do so in a timer. Nobody is
assumed to call any operation, except that whoever launched a task comes back
with `sync`, without which nothing could be promised. `run()` of a thread is not
assumed to complete, so `wait_for_completion` may wait forever.

## 4. Proofs

**`Threads_proofs`**, about the barrier, for every finite set of threads whose number is `Count`:

- `BarrierTypeCorrect`: the counter stays in `1..Count`, only waiting threads
  are notified.
- `SenseAlwaysAgrees`: the strengthening `SenseAgrees`. Separation of phases is not
  inductive: from an arbitrary state a thread outside may hold the sense the
  barrier has already, and then walks through. The invariant says that it does not,
  that the counter is `Count` minus the threads held back, and that a thread whose
  phase is over has been notified. The step in which the last thread arrives needs
  that held threads and threads outside partition the others.
- `BarrierSeparatesPhases`: every step of the barrier is a step of `PhaseBarrier`
  or a stutter, by that invariant.

**`AzureKinect_proofs`**, first about `FrameRing`, for every set of streams and frames:

- Two lemmas about a single ring carry the argument: `StoreArrives` (a store at
  the write index appends to what the ring holds, or replaces all of it if it
  held four) and `TakeIsHead` (a fetch at the read index takes the head). Both reduce
  equality of sequences to arithmetic modulo four on the indices.
- `RingAlwaysAgrees`: without the flag the indices meet, and no slot that is yet to
  be fetched was moved out. Needed because with equal indices the flag alone
  tells an empty ring from a full one.
- `RingIsQueue`: the ring implements `FrameQueue`.

Then about the driver, for every set of streams, frame numbering and set of
configurations:

- `KinectInvariant`: types, rings, and `DriverAgrees`, which relates the
  flags of both layers, the capture thread, the device and the call in progress.
- `CaptureAlwaysHasCameras`, `RunsAreSeparate`: the safety properties, from it.
- `KinectIsQueue`: each step of the driver leaves the rings alone or is a step of
  `RingSpec`. The delicate one is `TakeFrame`, whose flag was read in an earlier step:
  `DriverAgrees` says that it is still set. With `RingIsQueue` the driver implements the queue.

`Threads_proofs`, about `OsThread`, for any number of starts and any set of uses:

- `ThreadTypeCorrect` and `StopIsAlwaysSafe`. That nothing goes wrong is not
  inductive; the invariant `Protocol` says, while no unusual use has occurred, for
  each point the master is at, what the latest thread is doing and whether it is
  the one that is joinable and pointed to, that all earlier ones have ended, and that the object
  is destroyed only when none runs. So the destructor of a running thread finds it joinable
  and detaches it; from then on the program can end only through what the thread does
  with the object that is gone.

**`StreamVis_proofs`**, for every ring size and any number of packets:

- `StreamTypeCorrect` and `FramesAreFaithful`, from `StreamInv`, one conjunct per
  place a sample passes through: `CacheHolds` (the ring holds the last
  samples appended), `StorageHolds` (the storage buffer holds the last of those processed, unless
  the ring has been filled up to them since), `VboHolds` (the vertex
  buffer differs from it in slots processed in this frame only)
  and `RangeHolds` (the drawn part starts at slot 0 until the ring is full). Lemmas on slots reduce the
  wrap-around to arithmetic: two samples in one slot are at least a ring apart.
- `ResamplingIsRight`: each resampled sample has the latest value of the source since the
  sample before it, or nan. The two exceptions are part of the statement and exact: a bool series takes
  a left-over value instead of nan when all samples since came with a value of the source, and a float series whose
  first sample was nan, without a declared offset, is nan throughout. `ResampledIsLatest`
  says nothing of the value that is still cached, so the invariant (`ResampledAgrees`) does: which
  packet it is from, for either variant, and that the number of resampled samples is the
  rank of the packet the last of them was taken for.

**`FocusDispatcher_proofs`**, for all objects, devices, attachments and configurations:

- `ForgetKeeps`, `AttachSound`, `DetachSound`, `ReconfigureSound`, `RefocusSound` and
  `RequestedSound`: each operation on the focus preserves `Sound`, which joins the
  types with what `LevelsDisjoint` and `ToldBalanced` say. `DisplacedSuffices`
  is the heart of it: what the loops of `attach_focus` leave standing is
  compatible with what is attached, level by level.
- `DispatcherTypeCorrect`, `LevelsAlwaysDisjoint` and `AlwaysToldBalanced` follow.
- `FocusComesFirst` and `DragIsKept`, from `FocusInv`. It adds to `Sound` what
  dispatch knows between lookup and the first handler: the pointer is what the
  lookup found or the grab attached, and what is called the attachment covers the device even
  when it was refused. `DragIsKept` is about attachments configured
  against refocusing: the spatial step of an event takes none away, and the holder is next, unless the device has no
  checks and the program ends. The delicate step is a spatial analysis that takes the
  focus away (`FoundByDetach`): it must not leave another attachment for the
  same device behind, which is so because attachments do not clash.
- `OfferedToAllOnceAlways`: unless a handler moves the focus, an event that nobody handles has been
  offered once to every object. `OfferInv` says what has been
  handed the event and what is still to be: while the children of the object in focus
  are visited, only these are, and they are new to the event; all that was handed it before the
  hierarchies are visited is met again there and skipped, the object in focus
  before its children; and every object of the hierarchies has been handed the
  event, has yet to be visited or is one of those.

**`Registry_proofs`**, first about `sort_registration_events`:

- `SortingIsRight`: for any events and any orders, cyclic ones included, the result is a
  permutation, honours every order that is not on a cycle, and lets an event overtake
  another only for a reason. `SortedInOrder` and `SortOvertakesForAReason` state this of the
  orders that `define_registration_order` collects. The sort is a recursive function
  whose calls descend along a path, and no induction
  principle with an operator parameter can be used. Three lemmas replace it: a set of numbers has a
  least element (`Smallest`), hence induction over a set (`AllNumbers`);
  a function defined by tail recursion exists whether or not the recursion ends
  (`TailRecursion`), so that the definition of `Descend` may be unfolded; and
  `DescendEnds`, by induction over the number of events that are not on the path,
  says where the descent ends: at an event all of whose missing predecessors lie on
  the path, so that only a cycle is broken.

Then about the registry:

- `RegistryTypeCorrect`: types, for all objects, roles, orders and uses.
- `EverythingIsSent`, `OnRegisterIsCalledOnce`, `NobodyDangles`, `EachIsToldOnce`,
  `EveryListenerKnows`: the five properties of the runs, for any number of objects, any
  nesting and any number of plugins, under `Ordinary` and `Orderly`. Not even `AllSent` is inductive. `Core` relates
  the index that `disable_registration` remembers to what has been called (`Buffered`: the events
  up to it have been sent, the ones behind it not, and everything not sent has an event
  behind it), says for each of the loops which new events have been sent (`LoopProgress`: those of
  earlier loops, and of this one those before the index, even while the buffer
  grows), and that what an object will register in `on_register` is new
  (`NestedFresh`). `StepKinds` reduces the operations to a few kinds of steps once; `Called` is
  what the two ways of calling `on_register` have in common. On top of it `Heard`
  (a listener not registered has heard nothing, and none remembers what is gone), `OnceHeard`
  and `AllHeard` are the invariants about listeners. The delicate step
  is the loop of the listeners: a new listener is replayed the old events and those
  of listeners before it (`EventsBeforeAre`), and these are exactly the objects
  that have been registered then and will not be sent to it.

These five are theorems of `OrderedSpec`: when registration is enabled, the orders that the
program defines (plugins like `src/test/vr_draw/vr_draw.cxx:789` do) leave the events of
earlier enablings in front of the new ones (`Orderly`). `NoOrders` says that this
is no restriction for a program without orders; section 6 says what happens to others.
`EnableIs` shows what sorting twice and calling the constructors in between comes to: old
and new events are each permuted among themselves.

`Ordinary` says what else a program must not do, and each part is needed: it
unregisters nothing while registration is disabled (the run `RegistryEarlyUnregister`
shows why), and what it registers in `on_register` it registers once, constructed, and for no loop that has
passed. `EachIsToldOnce` needs in addition that no listener is a server or driver too,
`EveryListenerKnows` that there are neither servers nor drivers and that no constructor is passed
while registration is enabled; section 6 says what happens otherwise.

**`Subsequences_proofs`**: what `At` and `Only` keep. The `k`-th place of a finite set of numbers exists
and grows with `k` (`NthRises`, by the ranks of the elements), and so a filtered
sequence has the elements wanted (`OnlyKeeps`), none twice if there was none twice, and in
their order.

**`Signals_proofs`**, for any signals, tackers and callbacks, any number of functors and any
depth of emissions:

- `SignalsTypeCorrect`, `TackersCountRight` and `FunctorsHaveOnePlace`, from `SignalInv`: vectors have no
  functor twice and none in common, what is connected is what is live, a tacker
  that was never assigned to counts its functors, and every live functor belongs to
  a tacker that is there (`TakeOut` and `Shrinks` say once what the five operations that
  disconnect have in common). The types alone are not inductive: an emission reads behind the used part of a
  vector, and `FramesInside` says that it stays within memory the vector
  has had. The delicate step is `UntackStep`: `tacker::untack_all` gives up when the map did not get smaller,
  and a tacker's counts must be right for that not to happen.
- `EmissionsCallConnected` and `EmissionsCallEachOnce`, while callbacks of plain signals only
  connect and emit (the hypothesis; the run `SignalsDestroyInCallback` shows that it is needed). `OnCourse`
  says of each plain emission on the stack that the functors it found are still
  the front of its vector and that what it has called is the front of them.

**`WorkerPool_proofs`**, for any number of workers, guests and tasks:

- `PoolTypeCorrect`, `TaskIsAlive` and `PoolIsForkJoin`, from `PoolInv`. The argument of
  the barrier alone does not carry over: there everybody takes part in every phase,
  here guests take turns and one may come with a stale sense. `BarrierAgrees` says
  instead that workers are never stale (`WorkersLookAhead`), that the counter is
  `Count` minus the workers held back (`HeldWorkers`) minus the guest, if it has
  arrived (`GuestIn`), and that from the announcement of a task until the last
  worker has arrived all workers are still at the barrier without having executed it
  (`Pending`). So a guest with a stale sense passes early, but no worker does.
- `WorkersAgree` and `GuestsAgree` say, for each point a thread may be at, what it still
  owes and whether its pointer is that of the live task. `TaskAgrees` says that the
  task's counter is the number of threads that have yet to execute it or to count
  (`Unfinished`): when it is zero nobody holds the pointer, and the task may go.
- `StepsForkJoin`: issuing is `Fork`, the call of the functor `Execute`, the reset of the
  `unique_ptr` `Join`, the destructor `Close`, everything else a stutter.

Assumptions are the named ones in `SenseBarrier`, `WorkerPool`, `FrameRing`,
`AzureKinect`, `OsThread`, `StreamVis`, `Signals`, `FocusDispatcher` and `Registry`, where there are any;
TLC evaluates them in every run. The slots of the Kinect are four because the code has four.

**Only model-checked**: liveness, that is `EverybodyLeaves`, `CallsReturn`, `StopReturns`,
`ErrorsStopTheDevice` and `EverySampleIsDrawn`. TLAPS, as installed, reasons neither about fairness
nor about ENABLED. All other properties of the runs are theorems.

## 5. What is abstracted

Names, messages, images, formats and debugging output. Orders of registration are
sequences of type names. A functor's body is "some operation of the interface".
Memory is a set of live functors, freed objects are flags. Memory order:
`std::atomic` accesses are taken as sequentially consistent; the relaxed read of
`device_started` carries no data, and the error slot is published with release and acquire.
Not modelled inside modelled components: the task pool, the overloads of signals
per number of arguments, rebinding functors and `callback_stream`, sleeping and
waiting on condition mutexes in `thread`, stream formats, IMU and calibration of the Kinect,
recording and emulation in `rgbd_input`, factories, configuration files, command
processing and the dynamic linker in `register.cxx`.
Of `stream_vis`: bounding boxes and the values of domains, the layout of the storage
buffers, parsing of declarations, overlays, the list of contexts, the numbers that offsets are (only
whether the offset of the resampled values is nan is modelled). Of `cg_nui`:
geometry (a spatial analysis may hit any object it may consider), dispatch to
plain event handlers (off and never switched on), what an event means. A handler
demands attachments that cover the device its event came from, and events are
dispatched only while the dispatcher has objects.

The pool is destroyed only when no launched task is outstanding. Signals are
never copied (the implicit copy of `signal_base` would delete functors twice).

## 6. Where code and documents disagree

Shown by a run each:

- `RegistryEarlyUnregister`: an old object unregistered while registration is
  disabled makes the index of the first new event stale (`register.cxx:630`); the
  next new object is never registered, although `register.h:27` promises that all
  buffered events are sent.
- `SignalsDestroyInCallback`: a callback of a plain signal destroys a later
  receiver; the emission calls a deleted functor (`signal.ph:61`).

Met while modelling, part of the models, without a run.

Registration, signals, threads and drivers: a listener in the same batch as a
server is not told of it (`register.cxx:453`); a listener that is a server or driver too was told of
events when it was registered, and is told of the buffered ones again in the loop of the listeners (`register.cxx:446`); a thread that deletes itself on
termination destroys its own joinable `std::thread`, which ends the program
(`thread_std_thread.h:68`); sorting permutes old
events among new ones, so that with orders set and several batches one object is
registered again and another not at all (`RegistryPlugins` fails without its constraint); a server, or a delayed constructor,
registered from `on_register` after its loop is passed over; a constructor passed
while registration is enabled stays a constructor in the buffer, so later
listeners do not learn of its object; `disable_permanent_registration` keeps the pointers
(`register.h:61` says it drops them). Assigning a tacker copies its map, and the
destructor then misses its own functors. `start` sets `running` after it has
created the thread, so that a thread which completes at once leaves the flag set;
destroying an object whose thread has completed ends the program; `kill`
only detaches; with `start_in_thread` the object may be gone before `start`
has stored into it. `rgbd_input::detach` leaves `started` set, so that `start` on the next
device returns true without starting it; after a restart the Kinect hands out
frames of the former run first; an application that falls four frames behind loses
all four. The sort does not find the order closest to the actual one that
`register.h:42` promises: for events t1, t2, t3, t4 and the order t4, t3, t1 it gives
t4, t3, t1, t2, with five pairs turned round, where t2, t4, t3, t1 has four
(`register.cxx:273`). Destroying a running thread, of which `thread.h:51`
says that it is killed, only detaches it (`thread_std_thread.h:101`): it goes on, polls and writes the freed
object, and may delete it again. If `run` returns before `start` sets `running`, the flag stays set for good; once a `stop` or
`wait_for_completion` has joined the `std::thread`, the next `stop`, `kill` or destructor ends the
program by the exception of `join` or `detach`.

Focus: `dispatcher.h:51` speaks of non overlapping attachments, yet the pose of the HMD
arrives as a controller of index −1 (`vr_server.cxx:263`), which the loop over a kit's
devices skips, and the loop for categories ends before the largest index and
takes its kit pointer from the union's other member. Attachments to categories
are never looked up when an event is dispatched; reconfiguring one changes a copy and
returns true. A grab that is refused still sets `rfi.foc_att` and reports
success. An object that attaches again is told of the attachment before the detachment.
Reconfiguring without a focus changes the default for all. The children of a
focus that was handed the event by spatial dispatch do not see it. Kept dispatch information of
one object may be handed to another that has the focus now. `remove_object`
leaves the object's attachments. With `refocus.spatial` off, `spatial_dispatcher.cxx:271` follows
the null `foc_info_ptr` if neither proximity nor intersection was checked: the early return before
is for the controllers 0 and 1 only, so this happens for the pose of the HMD and other devices, and for a
mouse during a drag that grabbed by proximity (a configuration without pointing). A handler whose
request detaches the focus, and which declines the event, leaves the default focus, and
`dispatcher.cxx:472` calls `cast` of its null object; `focus_recursive` is on by default.

Streams: `resampled_bool_time_series` returns without clearing its cached value when the packet
has a value of its own (`streaming_time_series.cxx:307`), so that a later sample without a value gets
an older one instead of nan; the float variant always clears it (line 130). Without a declared
offset the first value becomes the offset of a float series (`time_series.h:115`), and if that is nan every
later value is stored as nan. The ring is read without the lock it is written under; the oldest sample of a
full ring is refused (`time_series.cxx:65`, `>=`), so a stale slot may be drawn; with
no samples the whole unwritten buffer is drawn; the box of a stream never shrinks.

## 7. Plan

The order is that of the weight of what can go wrong.

1. Done: barrier, pool, registration, signals, threads, Kinect, stream
   visualisation, focus dispatcher.
2. Condition mutexes and `thread`'s waiting on them; Spider driver; screen
   grabber. The three share one instance, since their hazards are the same
   (flag, lock and join in the wrong order).
3. Octree builder: task pool and the phases on top of `ForkJoin`.
4. Stream visualisation: layout of the storage buffer, contexts, incremental boxes
   against a reference definition.
5. Traversal, and nodes with reference counts.
6. Algorithms in one run: union find, priority queue, interval map.
7. Matrix and object stacks of the rendering context; triggers and animations.

Theorems that are left: every safety property of the runs has one. What could be weakened is a
hypothesis: `EveryListenerKnows` holds in part with servers and drivers too, if these are
registered in an earlier batch than the listeners.
