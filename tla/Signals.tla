------------------------------- MODULE Signals -------------------------------
(***************************************************************************)
(* Signals and tackers (cgv/signal).  A signal holds functors in a vector; *)
(* a functor that calls a method belongs to the tacker its object derives  *)
(* from, and the tacker counts, per signal, the functors that belong to    *)
(* it, so that its destructor can disconnect them.                         *)
(*                                                                         *)
(* Everything runs on one thread; the hard part is that a callback may use *)
(* the signals again while an emission is iterating over the vector.  An   *)
(* emission is a frame on a stack and makes one call per step, and what    *)
(* happens between two calls is done by the callback.                      *)
(***************************************************************************)
EXTENDS Integers, SequencesExt, FiniteSets, Subsequences

CONSTANTS
    Signals,
    BoolSignals,   \* those of type bool_signal
    Tackers,
    Slots,         \* the methods or functions that can be connected
    NoTacker,      \* the tacker of a function functor
    MaxFunctors,   \* bound: how many functors are ever created
    MaxDepth,      \* bound: nested emissions
    InCallback,    \* what callbacks of plain signals do: subset of Operations
    Assignment     \* whether tackers are assigned to each other

Operations == {"connect", "disconnect", "destroy", "emit"}

ASSUME SignalsAssumption ==
    /\ IsFiniteSet(Signals) /\ BoolSignals \subseteq Signals
    /\ Slots # {}
    /\ NoTacker \notin Tackers
    /\ MaxFunctors \in Nat /\ MaxDepth \in Nat
    /\ InCallback \subseteq Operations
    /\ Assignment \in BOOLEAN

Functors == 1..MaxFunctors
Owners == Tackers \cup {NoTacker}

VARIABLES
    functors,   \* per signal the vector: its elements, and what earlier
                \* elements left behind in its unused capacity
    owner,      \* the tacker of each functor
    slot,       \* and what it calls
    allocated,  \* number of functors created
    live,       \* those not deleted
    signals,    \* per tacker the map from signals to counts; 0 is no entry
    alive,      \* tackers that have not been destroyed
    dying,      \* the tacker whose destructor is running, or NoTacker
    existing,   \* signals that have not been destroyed
    assigned,   \* history: tackers another one has been assigned to
    frames      \* the emissions that are running, the innermost last

store == <<owner, slot, allocated>>
vars == <<functors, store, live, signals, alive, dying, existing, assigned, frames>>

Vector == [used : Seq(Functors), rest : Seq(Functors)]

Frame == [sig : Signals, i : Nat, n : Nat, stop : BOOLEAN,
          at : Seq(Functors),      \* history: the functors when it started
          done : Seq(Functors)]    \* history: the functors called so far

TypeOK ==
    /\ functors \in [Signals -> Vector]
    /\ owner \in [Functors -> Owners]
    /\ slot \in [Functors -> Slots]
    /\ allocated \in 0..MaxFunctors
    /\ live \subseteq 1..allocated
    /\ signals \in [Tackers -> [Signals -> Nat]]
    /\ alive \subseteq Tackers
    /\ dying \in Owners
    /\ existing \subseteq Signals
    /\ assigned \subseteq Tackers
    /\ frames \in Seq(Frame)

Init ==
    /\ functors = [s \in Signals |-> [used |-> <<>>, rest |-> <<>>]]
    /\ owner = [f \in Functors |-> NoTacker]
    /\ slot = [f \in Functors |-> CHOOSE m \in Slots : TRUE]
    /\ allocated = 0 /\ live = {}
    /\ signals = [t \in Tackers |-> [s \in Signals |-> 0]]
    /\ alive = Tackers /\ dying = NoTacker
    /\ existing = Signals /\ assigned = {}
    /\ frames = <<>>

\* The program runs, at top level or in a callback.  While a plain signal is
\* being emitted callbacks do only some things; in those of a bool_signal they
\* may do everything.
MayDo(op) ==
    /\ dying = NoTacker
    /\ frames # <<>> => Last(frames).done # <<>>
    /\ \A k \in DOMAIN frames : frames[k].sig \notin BoolSignals => op \in InCallback
-----------------------------------------------------------------------------
(* connect and disconnect                                                  *)

\* Mutant: the functor is not cloned, and a null pointer stored.
PushBackNull(v, f) ==
    [used |-> Append(v.used, 0), rest |-> IF v.rest = <<>> THEN <<>> ELSE Tail(v.rest)]

\* functors.push_back(f)
PushBack(v, f) ==
    [used |-> Append(v.used, f), rest |-> IF v.rest = <<>> THEN <<>> ELSE Tail(v.rest)]

\* The loop of both disconnect functions.  An element erased lets those behind
\* it move up, and the last one stays behind in its old place as well: every
\* time the same one, because if that is erased it is so at the end.
EraseMatching(v, matching) ==
    LET kept == Only(v.used, Functors \ matching)
    IN  [used |-> kept,
         rest |-> [k \in 1..(Len(v.used) - Len(kept)) |-> Last(v.used)] \o v.rest]

\* How many elements of v a tacker owns.
Owned(v, t) == Cardinality({k \in DOMAIN v.used : owner[v.used[k]] = t})

\* Mutant: a functor connected again is not counted.
ConnectCountsOnce(s, t, m) ==
    LET f == allocated + 1
    IN  /\ MayDo("connect")
        /\ s \in existing /\ t \in alive \cup {NoTacker}
        /\ allocated < MaxFunctors
        /\ allocated' = f
        /\ live' = live \cup {f}
        /\ owner' = [owner EXCEPT ![f] = t]
        /\ slot' = [slot EXCEPT ![f] = m]
        /\ functors' = [functors EXCEPT ![s] = PushBack(@, f)]
        /\ signals' = IF t = NoTacker THEN signals
                      ELSE [signals EXCEPT ![t][s] = 1]
        /\ UNCHANGED <<alive, dying, existing, frames, assigned>>

\* link, tack and push_back for a clone of the functor
Connect(s, t, m) ==
    LET f == allocated + 1
    IN  /\ MayDo("connect")
        /\ s \in existing /\ t \in alive \cup {NoTacker}
        /\ allocated < MaxFunctors
        /\ allocated' = f
        /\ live' = live \cup {f}
        /\ owner' = [owner EXCEPT ![f] = t]
        /\ slot' = [slot EXCEPT ![f] = m]
        /\ functors' = [functors EXCEPT ![s] = PushBack(@, f)]
        /\ signals' = IF t = NoTacker THEN signals
                      ELSE [signals EXCEPT ![t][s] = @ + 1]
        /\ UNCHANGED <<alive, dying, existing, frames, assigned>>

\* unlink, untack and erase the elements of s in a set of functors.  untack
\* ignores a signal it does not know.
Unlink(s, matching) ==
    LET v == functors[s]
        w == EraseMatching(v, matching)
    IN  /\ functors' = [functors EXCEPT ![s] = w]
        /\ live' = live \ (ToSet(v.used) \ ToSet(w.used))
        /\ signals' = [t \in Tackers |->
               [signals[t] EXCEPT ![s] =
                    IF @ > Owned(v, t) - Owned(w, t) THEN @ - (Owned(v, t) - Owned(w, t))
                    ELSE 0]]

\* A functor is a function, a method of an instance or an object to be called;
\* two are equal if they call the same thing.
Equal(t, m) == {f \in Functors : owner[f] = t /\ slot[f] = m}

\* disconnect(functor): the functors with the same pointers
DisconnectFunctor(s, t, m) ==
    /\ MayDo("disconnect")
    /\ s \in existing /\ t \in alive \cup {NoTacker}
    /\ Unlink(s, Equal(t, m))
    /\ UNCHANGED <<store, alive, dying, existing, frames, assigned>>

\* disconnect(tacker)
DisconnectTacker(s, t) ==
    /\ MayDo("disconnect")
    /\ s \in existing /\ t \in alive
    /\ Unlink(s, {f \in Functors : owner[f] = t})
    /\ UNCHANGED <<store, alive, dying, existing, frames, assigned>>

\* Mutant: the functors are not unlinked.
ClearOnly(s) ==
    /\ functors' = [functors EXCEPT ![s] =
            [used |-> <<>>, rest |-> functors[s].used \o functors[s].rest]]
    /\ UNCHANGED <<live, signals>>

\* disconnect_all: unlink every element, then clear.
Clear(s) ==
    LET v == functors[s]
    IN  /\ functors' = [functors EXCEPT ![s] = [used |-> <<>>, rest |-> v.used \o v.rest]]
        /\ live' = live \ ToSet(v.used)
        /\ signals' = [t \in Tackers |-> [signals[t] EXCEPT ![s] =
                            IF @ > Owned(v, t) THEN @ - Owned(v, t) ELSE 0]]

DisconnectAll(s) ==
    /\ MayDo("disconnect")
    /\ s \in existing
    /\ Clear(s)
    /\ UNCHANGED <<store, alive, dying, existing, frames, assigned>>

\* ~signal_base, at top level.  A tacker that still knew the signal would use
\* a dangling pointer; by CountsAgree only assignment gets it there.
DestroySignal(s) ==
    /\ frames = <<>> /\ MayDo("destroy")
    /\ s \in existing
    /\ existing' = existing \ {s}
    /\ Clear(s)
    /\ Assignment => \A t \in Tackers : signals'[t][s] = 0
    /\ UNCHANGED <<store, alive, dying, frames, assigned>>
-----------------------------------------------------------------------------
(* The destructor of a tacker                                              *)

Known(map, t) == {s \in Signals : map[t][s] > 0}

DestroyTacker(t) ==
    /\ MayDo("destroy")
    /\ t \in alive
    /\ alive' = alive \ {t}
    /\ dying' = t
    /\ UNCHANGED <<functors, store, live, signals, existing, frames, assigned>>

\* One iteration of untack_all: disconnect from the first signal of the map,
\* and give up if that did not make the map smaller.
UntackStep ==
    /\ dying # NoTacker
    /\ \E s \in Known(signals, dying) :
        /\ Unlink(s, {f \in Functors : owner[f] = dying})
        /\ dying' = IF Cardinality(Known(signals', dying))
                            >= Cardinality(Known(signals, dying))
                    THEN NoTacker ELSE dying
    /\ UNCHANGED <<store, alive, existing, frames, assigned>>

UntackDone ==
    /\ dying # NoTacker
    /\ Known(signals, dying) = {}
    /\ dying' = NoTacker
    /\ UNCHANGED <<functors, store, live, signals, alive, existing, frames, assigned>>

\* The assignment operator the compiler makes for tacker copies the map.
Assign(t, u) ==
    /\ Assignment
    /\ frames = <<>> /\ dying = NoTacker
    /\ t \in alive /\ u \in alive /\ t # u
    /\ signals' = [signals EXCEPT ![t] = signals[u]]
    /\ assigned' = assigned \cup {t}
    /\ UNCHANGED <<functors, store, live, alive, dying, existing, frames>>
-----------------------------------------------------------------------------
(* Emission                                                                *)

Emit(s) ==
    /\ MayDo("emit")
    /\ s \in existing
    /\ Len(frames) < MaxDepth
    /\ frames' = Append(frames, [sig |-> s, i |-> 0, n |-> Len(functors[s].used),
                                 stop |-> FALSE, done |-> <<>>,
                                 at |-> functors[s].used])
    /\ UNCHANGED <<functors, store, live, signals, alive, dying, existing, assigned>>

\* Mutant: no signal, or every signal, reads the size again.
SizeReadOnce(fr) == fr.n
SizeReadAgain(fr) == Len(functors[fr.sig].used)

\* The loop bound: a signal reads the size once, a bool_signal every time.
Size(fr) == IF fr.sig \in BoolSignals THEN Len(functors[fr.sig].used) ELSE fr.n

\* functors[i] is called.  Beyond the size that reads what was left behind.  A
\* bool_signal stops if the result decides the combined one.
EmitCall ==
    /\ dying = NoTacker /\ frames # <<>>
    /\ LET fr == Last(frames)
           v == functors[fr.sig]
           f == (v.used \o v.rest)[fr.i + 1]
       IN  /\ ~fr.stop /\ fr.i < Size(fr)
           /\ \E stop \in IF fr.sig \in BoolSignals THEN BOOLEAN ELSE {FALSE} :
                frames' = [frames EXCEPT ![Len(frames)] =
                    [fr EXCEPT !.i = @ + 1, !.stop = stop, !.done = Append(@, f)]]
    /\ UNCHANGED <<functors, store, live, signals, alive, dying, existing, assigned>>

EmitReturn ==
    /\ dying = NoTacker /\ frames # <<>>
    /\ Last(frames).stop \/ Last(frames).i >= Size(Last(frames))
    /\ frames' = Front(frames)
    /\ UNCHANGED <<functors, store, live, signals, alive, dying, existing, assigned>>

Next ==
    \/ \E s \in Signals, t \in Owners, m \in Slots :
            Connect(s, t, m) \/ DisconnectFunctor(s, t, m)
    \/ \E s \in Signals : DisconnectAll(s) \/ DestroySignal(s) \/ Emit(s)
    \/ \E s \in Signals, t \in Tackers : DisconnectTacker(s, t)
    \/ \E t \in Tackers : DestroyTacker(t)
    \/ \E t, u \in Tackers : Assign(t, u)
    \/ UntackStep \/ UntackDone
    \/ EmitCall \/ EmitReturn

Spec == Init /\ [][Next]_vars

-----------------------------------------------------------------------------
(* Correctness                                                             *)

\* The counts of a tacker are the numbers of functors that belong to it, unless
\* another one was assigned to it.
CountsAgree ==
    \A t \in (alive \cup {dying}) \ ({NoTacker} \cup assigned) : \A s \in Signals :
        signals[t][s] = Owned(functors[s], t)

\* Every functor is connected to exactly one signal or deleted: none leaks,
\* none is deleted and still connected.
NoneLeaksNoneDangles ==
    \A f \in 1..allocated :
        Cardinality({p \in Signals \X Functors :
            p[2] \in DOMAIN functors[p[1]].used /\ functors[p[1]].used[p[2]] = f})
        = IF f \in live THEN 1 ELSE 0

\* And no emission calls a deleted functor or one of a destroyed instance.
CallsOnlyConnected ==
    [][\A k \in DOMAIN frames :
        k \in DOMAIN frames' /\ frames'[k].done # frames[k].done =>
            LET f == Last(frames'[k].done)
            IN  f \in live /\ owner[f] \in alive \cup {NoTacker} \cup assigned]_vars

\* A plain emission calls the functors connected when it started, in order and
\* once each, whatever is connected or emitted meanwhile.
CallsEachOnce ==
    [][Len(frames') < Len(frames) /\ Last(frames).sig \notin BoolSignals =>
        Last(frames).done = Last(frames).at]_vars
=============================================================================
