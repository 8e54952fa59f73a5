---------------------------- MODULE FrameQueue ----------------------------
(* What a cache of frames promises to the application that polls it: on    *)
(* every stream frames come in the order they were captured, each at most  *)
(* once. A cache that is full when a frame arrives loses all it holds, not *)
(* only its oldest frame.                                                  *)
EXTENDS Naturals, Sequences
CONSTANTS Streams, Frame, NoFrame, Capacity
VARIABLES waiting,     \* the frames of a stream that can still be fetched
          received     \* the last frame fetched

queueVars == <<waiting, received>>

Init ==
    /\ waiting = [is \in Streams |-> <<>>]
    /\ received = [is \in Streams |-> NoFrame]

Arrived(q, f) == IF Len(q) = Capacity THEN <<f>> ELSE Append(q, f)

\* One capture brings a frame to each active stream.
Put(active, f) ==
    /\ waiting' = [is \in Streams |->
                     IF is \in active THEN Arrived(waiting[is], f) ELSE waiting[is]]
    /\ UNCHANGED received

Get(is) ==
    /\ waiting[is] # <<>>
    /\ received' = [received EXCEPT ![is] = Head(waiting[is])]
    /\ waiting' = [waiting EXCEPT ![is] = Tail(waiting[is])]

Clear ==
    /\ waiting' = [is \in Streams |-> <<>>]
    /\ UNCHANGED received

Next ==
    \/ \E active \in SUBSET Streams, f \in Frame : Put(active, f)
    \/ \E is \in Streams : Get(is)
    \/ Clear

Spec == Init /\ [][Next]_queueVars
===========================================================================
