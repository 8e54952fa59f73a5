----------------------------- MODULE FrameRing -----------------------------
(* The frame caches of the Azure Kinect driver, one ring of four slots per *)
(* stream: the capture thread stores under capture_lock and never looks at *)
(* the read index, the application fetches under the same lock.            *)
EXTENDS Naturals, Sequences
CONSTANTS Streams,    \* the streams a capture may have: color, depth, infrared
          Frame,      \* frames
          NoFrame     \* a slot never written, or whose frame was moved out

ASSUME FrameAssumption == NoFrame \notin Frame

frame_cache_size == 4

VARIABLES frames,          \* color_frames, depth_frames, ir_frames
          current_read,    \* current_read_color_frame, ...
          current_write,   \* current_write_color_frame, ...
          has_new,         \* has_new_color_frame, ...
          received         \* the last frame get_frame handed out

ringVars == <<frames, current_read, current_write, has_new, received>>

Slots == 0..(frame_cache_size - 1)

Content == Frame \cup {NoFrame}

Empty == [is \in Streams |-> [i \in Slots |-> NoFrame]]

RingInit ==
    /\ frames = Empty
    /\ current_read = [is \in Streams |-> 0]
    /\ current_write = [is \in Streams |-> 0]
    /\ has_new = [is \in Streams |-> FALSE]
    /\ received = [is \in Streams |-> NoFrame]

\* Mutant: does not wrap around.
NextSlotUnbounded(i) == i + 1

NextSlot(i) == (i + 1) % frame_cache_size

\* The locked part of capture: every active stream gets its frame of the capture.
Store(active, f) ==
    /\ frames' = [is \in Streams |->
          IF is \in active THEN [frames[is] EXCEPT ![current_write[is]] = f] ELSE frames[is]]
    /\ current_write' = [is \in Streams |->
          IF is \in active THEN NextSlot(current_write[is]) ELSE current_write[is]]
    /\ has_new' = [is \in Streams |-> is \in active \/ has_new[is]]
    /\ UNCHANGED <<current_read, received>>

\* Mutant: compares the indices before the read index moves on.
MoreThanThisBeforeStep(is) == current_read[is] # current_write[is]

\* Whether frames are left on the stream once one has been fetched.
MoreThanThis(is) == NextSlot(current_read[is]) # current_write[is]

\* The locked part of get_frame: the frame is moved out of its slot.
Take(is) ==
    /\ received' = [received EXCEPT ![is] = frames[is][current_read[is]]]
    /\ frames' = [frames EXCEPT ![is][current_read[is]] = NoFrame]
    /\ current_read' = [current_read EXCEPT ![is] = NextSlot(current_read[is])]
    /\ has_new' = [has_new EXCEPT ![is] = MoreThanThis(is)]
    /\ UNCHANGED current_write

\* attach of a driver resets the indices and resizes the caches: those of a
\* new driver are empty, those of one that recovers keep what they hold.
ResetRing(contents) ==
    /\ frames' = contents
    /\ current_read' = [is \in Streams |-> 0]
    /\ current_write' = [is \in Streams |-> 0]
    /\ has_new' = [is \in Streams |-> FALSE]
    /\ UNCHANGED received

RingNext ==
    \/ \E active \in SUBSET Streams, f \in Frame : Store(active, f)
    \/ \E is \in Streams : has_new[is] /\ Take(is)
    \/ \E contents \in {Empty, frames} : ResetRing(contents)

RingSpec == RingInit /\ [][RingNext]_ringVars
-----------------------------------------------------------------------------
RingTypeOK ==
    /\ frames \in [Streams -> [Slots -> Content]]
    /\ current_read \in [Streams -> Slots]
    /\ current_write \in [Streams -> Slots]
    /\ has_new \in [Streams -> BOOLEAN]

\* How many frames can be fetched before the flag says that there are none.
Count(read, write, new) ==
    IF ~new THEN 0
    ELSE IF read < write THEN write - read ELSE write + frame_cache_size - read

\* The i-th slot to be read, counted from 1.
SlotAt(read, i) == (read + i - 1) % frame_cache_size

\* These frames, in the order in which they are fetched.
Held(slots, read, write, new) ==
    [i \in 1..Count(read, write, new) |-> slots[SlotAt(read, i)]]

HeldOn(is) == Held(frames[is], current_read[is], current_write[is], has_new[is])

\* The flag and the two indices of a ring describe the same frames: without
\* the flag the indices meet, and each slot up to the write index holds a frame
\* that get_frame has not moved out, however often capture has lapped it.
RingAgrees ==
    \A is \in Streams :
        /\ ~has_new[is] => current_read[is] = current_write[is]
        /\ HeldOn(is) \in Seq(Frame)

Queue == INSTANCE FrameQueue WITH
    Capacity <- frame_cache_size,
    waiting <- [is \in Streams |-> HeldOn(is)]

\* get_frame hands out the frames of a stream in the order of their capture,
\* none twice and none that was moved out, although capture may lap it: the
\* ring is a queue that loses four frames at a time.
FramesInOrder == Queue!Spec
=============================================================================
