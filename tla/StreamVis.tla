------------------------------ MODULE StreamVis ------------------------------
(* libs/stream_vis: a thread that receives data appends samples to the ring   *)
(* buffers of time series while the draw thread copies the new ones, frame by *)
(* frame, to a storage buffer of floats and from there to the vertex buffer   *)
(* of a plot.  The two share no lock: the mutex of a series is taken by the   *)
(* appending side only.                                                       *)
(*                                                                            *)
(* There are two series of one plot, in the order of their indices: a sampled *)
(* one and a resampled one, which takes its values from a third series, the   *)
(* source, whenever the sampled one has a value.  A sample is its time and    *)
(* its value; samples of a series have different times and the time of its    *)
(* n-th sample is written n.  The value of the sampled series tells no more   *)
(* and is also n, that of the resampled one is the number of the packet it    *)
(* came with, and 0 is nan.  The values that packets bring are numbers.       *)
EXTENDS Integers, Sequences, FiniteSetsExt

CONSTANTS RingSize,    \* samples in the ring buffer of each series
          MaxPackets   \* bound on the packets received

ASSUME StreamAssumption == RingSize \in Nat \ {0} /\ MaxPackets \in Nat

Series == {"sampled", "resampled"}
Slots == 0 .. RingSize - 1
Packets == SUBSET {"sampled", "source"} \ {{}}  \* the series with a value in it
NoSample == [time |-> 0, value |-> 0]
Writing == [s \in Series |-> IF s = "sampled" THEN "write sampled" ELSE "write resampled"]
Samples == [time : Nat, value : Nat]

VARIABLES
  packets,   \* the packets received so far
  appended,  \* the samples of each series; its nr_samples is their number
  cache,     \* sample_cache: the ring buffer of each series
  sending,   \* what the receiving thread does: "idle", at a series, or writing
  is_bool,   \* whether the resampled series is one of bools
  offset,    \* its value_offset: "unset", a "number" or "nan"
  cached,    \* the packet of its new_value, 0 without one
  ring,      \* the series whose ring buffer update_plot_samples is at
  step,      \* what the draw thread does in it
  index,     \* index of the sample at which that is
  count,     \* number of samples it adds
  drawn,     \* nr_samples of the time_series_ringbuffer
  storage,   \* the slots of each series in the storage buffer
  vbo,       \* and in the vertex buffer
  first,     \* begin_sample and
  last       \* end_sample of the plot

sender == <<packets, appended, cache, sending, is_bool, offset, cached>>
frame == <<ring, step, index, count, drawn, storage, vbo, first, last>>
vars == <<sender, frame>>
-----------------------------------------------------------------------------
NrSamples(s) == Len(appended[s])

Init ==
  /\ packets = << >> /\ appended = [s \in Series |-> << >>]
  /\ cache = [s \in Series |-> [c \in Slots |-> NoSample]]
  /\ sending = "idle" /\ cached = 0
  /\ is_bool \in BOOLEAN /\ offset \in {"unset", "number"}
  /\ is_bool => offset = "number"
  /\ ring = "sampled" /\ step = "count" /\ index = 0 /\ count = 0
  /\ drawn = [s \in Series |-> 0]
  /\ storage = [s \in Series |-> [c \in Slots |-> NoSample]]
  /\ vbo = [s \in Series |-> [c \in Slots |-> NoSample]]
  /\ first = 0 /\ last = 0
-----------------------------------------------------------------------------
(* The receiving thread.                                                      *)

Now == Len(packets)

\* A packet is offered to the series in the order of their indices.
Receive(p) ==
  /\ sending = "idle" /\ Now < MaxPackets
  /\ packets' = Append(packets, p)
  /\ sending' = IF "sampled" \in p THEN "write sampled" ELSE "resampled"
  /\ UNCHANGED <<appended, cache, is_bool, offset, cached, frame>>

\* The sampled series has no new value: one of the source is cached.
CacheValue ==
  /\ sending = "resampled" /\ "sampled" \notin packets[Now]
  /\ cached' = IF "source" \in packets[Now] THEN Now ELSE cached
  /\ sending' = "idle"
  /\ UNCHANGED <<packets, appended, cache, is_bool, offset, frame>>

\* The sampled series has one: the resampled series appends its own, the cached
\* value or nan.
Resample ==
  /\ sending = "resampled" /\ "sampled" \in packets[Now]
  /\ sending' = "write resampled"
  /\ UNCHANGED <<packets, appended, cache, is_bool, offset, cached, frame>>

\* The value the resampled series appends: its own, the cached one or nan.
Resampled == IF "source" \in packets[Now] THEN Now ELSE cached

\* construct_stored_value: the first value becomes the offset if there is none,
\* and what is stored with nan as offset is nan.  (Only float series start without
\* an offset, if the context declares none.)
OffsetFor(v) ==
  IF offset # "unset" THEN offset ELSE IF v = 0 THEN "nan" ELSE "number"
Stored(v) == IF OffsetFor(v) = "nan" THEN 0 ELSE v

\* The sample the receiving thread is about to write into a series.
Incoming(s) ==
  LET n == NrSamples(s) + 1
  IN  [time |-> n, value |-> IF s = "sampled" THEN n ELSE Stored(Resampled)]

\* append_sample: the sample overwrites the oldest one, then it is counted.
AppendTo(s) ==
  /\ cache' = [cache EXCEPT ![s][NrSamples(s) % RingSize] = Incoming(s)]
  /\ appended' = [appended EXCEPT ![s] = Append(@, Incoming(s))]

AppendSampled ==
  /\ sending = "write sampled" /\ AppendTo("sampled")
  /\ sending' = "resampled"
  /\ UNCHANGED <<packets, is_bool, offset, cached, frame>>

(* Mutant: the cached value is used again for the next sample.                *)
AppendResampledKeepsValue ==
  /\ sending = "write resampled" /\ AppendTo("resampled")
  /\ offset' = OffsetFor(Resampled)
  /\ sending' = "idle"
  /\ UNCHANGED <<packets, is_bool, cached, frame>>

\* The cached value is used or outdated, and cleared.  A bool series that has a
\* value of its own in the packet appends that and keeps the cached one.
AppendResampled ==
  /\ sending = "write resampled" /\ AppendTo("resampled")
  /\ offset' = OffsetFor(Resampled)
  /\ cached' = IF is_bool /\ "source" \in packets[Now] THEN cached ELSE 0
  /\ sending' = "idle"
  /\ UNCHANGED <<packets, is_bool, frame>>
-----------------------------------------------------------------------------
(* The draw thread.                                                           *)

\* convert_to_cached_sample_index; the oldest sample of a full ring is refused.
IsCached(s, si) == si < NrSamples(s) /\ NrSamples(s) - si < RingSize

\* What is read from a slot: while it is written, the time and the value may
\* each be the old or the new one.
Visible(s, c) ==
  LET seen == {cache[s][c]} \cup
                IF sending = Writing[s] /\ c = NrSamples(s) % RingSize
                THEN {Incoming(s)} ELSE {}
  IN  {[time |-> a.time, value |-> b.value] : a \in seen, b \in seen}

\* After the ring buffer of the last series the plot domains are updated.
NextRing ==
  IF ring = "sampled" THEN ring' = "resampled" /\ step' = "count"
  ELSE ring' = ring /\ step' = "domains"

NextSample ==
  IF index + 1 < drawn[ring] + count THEN index' = index + 1 /\ step' = "check"
  ELSE index' = index /\ step' = "upload"

Count ==
  /\ step = "count"
  /\ count' = NrSamples(ring) - drawn[ring]
  /\ IF count' = 0 THEN NextRing /\ index' = index
     ELSE step' = "check" /\ index' = drawn[ring] /\ ring' = ring
  /\ UNCHANGED <<sender, drawn, storage, vbo, first, last>>

\* put_sample_as_float: the storage slot keeps what it has if it is refused,
Check ==
  /\ step = "check"
  /\ IF IsCached(ring, index) THEN step' = "read" /\ index' = index ELSE NextSample
  /\ UNCHANGED <<sender, ring, count, drawn, storage, vbo, first, last>>

\* and is written from the ring buffer otherwise.
Read ==
  /\ step = "read"
  /\ \E x \in Visible(ring, index % RingSize) :
       storage' = [storage EXCEPT ![ring][index % RingSize] = x]
  /\ NextSample
  /\ UNCHANGED <<sender, ring, count, drawn, vbo, first, last>>

\* The slots copied to the vertex buffer: all, or the new ones in one part or,
\* across the end of the buffer, in two.
Uploaded(s) ==
  LET fst == drawn[s] % RingSize
      lst == (drawn[s] + count - 1) % RingSize
  IN  IF count >= RingSize THEN Slots
      ELSE IF lst >= fst THEN fst .. fst + count - 1
      ELSE (fst .. RingSize - 1) \cup (0 .. lst)

\* They are copied, and the samples up to n are counted as drawn.
CopyAndCount(n) ==
  /\ step = "upload"
  /\ vbo' = [vbo EXCEPT ![ring] =
       [c \in Slots |-> IF c \in Uploaded(ring) THEN storage[ring][c] ELSE @[c]]]
  /\ drawn' = [drawn EXCEPT ![ring] = n]
  /\ NextRing
  /\ UNCHANGED <<sender, index, count, storage, first, last>>

(* Mutants: samples that came while the frame copied are counted as drawn;    *)
(* the count starts again with each complete copy.                            *)
UploadCountsAgain == CopyAndCount(NrSamples(ring))
UploadForgets == CopyAndCount(IF count >= RingSize THEN 0 ELSE drawn[ring] + count)

Upload == CopyAndCount(drawn[ring] + count)

\* The number of samples drawn of every axis.
Complete ==
  IF drawn["sampled"] <= drawn["resampled"] THEN drawn["sampled"] ELSE drawn["resampled"]

(* Mutant: the end is not brought back into the ring.                        *)
DomainsUnwrapped ==
  /\ step = "domains"
  /\ IF Complete <= RingSize THEN last' = Complete /\ first' = first
     ELSE last' = Complete /\ first' = Complete % RingSize
  /\ step' = "draw"
  /\ UNCHANGED <<sender, ring, index, count, drawn, storage, vbo>>

\* update_plot_domains: the part of the ring buffers to be drawn.
Domains ==
  /\ step = "domains"
  /\ IF Complete <= RingSize THEN last' = Complete /\ first' = first
     ELSE /\ first' = (Complete - RingSize) % RingSize
          /\ last' = Complete % RingSize
  /\ step' = "draw"
  /\ UNCHANGED <<sender, ring, index, count, drawn, storage, vbo>>

\* draw_sub_plot_samples: the slots from first to last, around the end if the
\* range is not ascending.
InPlot ==
  IF first >= last THEN {c \in Slots : c >= first \/ c < last} ELSE first .. last - 1

Draw ==
  /\ step = "draw"
  /\ ring' = "sampled" /\ step' = "count"
  /\ UNCHANGED <<sender, index, count, drawn, storage, vbo, first, last>>
-----------------------------------------------------------------------------
Frame == Count \/ Check \/ Read \/ Upload \/ Domains \/ Draw

Next ==
  \/ \E p \in Packets : Receive(p)
  \/ CacheValue \/ Resample \/ AppendSampled \/ AppendResampled
  \/ Frame

Spec == Init /\ [][Next]_vars

\* Frames follow each other: outofdate is never reset, so every timer event
\* posts a redraw.  Data may stop to come at any time.
FairSpec == Spec /\ WF_vars(Frame)
-----------------------------------------------------------------------------
Copying(s) == s = ring /\ step \in {"check", "read", "upload"}

TypeOK ==
  /\ packets \in Seq(Packets) /\ appended \in [Series -> Seq(Samples)]
  /\ cache \in [Series -> [Slots -> Samples]]
  /\ sending \in {"idle", "resampled"} \cup {Writing[s] : s \in Series}
  /\ is_bool \in BOOLEAN /\ offset \in {"unset", "number", "nan"} /\ cached \in Nat
  /\ ring \in Series
  /\ step \in {"count", "check", "read", "upload", "domains", "draw"}
  /\ drawn \in [Series -> Nat] /\ count \in Nat /\ index \in Nat
  /\ storage \in [Series -> [Slots -> Samples]] /\ vbo \in [Series -> [Slots -> Samples]]
  /\ first \in Slots /\ last \in 0 .. RingSize
  /\ \A s \in Series :
       /\ drawn[s] <= NrSamples(s)
       /\ Copying(s) => /\ index \in drawn[s] .. drawn[s] + count - 1
                        /\ drawn[s] + count <= NrSamples(s)

\* Every sample of the sampled series gets the last value the source had since
\* the sample before it, and nan if it had none; with two exceptions.  A bool
\* series that should get nan gets the last value of the source that has not been
\* used instead, however old, if all samples since came together with a value of
\* the source.  And a float series without a declared offset whose first sample is
\* nan stays nan for ever.
ResampledIsLatest ==
  LET at == [n \in 1 .. NrSamples("resampled") |->
               CHOOSE p \in 1 .. Now :
                 /\ "sampled" \in packets[p]
                 /\ Cardinality({q \in 1 .. p : "sampled" \in packets[q]}) = n]
      Since(n) == (IF n = 1 THEN 1 ELSE at[n - 1] + 1) .. at[n]
      Of(n) == {p \in Since(n) : "source" \in packets[p]}
      LeftOver(n) == {p \in 1 .. at[n] - 1 :
                        /\ "source" \in packets[p] /\ "sampled" \notin packets[p]
                        /\ \A q \in p .. at[n] - 1 :
                             "sampled" \in packets[q] => "source" \in packets[q]}
      Value(n) == appended["resampled"][n].value
  IN  \A n \in 1 .. NrSamples("resampled") :
        \/ /\ offset # "nan" /\ Of(n) # {}
           /\ Value(n) = Max(Of(n))
        \/ /\ offset # "nan" /\ Of(n) = {} /\ ~(is_bool /\ LeftOver(n) # {})
           /\ Value(n) = 0
        \/ /\ is_bool /\ Of(n) = {} /\ LeftOver(n) # {}
           /\ Value(n) = Max(LeftOver(n))
        \/ /\ offset = "nan" /\ ~is_bool /\ Of(1) = {}
           /\ Value(n) = 0

\* Of the last samples that both axes have, as many as fit into the ring, each
\* one is in the drawn part of the buffer, and what is drawn for it is that
\* sample, whole, on every axis, unless the ring of the axis has been filled up
\* to it since.
FrameIsFaithful ==
  step = "draw" =>
    \A si \in 0 .. Complete - 1 : si + RingSize >= Complete =>
      /\ si % RingSize \in InPlot
      /\ \A s \in Series : \/ vbo[s][si % RingSize] = appended[s][si + 1]
                           \/ NrSamples(s) >= si + RingSize

\* Every sample both axes have gets its turn in a frame: however many come while
\* frames are drawn, the frames catch up once no more do.  (Data stop to come, in
\* every behaviour of the model, after any number of packets up to the bound, so
\* that this includes every sample.)
EverySampleIsDrawn == NrSamples("resampled") > Complete ~> NrSamples("resampled") = Complete
=============================================================================
