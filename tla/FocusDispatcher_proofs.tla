----------------------- MODULE FocusDispatcher_proofs -----------------------
(* Proofs about FocusDispatcher, for all objects, devices and attachments: the *)
(* bookkeeping of attachments, which of them may overlap, whom an event goes   *)
(* to first, and that it is offered once to everybody.                         *)
EXTENDS FocusDispatcher, Subsequences_proofs

AllAttachments == Attachments \cup {HidAtt(h) : h \in Hids}
Entry == [object : Objects, config : SUBSET Flags]

\* The attachments o holds in f.
Held(f, o) == {a \in DOMAIN f : f[a].object = o}

\* The state that Attach and Detach work on, without the pointer into focus.
Shape(s) == s = [focus |-> s.focus, dflt |-> s.dflt, told |-> s.told,
                 ptr |-> s.ptr, att |-> s.att]

Maps(s) ==
  /\ Shape(s)
  /\ s.focus \in [DOMAIN s.focus -> Entry]
  /\ DOMAIN s.focus \subseteq AllAttachments
  /\ s.dflt \in SUBSET Flags
  /\ s.told \in [Objects -> Int]

Balanced(s) ==
  /\ IsFiniteSet(DOMAIN s.focus)
  /\ \A o \in Objects : s.told[o] = Cardinality(Held(s.focus, o))

\* Attachments a and b do not exclude each other.
Compatible(a, b) == \A h \in Hids : Overlap(a, b, h) =>
     \/ {a.level, b.level} = {"hid", "category"}
     \/ {a.level, b.level} = {"hid", "kit"} /\ ~InRange(h)

Disjoint(s) == \A a, b \in DOMAIN s.focus : Compatible(a, b)

Kept(s) == Maps(s) /\ Balanced(s) /\ Disjoint(s)
Sound(s) == Kept(s) /\ s.ptr \in DOMAIN s.focus \cup {None}
-----------------------------------------------------------------------------
\* What the focus operations do, field by field.
LEMMA ForgetFields ==
  ASSUME NEW s, Shape(s), NEW gone
  PROVE  LET t == Forget(s, gone) IN
         /\ Shape(t) /\ t.dflt = s.dflt /\ t.ptr = s.ptr /\ t.att = s.att
         /\ t.focus = [b \in DOMAIN s.focus \ gone |-> s.focus[b]]
         /\ t.told = [o \in Objects |->
              s.told[o] - Cardinality({b \in gone : s.focus[b].object = o})]
<1> DEFINE f == Restrict(s.focus, DOMAIN s.focus \ gone)
           g == [o \in Objects |->
                   s.told[o] - Cardinality({b \in gone : s.focus[b].object = o})]
<1>1. Forget(s, gone) = [focus |-> f, dflt |-> s.dflt, told |-> g, ptr |-> s.ptr,
                         att |-> s.att]
  <2> HIDE DEF f, g
  <2>1. Forget(s, gone) = [s EXCEPT !.focus = f, !.told = g]
    BY Zenon DEF Forget, f, g
  <2> QED BY <2>1 DEF Shape
<1>2. f = [b \in DOMAIN s.focus \ gone |-> s.focus[b]]
  BY DEF Restrict
<1> HIDE DEF f, g
<1>3. QED BY <1>1, <1>2 DEF Shape, g

LEMMA ForgetKeeps ==
  ASSUME NEW s, Kept(s), NEW gone \in SUBSET DOMAIN s.focus
  PROVE  Kept(Forget(s, gone))
<1> DEFINE t == Forget(s, gone)
<1>1. /\ Shape(t) /\ t.dflt = s.dflt
      /\ t.focus = [b \in DOMAIN s.focus \ gone |-> s.focus[b]]
      /\ t.told = [o \in Objects |->
              s.told[o] - Cardinality({b \in gone : s.focus[b].object = o})]
  <2>1. Shape(s) BY DEF Kept, Maps
  <2> QED BY <2>1, ForgetFields
<1> HIDE DEF t
<1>2. ASSUME NEW o \in Objects
      PROVE  /\ IsFiniteSet(DOMAIN t.focus)
             /\ Cardinality({b \in gone : s.focus[b].object = o}) \in Int
             /\ t.told[o] = Cardinality(Held(t.focus, o))
  <2> DEFINE S == Held(s.focus, o)  G == {b \in gone : s.focus[b].object = o}
  <2>1. IsFiniteSet(DOMAIN s.focus) /\ s.told[o] = Cardinality(S)
    BY DEF Kept, Balanced
  <2>2. IsFiniteSet(S) /\ IsFiniteSet(DOMAIN s.focus \ gone)
    BY <2>1, FS_Subset, FS_Difference DEF Held
  <2>3. S \cap G = G /\ Held(t.focus, o) = S \ G
    BY <1>1 DEF Held
  <2>4. Cardinality(S \ G) = Cardinality(S) - Cardinality(G)
    BY <2>2, <2>3, FS_Difference
  <2>5. IsFiniteSet(G)
    BY <2>2, <2>3, FS_Subset
  <2>6. Cardinality(G) \in Nat
    BY <2>5, FS_CardinalityType
  <2>7. t.told[o] = s.told[o] - Cardinality(G)
    BY <1>1
  <2>8. DOMAIN t.focus = DOMAIN s.focus \ gone
    BY <1>1
  <2> QED BY <2>1, <2>2, <2>3, <2>4, <2>6, <2>7, <2>8
<1>3. Maps(t)
  <2>1. t.told \in [Objects -> Int]
    <3>1. \A o \in Objects :
            s.told[o] - Cardinality({b \in gone : s.focus[b].object = o}) \in Int
      BY <1>2 DEF Kept, Maps
    <3> QED BY <1>1, <3>1
  <2> QED BY <1>1, <2>1 DEF Kept, Maps
<1>4. Balanced(t)
  <2>1. IsFiniteSet(DOMAIN t.focus)
    <3>1. IsFiniteSet(DOMAIN s.focus) BY DEF Kept, Balanced
    <3>2. DOMAIN t.focus = DOMAIN s.focus \ gone BY <1>1
    <3> QED BY <3>1, <3>2, FS_Difference
  <2> QED BY <1>2, <2>1 DEF Balanced
<1>5. Disjoint(t)
  BY <1>1 DEF Kept, Disjoint
<1> QED BY <1>3, <1>4, <1>5 DEF Kept, t
-----------------------------------------------------------------------------
\* The four kinds of attachments.
LEMMA Kinds ==
  ASSUME NEW a \in AllAttachments
  PROVE  /\ a # None
         /\ \/ a.level = "hid" /\ a.hid \in Hids /\ a = HidAtt(a.hid)
            \/ a.level = "kit" /\ \E h \in Hids : KitCategory(h.cat) # "none" /\ a = KitAtt(h)
            \/ a.level = "category" /\ a.sel \subseteq Categories
            \/ a.level = "all" /\ a = AllAtt
<1>1. a # None
  BY DispatcherAssumption DEF AllAttachments
<1>2. CASE \E h \in Hids : a = HidAtt(h)
  BY <1>1, <1>2 DEF HidAtt
<1>3. CASE a \in Attachments
  <2>1. CASE a = AllAtt BY <1>1, <2>1 DEF AllAtt
  <2>2. CASE \E h \in Hids : KitCategory(h.cat) # "none" /\ a = KitAtt(h)
    BY <1>1, <2>2 DEF KitAtt
  <2>3. CASE \E sel \in SUBSET Categories : a = [level |-> "category", sel |-> sel]
    BY <1>1, <2>3
  <2> QED BY <1>2, <1>3, <2>1, <2>2, <2>3, DispatcherAssumption
<1> QED BY <1>2, <1>3 DEF AllAttachments

\* An attachment that a does not displace is compatible with it.
LEMMA DisplacedSuffices ==
  ASSUME NEW s, NEW dev, NEW a \in AllAttachments, NEW b \in AllAttachments,
         b \in DOMAIN s.focus, b \notin Displaced(s, a, dev)
  PROVE  b # a /\ Compatible(a, b) /\ Compatible(b, a)
<1>0. a.level # "all" /\ b.level # "all"
  BY DEF Displaced
<1>1. CASE a.level = "hid"
  <2>0. a.hid \in Hids /\ a = HidAtt(a.hid) /\ a # b
    BY <1>1, Kinds DEF Displaced
  <2>1. CASE b.level = "hid"
    <3>1. b = HidAtt(b.hid) BY <2>1, Kinds
    <3>2. \A h \in Hids : ~(Covers(a, h) /\ Covers(b, h))
      BY <1>1, <2>0, <2>1, <3>1 DEF Covers
    <3> QED BY <2>0, <3>2 DEF Compatible, Overlap
  <2>2. CASE b.level = "kit"
    <3>1. PICK k \in Hids : KitCategory(k.cat) # "none" /\ b = KitAtt(k)
      BY <2>2, Kinds
    <3>2. ASSUME NEW h \in Hids, Covers(a, h), Covers(b, h) PROVE FALSE
      <4>1. a.hid = h /\ b = KitAtt(h)
        BY <1>1, <2>2, <3>2 DEF Covers
      <4>2. KitCategory(h.cat) = KitCategory(k.cat)
        BY <4>1, <3>1 DEF KitAtt
      <4> QED BY <1>1, <2>2, <3>1, <4>1, <4>2 DEF Displaced
    <3> QED BY <2>0, <3>2 DEF Compatible, Overlap
  <2>3. CASE b.level = "category"
    BY <1>1, <2>0, <2>3 DEF Compatible
  <2> QED BY <1>0, <2>1, <2>2, <2>3, Kinds
<1>2. CASE a.level = "kit"
  <2>0. a # b
    BY <1>2 DEF Displaced
  <2> PICK k \in Hids : KitCategory(k.cat) # "none" /\ a = KitAtt(k)
    BY <1>2, Kinds
  <2>1. CASE b.level = "hid"
    <3>1. b = HidAtt(b.hid) /\ b.hid \in Hids BY <2>1, Kinds
    <3>2. ASSUME NEW h \in Hids, Covers(a, h), Covers(b, h) PROVE ~InRange(h)
      <4>1. b.hid = h /\ a = KitAtt(h)
        BY <1>2, <2>1, <3>2 DEF Covers
      <4>2. a.kit = KitCategory(h.cat) /\ a.dev = h.dev /\ a.kit # "none"
        BY <4>1 DEF KitAtt
      <4>3. h.cat \in HidCategories(a.kit)
        BY <4>2, DispatcherAssumption DEF HidCategories
      <4> QED BY <1>2, <2>1, <4>1, <4>2, <4>3 DEF Displaced, InRange
    <3>3. {a.level, b.level} = {"hid", "kit"} /\ {b.level, a.level} = {"hid", "kit"}
      BY <1>2, <2>1
    <3> QED BY <2>0, <3>2, <3>3 DEF Compatible, Overlap
  <2>2. CASE b.level = "kit"
    <3>1. \A h \in Hids : ~(Covers(a, h) /\ Covers(b, h))
      BY <1>2, <2>0, <2>2 DEF Covers
    <3> QED BY <2>0, <3>1 DEF Compatible, Overlap
  <2>3. CASE b.level = "category"
    <3>1. ASSUME NEW h \in Hids, Covers(a, h), Covers(b, h) PROVE FALSE
      <4>1. h.cat \in b.sel /\ a = KitAtt(h)
        BY <1>2, <2>3, <3>1 DEF Covers
      <4>2. a.kit = KitCategory(h.cat) /\ a.kit # "none"
        BY <4>1 DEF KitAtt
      <4>3. h.cat \in HidCategories(a.kit)
        BY <4>2, DispatcherAssumption DEF HidCategories
      <4> QED BY <1>2, <2>3, <4>1, <4>3 DEF Displaced
    <3> QED BY <2>0, <3>1 DEF Compatible, Overlap
  <2> QED BY <1>0, <2>1, <2>2, <2>3, Kinds
<1>3. CASE a.level = "category"
  <2>1. CASE b.level = "hid"
    <3>1. {a.level, b.level} = {"hid", "category"} /\ {b.level, a.level} = {"hid", "category"}
      BY <1>3, <2>1
    <3> QED BY <1>3, <2>1, <3>1 DEF Compatible
  <2>2. CASE b.level = "kit"
    <3>1. ASSUME NEW h \in Hids, Covers(a, h), Covers(b, h) PROVE FALSE
      <4>1. h.cat \in a.sel /\ b = KitAtt(h)
        BY <1>3, <2>2, <3>1 DEF Covers
      <4>2. b.kit = KitCategory(h.cat)
        BY <4>1 DEF KitAtt
      <4> QED BY <1>3, <2>2, <4>1, <4>2 DEF Displaced
    <3> QED BY <1>3, <2>2, <3>1 DEF Compatible, Overlap
  <2>3. CASE b.level = "category"
    <3>1. ~Overlaps(b.sel, a.sel)
      BY <1>3, <2>3 DEF Displaced
    <3>2. ASSUME NEW h \in Hids, Covers(a, h), Covers(b, h) PROVE FALSE
      <4>1. h.cat \in a.sel /\ h.cat \in b.sel /\ h.cat \in Categories
        BY <1>3, <2>3, <3>2, DispatcherAssumption DEF Covers
      <4> QED BY <3>1, <4>1 DEF Overlaps
    <3>3. a # b
      <4>1. Overlaps(a.sel, a.sel)
        BY DEF Overlaps, Categories
      <4> QED BY <3>1, <4>1
    <3> QED BY <3>2, <3>3 DEF Compatible, Overlap
  <2> QED BY <1>0, <2>1, <2>2, <2>3, Kinds
<1> QED BY <1>0, <1>1, <1>2, <1>3, Kinds

\* attach_focus refused changes what rfi says the attachment is.
LEMMA AttachRefused ==
  ASSUME NEW s, Shape(s), NEW o, NEW a, NEW cfg, NEW dev, NEW accept \in BOOLEAN,
         a = None \/ ~accept
  PROVE  LET t == Attach(s, o, a, cfg, dev, accept)
         IN  /\ Shape(t) /\ t.dflt = s.dflt /\ t.att = a
             /\ t.focus = s.focus /\ t.told = s.told /\ t.ptr = s.ptr
<1>1. Attach(s, o, a, cfg, dev, accept) = [s EXCEPT !.att = a]
  BY DEF Attach
<1> QED BY <1>1 DEF Shape

\* Accepted, it leaves a the attachment of o and pointed to.
LEMMA AttachSound ==
  ASSUME NEW s, Sound(s), NEW o \in Objects, NEW a \in AllAttachments \cup {None},
         NEW cfg \in SUBSET Flags, NEW dev, NEW accept \in BOOLEAN
  PROVE  Sound(Attach(s, o, a, cfg, dev, accept))
<1> DEFINE t == Attach(s, o, a, cfg, dev, accept)
           gone == Displaced(s, a, dev)
           u == Forget(s, gone)
<1>0. Shape(s)
  BY DEF Sound, Kept, Maps
<1>1. CASE a = None \/ ~accept
  <2>1. Shape(t) /\ t.dflt = s.dflt /\ t.focus = s.focus /\ t.told = s.told /\ t.ptr = s.ptr
    BY <1>0, <1>1, AttachRefused
  <2> QED BY <2>1 DEF Sound, Kept, Maps, Balanced, Disjoint
<1>2. CASE a # None /\ accept
  <2>1. gone \in SUBSET DOMAIN s.focus /\ a \in AllAttachments
    BY <1>2 DEF Displaced
  <2>2. Kept(u) /\ DOMAIN u.focus = DOMAIN s.focus \ gone
    <3>1. Kept(s)
      BY DEF Sound
    <3>2. Kept(u)
      BY <2>1, <3>1, ForgetKeeps
    <3>3. u.focus = [b \in DOMAIN s.focus \ gone |-> s.focus[b]]
      BY <1>0, ForgetFields
    <3> QED BY <3>2, <3>3
  <2>3. /\ Shape(t) /\ t.dflt = s.dflt /\ t.ptr = a
        /\ t.focus = [b \in DOMAIN u.focus \cup {a} |->
             IF b = a THEN [object |-> o, config |-> cfg] ELSE u.focus[b]]
        /\ t.told = [u.told EXCEPT ![o] = @ + 1]
    <3> DEFINE f == [b \in DOMAIN u.focus \cup {a} |->
                       IF b = a THEN [object |-> o, config |-> cfg] ELSE u.focus[b]]
               g == [u.told EXCEPT ![o] = @ + 1]
    <3>1. Shape(u) /\ u.dflt = s.dflt
      BY <1>0, ForgetFields
    <3>2. t = [u EXCEPT !.focus = f, !.told = g, !.ptr = a, !.att = a]
      BY <1>2, <3>1 DEF Attach, Shape
    <3> HIDE DEF u, f, g
    <3>3. t = [focus |-> f, dflt |-> u.dflt, told |-> g, ptr |-> a, att |-> a]
      BY <3>1, <3>2 DEF Shape
    <3> HIDE DEF t
    <3>4. Shape(t) /\ t.focus = f /\ t.told = g /\ t.ptr = a /\ t.dflt = s.dflt
      BY <3>1, <3>3 DEF Shape
    <3> QED BY <3>4 DEF f, g
  <2>4. ASSUME NEW b \in DOMAIN u.focus PROVE b # a /\ Compatible(a, b) /\ Compatible(b, a)
    <3>1. b \in DOMAIN s.focus /\ b \notin Displaced(s, a, dev)
      BY <2>2
    <3>2. b \in AllAttachments
      BY <3>1 DEF Sound, Kept, Maps
    <3> QED BY <2>1, <3>1, <3>2, DisplacedSuffices
  <2> HIDE DEF t, u, gone
  <2>5. Maps(t)
    <3>1. [object |-> o, config |-> cfg] \in Entry
      BY DEF Entry
    <3>2. t.focus \in [DOMAIN u.focus \cup {a} -> Entry]
      BY <2>2, <2>3, <3>1 DEF Kept, Maps
    <3>3. t.told \in [Objects -> Int]
      BY <2>2, <2>3 DEF Kept, Maps
    <3> QED BY <2>1, <2>2, <2>3, <3>2, <3>3 DEF Sound, Kept, Maps
  <2>6. Balanced(t)
    <3>1. IsFiniteSet(DOMAIN u.focus) /\ a \notin DOMAIN u.focus
      BY <2>2, <2>4 DEF Kept, Balanced
    <3>2. IsFiniteSet(DOMAIN t.focus)
      <4>1. DOMAIN t.focus = DOMAIN u.focus \cup {a} BY <2>3
      <4> QED BY <3>1, <4>1, FS_AddElement
    <3>3. ASSUME NEW p \in Objects PROVE t.told[p] = Cardinality(Held(t.focus, p))
      <4>1. IsFiniteSet(Held(u.focus, p)) /\ a \notin Held(u.focus, p)
        BY <3>1, FS_Subset DEF Held
      <4>2. u.told[p] = Cardinality(Held(u.focus, p)) /\ u.told \in [Objects -> Int]
        BY <2>2 DEF Kept, Balanced, Maps
      <4>3. CASE p = o
        <5>1. Held(t.focus, p) = Held(u.focus, p) \cup {a}
          BY <2>3, <3>1, <4>3 DEF Held
        <5>2. Cardinality(Held(t.focus, p)) = Cardinality(Held(u.focus, p)) + 1
          BY <4>1, <5>1, FS_AddElement
        <5> QED BY <2>3, <4>2, <4>3, <5>2
      <4>4. CASE p # o
        <5>1. Held(t.focus, p) = Held(u.focus, p)
          BY <2>3, <3>1, <4>4 DEF Held
        <5> QED BY <2>3, <4>2, <4>4, <5>1
      <4> QED BY <4>3, <4>4
    <3> QED BY <3>2, <3>3 DEF Balanced
  <2>7. Disjoint(t)
    <3>1. DOMAIN t.focus = DOMAIN u.focus \cup {a}
      BY <2>3
    <3>2. Compatible(a, a)
      BY DEF Compatible, Overlap
    <3> QED BY <2>2, <2>4, <3>1, <3>2 DEF Kept, Disjoint
  <2>8. t.ptr \in DOMAIN t.focus
    BY <2>3
  <2> QED BY <2>5, <2>6, <2>7, <2>8 DEF Sound, Kept, t
<1> QED BY <1>1, <1>2

\* detach_focus: the attachments it takes from o, and the pointer.
Taken(s, o, a) == {b \in DOMAIN s.focus :
  /\ s.focus[b].object = o
  /\ \/ b = a
     \/ a # None /\ a.level = "category" /\ b.level = "category" /\ Overlaps(b.sel, a.sel)}

LEMMA DetachFields ==
  ASSUME NEW s, Shape(s), NEW o, NEW a
  PROVE  LET t == Detach(s, o, a)
             u == Forget(s, Taken(s, o, a))
         IN  /\ Shape(t) /\ t.dflt = s.dflt /\ t.att = None
             /\ t.focus = u.focus /\ t.told = u.told
             /\ t.ptr = IF Taken(s, o, a) = {} THEN s.ptr ELSE None
<1> DEFINE u == Forget(s, Taken(s, o, a))
<1>1. Shape(u) /\ u.dflt = s.dflt /\ u.ptr = s.ptr
  BY ForgetFields
<1>2. Detach(s, o, a) =
        [u EXCEPT !.ptr = IF Taken(s, o, a) = {} THEN @ ELSE None, !.att = None]
  BY DEF Detach, Taken
<1> HIDE DEF u
<1>3. Detach(s, o, a) =
        [focus |-> u.focus, dflt |-> u.dflt, told |-> u.told,
         ptr |-> IF Taken(s, o, a) = {} THEN u.ptr ELSE None, att |-> None]
  BY <1>1, <1>2 DEF Shape
<1>4. QED BY <1>1, <1>3 DEF Shape, u

LEMMA DetachSound ==
  ASSUME NEW s, Sound(s), NEW o, NEW a
  PROVE  Sound(Detach(s, o, a))
<1> DEFINE t == Detach(s, o, a)
           gone == Taken(s, o, a)
           u == Forget(s, gone)
<1>1. Shape(s) /\ gone \in SUBSET DOMAIN s.focus
  BY DEF Sound, Kept, Maps, Taken
<1>2. Kept(u) /\ u.dflt = s.dflt /\ DOMAIN u.focus = DOMAIN s.focus \ gone
  <2>1. Kept(s)
    BY DEF Sound
  <2>2. Kept(u)
    BY <1>1, <2>1, ForgetKeeps
  <2>3. u.dflt = s.dflt /\ u.focus = [b \in DOMAIN s.focus \ gone |-> s.focus[b]]
    BY <1>1, ForgetFields
  <2> QED BY <2>2, <2>3
<1>3. /\ Shape(t) /\ t.dflt = s.dflt /\ t.focus = u.focus /\ t.told = u.told
      /\ t.ptr = IF gone = {} THEN s.ptr ELSE None
  BY <1>1, DetachFields
<1> HIDE DEF t, u, gone
<1>4. Kept(t)
  BY <1>2, <1>3 DEF Kept, Maps, Balanced, Disjoint
<1>5. t.ptr \in DOMAIN t.focus \cup {None}
  BY <1>2, <1>3 DEF Sound
<1> QED BY <1>4, <1>5 DEF Sound, t

\* A handler reconfigures the focus, or the default for all.
LEMMA ReconfigureSound ==
  ASSUME NEW s, Sound(s), NEW cfg \in SUBSET Flags
  PROVE  Sound(Reconfigure(s, cfg))
<1> DEFINE t == Reconfigure(s, cfg)
<1>1. Shape(s) /\ s.focus \in [DOMAIN s.focus -> Entry]
  BY DEF Sound, Kept, Maps
<1>2. CASE s.ptr = None
  <2>1. t = [focus |-> s.focus, dflt |-> cfg, told |-> s.told, ptr |-> s.ptr, att |-> s.att]
    BY <1>1, <1>2 DEF Reconfigure, Shape
  <2> HIDE DEF t
  <2>2. Shape(t) /\ t.focus = s.focus /\ t.told = s.told /\ t.ptr = s.ptr /\ t.dflt = cfg
    BY <2>1 DEF Shape
  <2> QED BY <2>2 DEF Sound, Kept, Maps, Balanced, Disjoint, t
<1>3. CASE s.ptr # None
  <2> DEFINE f == [s.focus EXCEPT ![s.ptr] = [@ EXCEPT !.config = cfg]]
  <2>0. s.ptr \in DOMAIN s.focus
    BY <1>3 DEF Sound
  <2>1. t = [focus |-> f, dflt |-> s.dflt, told |-> s.told, ptr |-> s.ptr, att |-> s.att]
    <3>1. t = [s EXCEPT !.focus = f]
      BY <1>3 DEF Reconfigure
    <3> QED BY <1>1, <3>1 DEF Shape
  <2>2. f \in [DOMAIN s.focus -> Entry]
        /\ \A b \in DOMAIN s.focus : f[b].object = s.focus[b].object
    BY <1>1, <2>0 DEF Entry
  <2> HIDE DEF t, f
  <2>3. Shape(t) /\ t.focus = f /\ t.told = s.told /\ t.ptr = s.ptr /\ t.dflt = s.dflt
    BY <2>1 DEF Shape
  <2>4. \A o \in Objects : Held(f, o) = Held(s.focus, o)
    BY <2>2 DEF Held
  <2> QED BY <2>2, <2>3, <2>4 DEF Sound, Kept, Maps, Balanced, Disjoint, t
<1> QED BY <1>2, <1>3

\* The refocusing of dispatch_spatial.
LEMMA RefocusSound ==
  ASSUME ev \in Hids, NEW s, Sound(s), NEW o \in Objects \cup {None},
         NEW indexRefused, NEW accept \in BOOLEAN
  PROVE  Sound(Refocus(s, o, indexRefused, accept))
<1> DEFINE kept == Object(s) # None /\
              \/ o = Object(s)
              \/ o # None /\ "transfer" \notin Config(s)
              \/ o = None /\ "deattach" \notin Config(s)
           t == IF Object(s) # None /\ (~kept \/ (o = Object(s) /\ indexRefused))
                THEN Detach(s, Object(s), s.att) ELSE s
           r == Attach(t, o, HidAtt(ev), s.dflt, ev.dev, accept)
<1>1. Sound(Detach(s, Object(s), s.att))
  BY DetachSound
<1>2. Sound(t)
  BY <1>1
<1>3. Refocus(s, o, indexRefused, accept) = IF o # None /\ ~kept THEN r ELSE t
  BY DEF Refocus
<1>4. HidAtt(ev) \in AllAttachments /\ s.dflt \in SUBSET Flags
  BY DEF AllAttachments, Sound, Kept, Maps
<1> HIDE DEF t, kept
<1>5. ASSUME o # None PROVE Sound(r)
  <2>1. o \in Objects
    BY <1>5
  <2> QED BY <1>2, <1>4, <2>1, AttachSound
<1> HIDE DEF r
<1> QED BY <1>2, <1>3, <1>5

\* What a handler requests.
LEMMA RequestedSound ==
  ASSUME Sound(Now), NEW o \in Objects, NEW s \in Requested(o)
  PROVE  Sound(s)
<1>1. \A a \in Demands(ev), cfg \in Configs :
        a \in AllAttachments \cup {None} /\ cfg \in SUBSET Flags
  BY DispatcherAssumption DEF Demands, AllAttachments
<1>2. ASSUME NEW r, Sound(r), NEW a \in Demands(ev), NEW cfg \in Configs,
             NEW dev \in Devices, NEW accept \in BOOLEAN
      PROVE  Sound(Attach(r, o, a, cfg, dev, accept))
  BY <1>1, <1>2, AttachSound
<1>3. Sound(Detach(Now, o, att)) /\ \A a \in Demands(ev) : Sound(Detach(Now, o, a))
  BY DetachSound
<1>4. ASSUME NEW cfg \in Configs PROVE Sound(Reconfigure(Now, cfg))
  <2>1. cfg \in SUBSET Flags
    BY DispatcherAssumption
  <2> QED BY <2>1, ReconfigureSound
<1>5. \/ s = Now
      \/ \E a \in Demands(ev), cfg \in Configs, dev \in Devices, accept \in BOOLEAN :
           \/ s = Attach(Now, o, a, cfg, dev, accept)
           \/ s = Attach(Detach(Now, o, att), o, a, cfg, dev, accept)
      \/ \E a \in Demands(ev) : s = Detach(Now, o, a)
      \/ \E cfg \in Configs : s = Reconfigure(Now, cfg)
  BY DEF Requested
<1> QED BY <1>2, <1>3, <1>4, <1>5
-----------------------------------------------------------------------------
(* The attachments are sound in every state, and an event only comes from a *)
(* device.                                                                   *)
SoundNow ==
  /\ Sound(Now)
  /\ objects \subseteq Objects /\ ev \in Hids \cup {None}
  /\ phase # "idle" => ev \in Hids

LEMMA SoundInit == Init => SoundNow
<1> SUFFICES ASSUME Init PROVE SoundNow
  OBVIOUS
<1>1. DOMAIN focus = {} /\ IsFiniteSet({}) /\ Cardinality({}) = 0
  BY FS_EmptySet DEF Init
<1>2. Now.focus = focus /\ Now.dflt = dflt /\ Now.told = told /\ Now.ptr = ptr
      /\ Now.att = att /\ Shape(Now)
  BY DEF Now, Shape
<1> HIDE DEF Now
<1>3. Maps(Now)
  BY <1>1, <1>2 DEF Init, Maps, InitialConfig
<1>4. Balanced(Now)
  <2>1. \A o \in Objects : Held(focus, o) = {} /\ told[o] = 0
    BY <1>1 DEF Held, Init
  <2> QED BY <1>1, <1>2, <2>1 DEF Balanced
<1> QED BY <1>1, <1>2, <1>3, <1>4 DEF SoundNow, Sound, Kept, Disjoint, Init

\* A step whose attachments are those of a sound value is sound.
LEMMA SoundStep ==
  ASSUME NEW s, Kept(s), focus' = s.focus, dflt' = s.dflt, told' = s.told,
         ptr' \in DOMAIN focus' \cup {None}
  PROVE  Sound(Now)'
<1>1. Now' = [focus |-> focus', dflt |-> dflt', told |-> told', ptr |-> ptr', att |-> att']
  BY DEF Now
<1> DEFINE n == Now'
<1>2. n.focus = focus' /\ n.dflt = dflt' /\ n.told = told' /\ n.ptr = ptr' /\ Shape(n)
  BY <1>1 DEF Shape
<1> HIDE DEF n
<1>3. Sound(n)
  BY <1>2 DEF Sound, Kept, Maps, Balanced, Disjoint
<1> QED BY <1>3 DEF n, Sound, Kept, Maps, Shape, Balanced, Disjoint, Compatible, Overlap,
          Held

LEMMA BecomeSound ==
  ASSUME NEW s, Sound(s), Become(s)
  PROVE  Sound(Now)'
BY SoundStep DEF Sound, Become

\* The object in focus is an object.
LEMMA ObjectInFocus ==
  ASSUME NEW s, Sound(s)
  PROVE  Object(s) \in Objects \cup {None}
BY DEF Sound, Kept, Maps, Object, Entry

LEMMA SoundNext == SoundNow /\ [Next]_vars => SoundNow'
<1> SUFFICES ASSUME SoundNow, [Next]_vars PROVE SoundNow'
  OBVIOUS
<1> USE DEF SoundNow
<1>0. /\ Kept(Now) /\ Now.focus = focus /\ Now.dflt = dflt /\ Now.told = told
      /\ Now.ptr = ptr /\ ptr \in DOMAIN focus \cup {None}
  BY DEF Sound, Now
<1>a. ASSUME UNCHANGED <<focus, dflt, told, ptr>> PROVE Sound(Now)'
  BY <1>0, <1>a, SoundStep
<1>b. ASSUME NEW s, Sound(s), Handled(s) PROVE Sound(Now)'
  BY <1>b, SoundStep DEF Handled, Return, Sound
<1>1. ASSUME NEW r \in Objects, AddObject(r) \/ RemoveObject(r) PROVE SoundNow'
  BY <1>a, <1>1 DEF AddObject, RemoveObject
<1>2. ASSUME NEW o \in Objects, NEW a \in Attachments, NEW cfg \in Configs,
             DragEnd(o, a, cfg)
      PROVE  SoundNow'
  <2>1. CASE a.level = "category"
    BY <1>a, <1>2, <2>1 DEF DragEnd
  <2>2. CASE a.level # "category"
    <3> DEFINE s == [focus |-> focus, dflt |-> dflt, told |-> told, ptr |-> a, att |-> att]
               t == Reconfigure(s, cfg)
    <3>1. s.focus = focus /\ s.dflt = dflt /\ s.told = told /\ s.ptr = a /\ Shape(s)
      BY DEF Shape
    <3>2. a \in DOMAIN focus /\ a # None /\ cfg \in SUBSET Flags
      BY <1>2, DispatcherAssumption DEF DragEnd
    <3>3. t.focus = [focus EXCEPT ![a].config = cfg] /\ t.dflt = dflt /\ t.told = told
      BY <3>1, <3>2 DEF Reconfigure
    <3> HIDE DEF s, t
    <3>4. Sound(s)
      BY <1>0, <3>1, <3>2 DEF Sound, Kept, Maps, Balanced, Disjoint
    <3>5. Sound(t)
      BY <3>2, <3>4, ReconfigureSound DEF t
    <3>6. focus' = t.focus /\ dflt' = t.dflt /\ told' = t.told /\ ptr' = ptr
      BY <1>2, <2>2, <3>3 DEF DragEnd
    <3>7. DOMAIN t.focus = DOMAIN focus
      BY <3>3
    <3>8. Sound(Now)'
      BY <1>0, <3>5, <3>6, <3>7, SoundStep DEF Sound
    <3> QED BY <1>2, <3>8 DEF DragEnd
  <2> QED BY <2>1, <2>2
<1>3. ASSUME NEW h \in Hids, Dispatch(h) PROVE SoundNow'
  <2>1. ptr' \in DOMAIN focus' \cup {None} /\ UNCHANGED <<objects, focus, dflt, told>> /\ ev' = h
    BY <1>3 DEF Dispatch, Lookup, attached
  <2>2. Sound(Now)'
    BY <1>0, <2>1, SoundStep
  <2> QED BY <2>1, <2>2
<1>4. ASSUME Grab PROVE SoundNow'
  <2>1. ASSUME NEW o \in Objects, NEW a \in Demands(ev), NEW cfg \in Configs,
               NEW dev \in Devices, NEW accept \in BOOLEAN
        PROVE  Sound(Attach(Now, o, a, cfg, dev, accept))
    <3>1. a \in AllAttachments \cup {None} /\ cfg \in SUBSET Flags
      BY DispatcherAssumption DEF Demands, AllAttachments
    <3> QED BY <3>1, AttachSound
  <2>2. \E s : Sound(s) /\ Become(s)
    BY <1>4, <2>1 DEF Grab
  <2>3. Sound(Now)'
    BY <2>2, BecomeSound
  <2> QED BY <1>4, <2>3 DEF Grab
<1>5. ASSUME NoAnalysis PROVE SoundNow'
  BY <1>a, <1>5 DEF NoAnalysis, attached
<1>6. ASSUME Analysis PROVE SoundNow'
  <2>1. ev \in Hids
    BY <1>6 DEF Analysis
  <2>2. Hits \subseteq Objects \cup {None}
    BY ObjectInFocus DEF Hits
  <2>3. ASSUME NEW o \in Hits, NEW refused, NEW accept \in BOOLEAN
        PROVE  Sound(Refocus(Now, o, refused, accept))
    BY <2>1, <2>2, RefocusSound
  <2>4. \E s : Sound(s) /\ Become(s)
    <3>1. CASE "respatial" \notin Config(Now)
      BY <1>6, <3>1 DEF Analysis
    <3>2. CASE "respatial" \in Config(Now)
      BY <1>6, <2>3, <3>2 DEF Analysis
    <3> QED BY <3>1, <3>2
  <2>5. Sound(Now)'
    BY <2>4, BecomeSound
  <2> QED BY <1>6, <2>5 DEF Analysis
<1>7. ASSUME HandFocus PROVE SoundNow'
  <2>1. Object(Now) \in Objects
    BY <1>7, ObjectInFocus DEF HandFocus
  <2>2. PICK s \in Requested(Object(Now)) : Handled(s) \/ Declined(Object(Now), s)
    BY <1>7 DEF HandFocus
  <2>3. Sound(s)
    BY <2>1, RequestedSound
  <2>4. CASE Handled(s)
    BY <1>b, <2>3, <2>4 DEF Handled, Return
  <2>5. CASE Declined(Object(Now), s)
    BY <1>7, <2>3, <2>5, BecomeSound DEF Declined, HandFocus
  <2> QED BY <2>2, <2>4, <2>5
<1>8. ASSUME NoFocus PROVE SoundNow'
  BY <1>a, <1>8 DEF NoFocus, attached
<1>9. ASSUME Visit PROVE SoundNow'
  <2>1. PICK o \in Objects :
          \/ UNCHANGED <<attached, phase, ev, ptr>>
          \/ \E s \in Requested(o) : Handled(s) \/ (Declined(o, s) /\ UNCHANGED phase)
    BY <1>9, Zenon DEF Visit
  <2>2. CASE UNCHANGED <<attached, phase, ev, ptr>>
    BY <1>a, <2>2 DEF attached
  <2>3. ASSUME NEW s \in Requested(o), Handled(s) PROVE SoundNow'
    BY <1>b, <2>3, RequestedSound DEF Handled, Return
  <2>4. ASSUME NEW s \in Requested(o), Declined(o, s), UNCHANGED phase PROVE SoundNow'
    BY <2>4, RequestedSound, BecomeSound DEF Declined
  <2> QED BY <2>1, <2>2, <2>3, <2>4
<1>10. ASSUME Structural PROVE SoundNow'
  BY <1>a, <1>10 DEF Structural, attached
<1>11. ASSUME Unhandled PROVE SoundNow'
  <2>1. Sound(Now)'
    BY <1>0, <1>11, SoundStep DEF Unhandled, Return
  <2> QED BY <1>11, <2>1 DEF Unhandled, Return
<1>12. ASSUME UNCHANGED vars PROVE SoundNow'
  BY <1>a, <1>12 DEF vars, attached
<1> QED BY <1>1, <1>2, <1>3, <1>4, <1>5, <1>6, <1>7, <1>8, <1>9, <1>10, <1>11, <1>12
       DEF Next
-----------------------------------------------------------------------------
LEMMA SoundAlways == Spec => []SoundNow
<1>1. QED BY SoundInit, SoundNext, PTL DEF Spec

\* What SoundNow says of the variables.
LEMMA SoundFacts ==
  ASSUME SoundNow
  PROVE  FocusTypes /\ LevelsDisjoint /\ ToldBalanced
<1>1. /\ Now.focus = focus /\ Now.dflt = dflt /\ Now.told = told /\ Now.ptr = ptr
  BY DEF Now
<1>2. FocusTypes
  BY <1>1 DEF SoundNow, Sound, Kept, Maps, AllAttachments, Entry, FocusTypes
<1>3. LevelsDisjoint
  BY <1>1 DEF SoundNow, Sound, Kept, Disjoint, Compatible, LevelsDisjoint
<1>4. ToldBalanced
  BY <1>1 DEF SoundNow, Sound, Kept, Balanced, Held, ToldBalanced
<1> QED BY <1>2, <1>3, <1>4

(* Whatever objects demand and devices there are, only the overlaps listed in *)
(* LevelsDisjoint come about.                                                  *)
THEOREM LevelsAlwaysDisjoint == Spec => []LevelsDisjoint
<1>1. SoundNow => LevelsDisjoint
  BY SoundFacts
<1> QED BY <1>1, SoundAlways, PTL

(* Every holder has been told of all that it holds and of all it has lost. *)
THEOREM AlwaysToldBalanced == Spec => []ToldBalanced
<1>1. SoundNow => ToldBalanced
  BY SoundFacts
<1> QED BY <1>1, SoundAlways, PTL
-----------------------------------------------------------------------------
\* An attachment covering the hid of the event alone, but for the attachments
\* of categories, is the one rfi points to.
Found == \A a \in DOMAIN focus : Sole(a, ev) /\ a.level # "category" => ptr = a

(* What dispatch knows of the focus between the lookup and the first handler:  *)
(* what it looked up, an attachment for the event if any, no attachments that  *)
(* clash unless clash says so.                                                 *)
FocusInv ==
  /\ SoundNow
  /\ phase = "grab" => ptr = Lookup(ev) /\ att = Lookup(ev)
  /\ phase = "spatial" => /\ att = None \/ Covers(att, ev)
                          /\ ~clash => ~Clashing(focus)
  /\ phase \in {"spatial", "hit", "focus"} /\ ~clash => Found

\* What lookup finds covers the hid, and it finds what does so alone.
LEMMA LookupFinds ==
  ASSUME SoundNow, ev \in Hids
  PROVE  /\ Lookup(ev) = None \/ Covers(Lookup(ev), ev)
         /\ \A a \in DOMAIN focus : Sole(a, ev) /\ a.level # "category" => Lookup(ev) = a
<1>1. Covers(AllAtt, ev) /\ Covers(KitAtt(ev), ev) /\ Covers(HidAtt(ev), ev)
  BY DEF Covers, AllAtt, KitAtt, HidAtt
<1>2. ASSUME NEW a \in DOMAIN focus, Sole(a, ev), a.level # "category"
      PROVE  a \in {AllAtt, KitAtt(ev), HidAtt(ev)}
             /\ \A b \in DOMAIN focus : Covers(b, ev) => b = a
  <2>1. Covers(a, ev) /\ \A b \in DOMAIN focus : Covers(b, ev) => b = a
    BY <1>2 DEF Sole
  <2>2. a \in AllAttachments
    BY DEF SoundNow, Sound, Kept, Maps, Now
  <2> QED BY <1>2, <2>1, <2>2, Kinds DEF Covers
<1> QED BY <1>1, <1>2 DEF Lookup

LEMMA FoundByGrab ==
  ASSUME SoundNow, phase = "grab", ptr = Lookup(ev), att = Lookup(ev), Grab
  PROVE  Found' /\ (att' = None \/ Covers(att', ev'))
<1>0. ev \in Hids /\ ev' = ev
  BY DEF SoundNow, Grab
<1>1. CASE Become(Now)
  <2>1. UNCHANGED <<focus, ptr, att>>
    BY <1>1 DEF Become, Now
  <2>2. Found' <=> Found
    BY <1>0, <2>1 DEF Found, Sole
  <2> QED BY <1>0, <2>1, <2>2, LookupFinds DEF Found
<1>2. CASE \E o \in Objects, a \in Demands(ev), cfg \in Configs, dev \in Devices,
              accept \in BOOLEAN : Become(Attach(Now, o, a, cfg, dev, accept))
  <2> PICK o \in Objects, a \in Demands(ev), cfg \in Configs, dev \in Devices,
           accept \in BOOLEAN : Become(Attach(Now, o, a, cfg, dev, accept))
    BY <1>2
  <2> DEFINE t == Attach(Now, o, a, cfg, dev, accept)
  <2>0. a = None \/ Covers(a, ev)
    BY DEF Demands
  <2>1. CASE a = None \/ ~accept
    <3>1. t.focus = focus /\ t.ptr = ptr /\ t.att = a
      BY <2>1 DEF Attach, Now
    <3>2. focus' = focus /\ ptr' = ptr /\ att' = a
      BY <3>1 DEF Become
    <3>3. Found' <=> Found
      BY <1>0, <3>2 DEF Found, Sole
    <3> QED BY <1>0, <2>0, <3>2, <3>3, LookupFinds DEF Found
  <2>2. CASE a # None /\ accept
    <3>1. a \in DOMAIN t.focus /\ t.ptr = a /\ t.att = a
      BY <2>2 DEF Attach, Forget, Now
    <3>2. a \in DOMAIN focus' /\ ptr' = a /\ att' = a
      BY <3>1 DEF Become
    <3> QED BY <1>0, <2>0, <2>2, <3>2 DEF Found, Sole
  <2> QED BY <2>1, <2>2
<1> QED BY <1>1, <1>2 DEF Grab

\* Losing the focus at the end of the spatial analysis, an object leaves no
\* other attachment for the hid behind.
LEMMA FoundByDetach ==
  ASSUME SoundNow, phase = "spatial", ~Clashing(focus), Found,
         att = None \/ Covers(att, ev), NEW o \in Objects
  PROVE  LET t == Detach(Now, o, att)
         IN  \A a \in DOMAIN t.focus :
               {b \in DOMAIN t.focus : Covers(b, ev)} = {a} /\ a.level # "category"
               => t.ptr = a
<1> DEFINE t == Detach(Now, o, att)
           gone == Taken(Now, o, att)
<1>0. ev \in Hids /\ Shape(Now) /\ Now.focus = focus /\ Now.ptr = ptr
  BY DEF SoundNow, Shape, Now
<1>1. /\ DOMAIN t.focus = DOMAIN focus \ gone
      /\ t.ptr = IF gone = {} THEN ptr ELSE None
  <2>1. t.focus = Forget(Now, gone).focus /\ t.ptr = IF gone = {} THEN ptr ELSE None
    BY <1>0, DetachFields
  <2> HIDE DEF gone
  <2>2. Forget(Now, gone).focus = [b \in DOMAIN Now.focus \ gone |-> Now.focus[b]]
    BY <1>0, ForgetFields
  <2> QED BY <1>0, <2>1, <2>2
<1>2. ASSUME NEW g \in gone, NEW a \in DOMAIN focus \ gone, Covers(a, ev),
             a.level # "category"
      PROVE  FALSE
  <2>1. g \in DOMAIN focus /\ g # a /\ (g = att \/ g.level = "category")
    BY <1>0, <1>2 DEF Taken
  <2>2. CASE g.level = "category"
    BY <1>2, <2>1, <2>2 DEF Clashing
  <2>3. CASE g = att
    <3>1. g \in AllAttachments
      BY <1>0, <2>1 DEF SoundNow, Sound, Kept, Maps
    <3>2. Covers(g, ev)
      BY <2>3, <3>1, Kinds
    <3> QED BY <1>0, <1>2, <2>1, <3>2 DEF Clashing, Overlapping, Overlap
  <2> QED BY <2>1, <2>2, <2>3
<1>3. gone \subseteq DOMAIN focus
  BY <1>0 DEF Taken
<1> HIDE DEF t, gone
<1>4. ASSUME NEW a \in DOMAIN t.focus, {b \in DOMAIN t.focus : Covers(b, ev)} = {a},
             a.level # "category"
      PROVE  t.ptr = a
  <2>1. a \in DOMAIN focus \ gone /\ Covers(a, ev)
    BY <1>1, <1>4
  <2>2. gone = {}
    BY <1>2, <1>4, <2>1
  <2>3. DOMAIN t.focus = DOMAIN focus /\ t.ptr = ptr
    BY <1>1, <2>2
  <2> QED BY <1>4, <2>3 DEF Found, Sole
<1> QED BY <1>4 DEF t

LEMMA FoundByAnalysis ==
  ASSUME SoundNow, phase = "spatial", ~Clashing(focus), Found,
         att = None \/ Covers(att, ev), Analysis
  PROVE  Found'
<1>0. ev \in Hids /\ ev' = ev /\ Now.focus = focus /\ Now.ptr = ptr /\ Now.att = att
  BY DEF SoundNow, Analysis, Now
<1> DEFINE Good(s) == \A a \in DOMAIN s.focus :
              {b \in DOMAIN s.focus : Covers(b, ev)} = {a} /\ a.level # "category"
              => s.ptr = a
<1>1. Good(Now)
  BY <1>0 DEF Found, Sole
<1>2. ASSUME NEW s, Good(s), Become(s) PROVE Found'
  BY <1>0, <1>2 DEF Become, Found, Sole
<1>3. ASSUME NEW s, Shape(s), Good(s), NEW o, NEW cfg, NEW dev, NEW accept \in BOOLEAN
      PROVE  Good(Attach(s, o, HidAtt(ev), cfg, dev, accept))
  <2> DEFINE a == HidAtt(ev)
             t == Attach(s, o, a, cfg, dev, accept)
  <2>0. Covers(a, ev) /\ a # None
    BY <1>0, DispatcherAssumption DEF Covers, HidAtt
  <2>1. CASE ~accept
    <3>1. t.focus = s.focus /\ t.ptr = s.ptr
      BY <1>3, <2>1 DEF Attach, Shape
    <3> QED BY <1>3, <3>1
  <2>2. CASE accept
    <3>1. t.ptr = a /\ a \in DOMAIN t.focus
      BY <1>3, <2>0, <2>2 DEF Attach, Forget, Shape
    <3> QED BY <2>0, <3>1
  <2> QED BY <2>1, <2>2
<1>4. \A o \in Objects : Good(Detach(Now, o, att))
  BY FoundByDetach
<1>5. ASSUME NEW o \in Hits, NEW refused, NEW accept \in BOOLEAN
      PROVE  Good(Refocus(Now, o, refused, accept))
  <2> DEFINE kept == Object(Now) # None /\
              \/ o = Object(Now)
              \/ o # None /\ "transfer" \notin Config(Now)
              \/ o = None /\ "deattach" \notin Config(Now)
             t == IF Object(Now) # None /\ (~kept \/ (o = Object(Now) /\ refused))
                  THEN Detach(Now, Object(Now), att) ELSE Now
             r == Attach(t, o, HidAtt(ev), Now.dflt, ev.dev, accept)
  <2>1. Refocus(Now, o, refused, accept) = IF o # None /\ ~kept THEN r ELSE t
    BY <1>0 DEF Refocus
  <2>2. Object(Now) \in Objects \cup {None}
    BY ObjectInFocus DEF SoundNow
  <2>3. Shape(Now) /\ Shape(Detach(Now, Object(Now), att))
    BY DetachFields DEF SoundNow, Sound, Kept, Maps
  <2>4. Good(t) /\ Shape(t)
    BY <1>1, <1>4, <2>2, <2>3
  <2> HIDE DEF t, kept, Good
  <2>5. Good(r)
    BY <1>3, <2>4
  <2> QED BY <2>1, <2>4, <2>5
<1> HIDE DEF Good
<1>6. \E s : Good(s) /\ Become(s)
  <2>1. CASE "respatial" \notin Config(Now)
    BY <1>1, <2>1 DEF Analysis
  <2>2. CASE "respatial" \in Config(Now)
    BY <1>5, <2>2 DEF Analysis
  <2> QED BY <2>1, <2>2
<1> QED BY <1>2, <1>6

LEMMA FocusInit == Init => FocusInv
BY SoundInit DEF Init, FocusInv

LEMMA FocusNext == FocusInv /\ [Next]_vars => FocusInv'
<1> SUFFICES ASSUME FocusInv, [Next]_vars PROVE FocusInv'
  OBVIOUS
<1>0. SoundNow /\ SoundNow'
  BY SoundNext DEF FocusInv
<1>a. ASSUME phase' \notin {"grab", "spatial", "hit", "focus"} PROVE FocusInv'
  BY <1>0, <1>a DEF FocusInv
<1>1. ASSUME NEW r \in Objects, AddObject(r) \/ RemoveObject(r) PROVE FocusInv'
  BY <1>a, <1>1 DEF AddObject, RemoveObject
<1>2. ASSUME NEW o \in Objects, NEW a \in Attachments, NEW cfg \in Configs,
             DragEnd(o, a, cfg)
      PROVE  FocusInv'
  BY <1>a, <1>2 DEF DragEnd
<1>3. ASSUME NEW h \in Hids, Dispatch(h) PROVE FocusInv'
  <2>1. phase' = "grab" /\ ev' = h /\ ptr' = Lookup(h) /\ att' = Lookup(h) /\ focus' = focus
    BY <1>3 DEF Dispatch, attached
  <2>2. Lookup(ev)' = Lookup(h)
    BY <2>1 DEF Lookup
  <2> QED BY <1>0, <2>1, <2>2 DEF FocusInv
<1>4. ASSUME Grab PROVE FocusInv'
  <2>1. phase' = "spatial" /\ phase = "grab"
    BY <1>4 DEF Grab
  <2>2. Found' /\ (att' = None \/ Covers(att', ev'))
    BY <1>0, <1>4, <2>1, FoundByGrab DEF FocusInv
  <2>3. ~clash' => ~Clashing(focus')
    BY <1>4, Zenon DEF Grab
  <2> QED BY <1>0, <2>1, <2>2, <2>3 DEF FocusInv, Covers, Clashing, Overlapping, Overlap
<1>5. ASSUME NoAnalysis PROVE FocusInv'
  <2>1. phase = "spatial" /\ phase' \in {"focus", "hit"}
    BY <1>5 DEF NoAnalysis
  <2>2. UNCHANGED <<focus, ptr, ev, clash>>
    BY <1>5 DEF NoAnalysis, attached
  <2>3. Found' <=> Found
    BY <2>2 DEF Found, Sole
  <2> QED BY <1>0, <2>1, <2>2, <2>3 DEF FocusInv
<1>6. ASSUME Analysis PROVE FocusInv'
  <2>1. phase = "spatial" /\ phase' \in {"hit", "crashed"} /\ clash' = clash
    BY <1>6 DEF Analysis
  <2>2. ~clash => Found'
    BY <1>0, <1>6, <2>1, FoundByAnalysis DEF FocusInv
  <2> QED BY <1>0, <2>1, <2>2 DEF FocusInv
<1>7. ASSUME HandFocus PROVE FocusInv'
  <2>1. phase' \in {"idle", "structural", "recursive", "crashed"}
    BY <1>7 DEF HandFocus, Handled, Return
  <2> QED BY <1>a, <2>1
<1>8. ASSUME NoFocus PROVE FocusInv'
  BY <1>a, <1>8 DEF NoFocus
<1>9. ASSUME Visit PROVE FocusInv'
  <2>1. phase' \in {"idle", "recursive", "visit"}
    BY <1>9 DEF Visit, Handled, Return
  <2> QED BY <1>a, <2>1
<1>10. ASSUME Structural PROVE FocusInv'
  BY <1>a, <1>10 DEF Structural
<1>11. ASSUME Unhandled PROVE FocusInv'
  BY <1>a, <1>11 DEF Unhandled, Return
<1>12. ASSUME UNCHANGED vars PROVE FocusInv'
  <2>1. UNCHANGED <<focus, phase, ev, ptr, att, clash>>
    BY <1>12 DEF vars, attached
  <2>2. (Found' <=> Found) /\ Lookup(ev)' = Lookup(ev)
    BY <2>1 DEF Found, Sole, Lookup
  <2>3. /\ Covers(att, ev)' <=> Covers(att, ev)
        /\ Clashing(focus)' <=> Clashing(focus)
    BY <2>1 DEF Covers, Clashing, Overlapping, Overlap
  <2> QED BY <1>0, <2>1, <2>2, <2>3 DEF FocusInv
<1> QED BY <1>1, <1>2, <1>3, <1>4, <1>5, <1>6, <1>7, <1>8, <1>9, <1>10, <1>11, <1>12
       DEF Next

LEMMA FocusAlways == Spec => []FocusInv
<1>1. QED BY FocusInit, FocusNext, PTL DEF Spec

(* Whatever grabs, refusals and spatial analyses come before: as long as no   *)
(* attachments clash, the holder of the only attachment for the hid is the     *)
(* first to be handed the event.                                               *)
THEOREM FocusComesFirst == Spec => []FocusFirst
<1>1. FocusInv => FocusFirst
  BY DEF FocusInv, FocusFirst, Found
<1> QED BY <1>1, FocusAlways, PTL

(* The spatial step of an event takes no attachment away from an object that   *)
(* is not to be refocused, for example during a drag, and goes on to it, unless *)
(* there is nothing to check for the device, which ends the program.           *)
THEOREM DragIsKept == Spec => DragKept
<1> DEFINE Keeps == phase = "spatial" /\ ~clash =>
       \A a \in DOMAIN focus :
          Sole(a, ev) /\ a.level # "category" /\ "respatial" \notin focus[a].config
          => /\ a \in DOMAIN focus' /\ focus'[a] = focus[a]
             /\ Checks(ev, focus[a].config) # {} =>
                  ptr' = a /\ phase' \in {"focus", "hit"}
<1>1. FocusInv /\ [Next]_vars => [Keeps]_vars
  <2> SUFFICES ASSUME FocusInv, Next, phase = "spatial", ~clash,
                      NEW a \in DOMAIN focus, Sole(a, ev), a.level # "category",
                      "respatial" \notin focus[a].config
               PROVE  /\ a \in DOMAIN focus' /\ focus'[a] = focus[a]
                      /\ Checks(ev, focus[a].config) # {} =>
                           ptr' = a /\ phase' \in {"focus", "hit"}
    BY Zenon
  <2>1. ptr = a /\ a # None
    <3>1. a \in AllAttachments
      BY DEF FocusInv, SoundNow, Sound, Kept, Maps, Now
    <3> QED BY <3>1, Kinds DEF FocusInv, Found
  <2>2. Config(Now) = focus[a].config
    BY <2>1 DEF Config, Now
  <2>3. NoAnalysis \/ Analysis
    BY DEF Next, AddObject, RemoveObject, DragEnd, Dispatch, Grab, HandFocus, NoFocus,
           Visit, Structural, Unhandled
  <2>4. CASE NoAnalysis
    BY <2>1, <2>4 DEF NoAnalysis, attached
  <2>5. CASE Analysis
    <3>1. Become(Now) /\ phase' = IF Checks(ev, focus[a].config) = {} THEN "crashed" ELSE "hit"
      BY <2>2, <2>5 DEF Analysis
    <3> QED BY <2>1, <3>1 DEF Become, Now
  <2> QED BY <2>3, <2>4, <2>5
<1> QED BY <1>1, FocusAlways, PTL DEF DragKept, Spec
-----------------------------------------------------------------------------
LEMMA NothingToDo ==
  /\ << >> \in Seq(Objects) /\ Range(<< >>) = {} /\ IsInjective(<< >>)
  /\ \A x, y : Before(<< >>, x, y)
BY EmptyKeeps

\* What the sequence of objects to visit is made of.
LEMMA OrderKept ==
  /\ Order \in Seq(Objects) /\ IsInjective(Order)
  /\ \A o \in Objects : \A d \in Below[o] :
       d \in Objects /\ Root[d] = Root[o] /\ Before(Order, o, d)
<1>1. Order \in Seq(Objects) /\ IsInjective(Order) /\ Range(Order) = Objects
  BY DispatcherAssumption
<1>2. ASSUME NEW o \in Objects, NEW d \in Below[o]
      PROVE  d \in Objects /\ Root[d] = Root[o] /\ Before(Order, o, d)
  <2>1. d \in Objects
    BY DispatcherAssumption
  <2>2. PICK i \in DOMAIN Order, j \in DOMAIN Order : Order[i] = o /\ Order[j] = d
    BY <1>1, <2>1 DEF Range
  <2>3. i < j /\ Root[d] = Root[o]
    BY <2>2, DispatcherAssumption
  <2>4. \A k \in DOMAIN Order : Order[k] = d => k = j
    BY <1>1, <2>2 DEF IsInjective
  <2>5. i \in 1 .. j - 1
    BY <1>1, <2>3
  <2> QED BY <2>1, <2>2, <2>3, <2>4, <2>5 DEF Before
<1> QED BY <1>1, <1>2

LEMMA TreesKept ==
  ASSUME NEW roots
  PROVE  /\ Trees(roots) \in Seq(Objects) /\ IsInjective(Trees(roots))
         /\ Range(Trees(roots)) = {o \in Objects : Root[o] \in roots}
         /\ \A o \in Objects : \A d \in Below[o] : Before(Trees(roots), o, d)
<1> DEFINE S == {o \in Objects : Root[o] \in roots}
<1>1. /\ Trees(roots) \in Seq(Objects) /\ IsInjective(Trees(roots))
      /\ Range(Trees(roots)) = Range(Order) \cap S
      /\ \A x \in S : \A y : Before(Order, x, y) => Before(Trees(roots), x, y)
  BY OrderKept, OnlyKeeps DEF Trees
<1>2. Range(Trees(roots)) = S
  BY <1>1, DispatcherAssumption
<1>3. ASSUME NEW o \in Objects, NEW d \in Below[o] PROVE Before(Trees(roots), o, d)
  <2>1. CASE o \in S
    BY <1>1, <2>1, OrderKept
  <2>2. CASE o \notin S
    <3>1. d \notin Range(Trees(roots))
      BY <1>2, <2>2, OrderKept
    <3> QED BY <3>1 DEF Before, Range
  <2> QED BY <2>1, <2>2
<1> QED BY <1>1, <1>2, <1>3
-----------------------------------------------------------------------------
Offering == phase \in {"recursive", "structural", "visit"}

\* The descendants of the object in focus, if they are not visited again.
Left == IF Object(Now) # None /\ "recursive" \in Config(Now) THEN Below[Object(Now)] ELSE {}

(* What has been handed the event and what is still to be: *)
(* while the children of the object in focus are visited these are all that is *)
(* to do, and new to the event; all that was handed it before the hierarchies   *)
(* are visited is met again there, the object in focus before its children; and *)
(* every object listed has been handed the event or has yet to be visited.      *)
OfferInv ==
  /\ SoundNow /\ TypeOK
  /\ IsInjective(todo) /\ IsInjective(handed)
  /\ ~Offering => handed = << >>
  /\ Offering /\ ~moved =>
       /\ Object(Now) # None => Object(Now) \in Range(handed)
       /\ phase = "recursive" => Range(todo) \subseteq Left \ Range(handed)
       /\ phase # "visit" => Range(handed) \subseteq Left \cup {Object(Now)}
       /\ phase = "visit" =>
            /\ Range(todo) \cap Range(handed) \subseteq Left \cup {Object(Now)}
            /\ \A o \in Left : Before(todo, Object(Now), o)
            /\ \A o \in Objects : Root[o] \in objects =>
                 o \in Range(todo) \cup Range(handed) \cup Left

LEMMA OfferInit == Init => OfferInv
<1> SUFFICES ASSUME Init PROVE OfferInv
  OBVIOUS
<1>1. SoundNow /\ FocusTypes
  BY SoundInit, SoundFacts
<1>2. TypeOK
  BY <1>1, NothingToDo DEF Init, TypeOK
<1> QED BY <1>1, <1>2, NothingToDo DEF Init, OfferInv, Offering

\* Types of the variables dispatch keeps beside the focus.
DispatchTypes ==
  /\ disInfo \in [Hids -> {"unset", "nohit", "hit"}]
  /\ phase \in {"idle", "grab", "spatial", "hit", "focus", "recursive", "structural",
                "visit", "crashed"}
  /\ mode \in {"nohit", "hit"}
  /\ moved \in BOOLEAN /\ clash \in BOOLEAN

LEMMA DispatchTypesNext ==
  ASSUME SoundNow, DispatchTypes, [Next]_vars
  PROVE  DispatchTypes'
<1> USE DEF DispatchTypes
<1>0. Return(mode) \/ Return("nohit") => DispatchTypes'
  BY DEF Return
<1>h. ASSUME NEW s, Handled(s) PROVE DispatchTypes'
  BY <1>0, <1>h DEF Handled
<1>d. ASSUME NEW o, NEW s, Declined(o, s) PROVE
        moved' \in BOOLEAN /\ UNCHANGED <<disInfo, mode, clash>>
  <2>1. moved' \in BOOLEAN
    BY <1>d, Zenon DEF Declined
  <2> QED BY <1>d, <2>1 DEF Declined
<1>1. ASSUME NEW r \in Objects, AddObject(r) \/ RemoveObject(r) PROVE DispatchTypes'
  BY <1>1 DEF AddObject, RemoveObject
<1>2. ASSUME NEW o \in Objects, NEW a \in Attachments, NEW cfg \in Configs,
             DragEnd(o, a, cfg)
      PROVE  DispatchTypes'
  BY <1>2 DEF DragEnd
<1>3. ASSUME NEW h \in Hids, Dispatch(h) PROVE DispatchTypes'
  BY <1>3 DEF Dispatch, attached
<1>4. ASSUME Grab PROVE DispatchTypes'
  <2>1. clash' \in BOOLEAN
    BY <1>4, Zenon DEF Grab
  <2>2. phase' = "spatial" /\ UNCHANGED <<disInfo, mode, moved>>
    BY <1>4 DEF Grab
  <2> QED BY <2>1, <2>2
<1>5. ASSUME NoAnalysis PROVE DispatchTypes'
  <2>1. ev \in Hids
    BY <1>5 DEF SoundNow, NoAnalysis
  <2> QED BY <1>5, <2>1 DEF NoAnalysis, attached
<1>6. ASSUME Analysis PROVE DispatchTypes'
  BY <1>6 DEF Analysis
<1>7. ASSUME HandFocus PROVE DispatchTypes'
  <2>1. PICK s : \/ Handled(s)
                 \/ /\ Declined(Object(Now), s)
                    /\ phase' \in {"structural", "recursive", "crashed"}
    BY <1>7 DEF HandFocus
  <2> QED BY <1>h, <1>d, <2>1
<1>8. ASSUME NoFocus PROVE DispatchTypes'
  BY <1>8 DEF NoFocus, attached
<1>9. ASSUME Visit PROVE DispatchTypes'
  <2>1. \/ UNCHANGED <<attached, phase, mode, moved, clash>>
        \/ \E o, s : Handled(s) \/ (Declined(o, s) /\ UNCHANGED phase)
    BY <1>9, Zenon DEF Visit
  <2> QED BY <1>h, <1>d, <2>1 DEF attached
<1>10. ASSUME Structural PROVE DispatchTypes'
  BY <1>10 DEF Structural, attached
<1>11. ASSUME Unhandled PROVE DispatchTypes'
  BY <1>0, <1>11 DEF Unhandled
<1>12. ASSUME UNCHANGED vars PROVE DispatchTypes'
  BY <1>12 DEF vars, attached
<1> QED BY <1>1, <1>2, <1>3, <1>4, <1>5, <1>6, <1>7, <1>8, <1>9, <1>10, <1>11, <1>12
       DEF Next

\* The types of the focus hold after a step that keeps it sound.
LEMMA TypesOfSound == SoundNow => FocusTypes
<1>1. QED BY SoundFacts

LEMMA TypesOfSoundNext == SoundNow' => FocusTypes'
<1>1. QED BY TypesOfSound, PTL

\* A step after which nothing has been handed on, or everything is over.
LEMMA OfferQuiet ==
  ASSUME OfferInv, SoundNow', DispatchTypes', ~Offering', handed' = << >>,
         todo' \in {todo, << >>}
  PROVE  OfferInv'
<1>1. FocusTypes'
  BY TypesOfSoundNext
<1>2. todo' \in Seq(Objects) /\ handed' \in Seq(Objects)
      /\ IsInjective(todo') /\ IsInjective(handed')
  BY NothingToDo DEF OfferInv, TypeOK
<1>3. TypeOK'
  BY <1>1, <1>2 DEF TypeOK, DispatchTypes
<1> QED BY <1>2, <1>3 DEF OfferInv

\* A request that does not move the focus leaves who has it, and how.
LEMMA FocusStays ==
  ASSUME UNCHANGED <<focus, dflt, ptr>>
  PROVE  /\ Object(Now)' = Object(Now) /\ Config(Now)' = Config(Now) /\ Left' = Left
<1>1. Object(Now)' = Object(Now) /\ Config(Now)' = Config(Now)
  BY DEF Object, Config, Now
<1> QED BY <1>1 DEF Left

LEMMA LeftAreObjects ==
  ASSUME SoundNow
  PROVE  Left \subseteq Objects /\ Object(Now) \in Objects \cup {None} /\ None \notin Objects
BY ObjectInFocus, DispatcherAssumption DEF Left, SoundNow

\* An object in a sequence is not before itself: nothing is its own descendant.
LEMMA BeforeItself ==
  ASSUME NEW o \in Objects
  PROVE  o \notin Below[o]
<1> SUFFICES ASSUME o \in Below[o] PROVE FALSE
  OBVIOUS
<1>1. PICK i \in DOMAIN Order : Order[i] = o
  BY DispatcherAssumption DEF Range
<1>2. i < i /\ i \in Int
  BY <1>1, DispatcherAssumption
<1> QED BY <1>2

LEMMA OfferFocus ==
  ASSUME OfferInv, SoundNow', DispatchTypes', HandFocus
  PROVE  OfferInv'
<1>0. handed = << >> /\ Object(Now) \in Objects
  BY ObjectInFocus DEF OfferInv, Offering, HandFocus, SoundNow
<1> PICK s \in Requested(Object(Now)) :
      \/ Handled(s)
      \/ /\ Declined(Object(Now), s)
         /\ phase' = IF phase = "hit" THEN "structural"
                     ELSE IF "recursive" \in Config(s) /\ Object(s) = None
                     THEN "crashed" ELSE "recursive"
         /\ todo' = IF phase = "focus" /\ "recursive" \in Config(s) /\ Object(s) # None
                    THEN Only(Order, Below[Object(s)]) ELSE << >>
  BY DEF HandFocus
<1>1. CASE Handled(s)
  BY <1>1, OfferQuiet DEF Handled, Return, Offering
<1>2. CASE ~Handled(s)
  <2>0. /\ Declined(Object(Now), s)
        /\ phase' = IF phase = "hit" THEN "structural"
                    ELSE IF "recursive" \in Config(s) /\ Object(s) = None
                    THEN "crashed" ELSE "recursive"
        /\ todo' = IF phase = "focus" /\ "recursive" \in Config(s) /\ Object(s) # None
                   THEN Only(Order, Below[Object(s)]) ELSE << >>
    BY <1>2
  <2>1. todo' \in Seq(Objects) /\ IsInjective(todo')
    BY <2>0, NothingToDo, OnlyKeeps, OrderKept
  <2>2. handed' \in {<< >>, Append(<< >>, Object(Now))}
    BY <1>0, <2>0 DEF Declined
  <2>3. /\ << >> \in Seq(Objects)
        /\ Append(<< >>, Object(Now)) \in Seq(Objects)
        /\ IsInjective(Append(<< >>, Object(Now)))
        /\ Range(Append(<< >>, Object(Now))) = {Object(Now)}
    <3> DEFINE e == << >>  F == Object(Now)
    <3>1. e \in Seq(Objects) /\ IsInjective(e) /\ Range(e) = {} /\ F \in Objects
      BY <1>0, NothingToDo
    <3> HIDE DEF e, F
    <3>2. /\ Append(e, F) \in Seq(Objects) /\ IsInjective(Append(e, F))
          /\ Range(Append(e, F)) = Range(e) \cup {F}
      BY <3>1, AppendKeeps
    <3> QED BY <3>1, <3>2 DEF e, F
  <2>4. handed' \in Seq(Objects) /\ IsInjective(handed')
    BY <2>2, <2>3, NothingToDo
  <2>5. TypeOK'
    BY <2>1, <2>4, TypesOfSoundNext DEF TypeOK, DispatchTypes
  <2>6. ASSUME ~moved'
        PROVE  /\ Object(Now)' \in Range(handed)'
               /\ Range(handed)' \subseteq Left' \cup {Object(Now)'}
               /\ phase' = "recursive" => Range(todo)' \subseteq Left' \ Range(handed)'
    <3>1. focus' = s.focus /\ dflt' = s.dflt /\ ptr' = s.ptr
          /\ s.focus = focus /\ s.dflt = dflt /\ s.ptr = ptr
      BY <2>0, <2>6 DEF Declined, Become
    <3>2. Object(Now)' = Object(Now) /\ Config(Now)' = Config(Now) /\ Left' = Left
      BY <3>1, FocusStays
    <3>3. Object(s) = Object(Now) /\ Config(s) = Config(Now)
      BY <3>1 DEF Object, Config, Now
    <3>4. Range(handed') = {Object(Now)}
      BY <2>0, <2>3, <2>6, <1>0 DEF Declined
    <3>5. Object(Now) \notin Left
      BY <1>0, OrderKept, BeforeItself DEF Left
    <3>6. Range(todo') \subseteq Left
      BY <2>0, <3>3, OrderKept, OnlyKeeps, NothingToDo DEF Left
    <3> QED BY <3>2, <3>4, <3>5, <3>6
  <2>7. phase' # "visit" /\ (phase' # "crashed" => Offering')
    BY <2>0 DEF Offering
  <2>8. phase' = "crashed" => handed' = << >> /\ ~Offering'
    <3>1. ASSUME phase' = "crashed" PROVE moved'
      <4>1. Object(s) = None /\ Object(Now) # None
        BY <1>0, <2>0, <3>1, DispatcherAssumption
      <4>2. s.focus # focus \/ s.dflt # dflt \/ s.ptr # ptr
        BY <4>1 DEF Object, Now
      <4> QED BY <2>0, <4>2 DEF Declined
    <3> QED BY <2>0, <3>1 DEF Declined, Offering
  <2> QED BY <2>1, <2>4, <2>5, <2>6, <2>7, <2>8 DEF OfferInv
<1> QED BY <1>1, <1>2

LEMMA OfferNoFocus ==
  ASSUME OfferInv, SoundNow', DispatchTypes', NoFocus
  PROVE  OfferInv'
<1>1. /\ UNCHANGED <<focus, dflt, ptr, handed, todo>> /\ phase' = "structural"
      /\ Object(Now) = None /\ handed = << >>
  BY DEF NoFocus, attached, OfferInv, Offering
<1>2. TypeOK'
  BY <1>1, TypesOfSoundNext DEF OfferInv, TypeOK, DispatchTypes
<1>3. Object(Now)' = None /\ Range(handed') = {}
  BY <1>1, FocusStays, NothingToDo
<1> QED BY <1>1, <1>2, <1>3, NothingToDo DEF OfferInv, Offering

LEMMA OfferVisit ==
  ASSUME OfferInv, SoundNow', DispatchTypes', Visit
  PROVE  OfferInv'
<1>0. /\ Offering /\ todo \in Seq(Objects) /\ todo # << >> /\ handed \in Seq(Objects)
      /\ phase # "structural"
  BY DEF OfferInv, TypeOK, Offering, Visit
<1> DEFINE F == Object(Now)  o == Head(todo)
<1>1. /\ o \in Objects /\ o \in Range(todo) /\ Tail(todo) \in Seq(Objects)
      /\ Range(todo) = Range(Tail(todo)) \cup {o}
      /\ IsInjective(Tail(todo)) /\ o \notin Range(Tail(todo))
      /\ \A x, y : Before(todo, x, y) => o # y /\ (o # x => Before(Tail(todo), x, y))
  BY <1>0, TailKeeps DEF OfferInv
<1> HIDE DEF o
<1>2. CASE o = F
  <2> DEFINE rest == Only(Tail(todo), Objects \ Below[o])
  <2>1. /\ todo' = IF "recursive" \in Config(Now) THEN rest ELSE Tail(todo)
        /\ UNCHANGED <<focus, dflt, ptr, objects, phase, handed, moved>>
    BY <1>2 DEF Visit, attached, o
  <2>2. /\ rest \in Seq(Objects) /\ IsInjective(rest)
        /\ Range(rest) = Range(Tail(todo)) \ Below[o]
    <3>1. /\ rest \in Seq(Objects) /\ IsInjective(rest)
          /\ Range(rest) = Range(Tail(todo)) \cap (Objects \ Below[o])
      BY <1>1, OnlyKeeps
    <3>2. Range(Tail(todo)) \subseteq Objects
      BY <1>1 DEF Range
    <3> QED BY <3>1, <3>2
  <2> HIDE DEF rest
  <2>3. todo' \in Seq(Objects) /\ IsInjective(todo')
    BY <1>1, <2>1, <2>2
  <2>4. TypeOK'
    BY <2>1, <2>3, TypesOfSoundNext DEF OfferInv, TypeOK, DispatchTypes
  <2>5. F # None /\ Left = IF "recursive" \in Config(Now) THEN Below[o] ELSE {}
    BY <1>1, <1>2, DispatcherAssumption DEF Left
  <2>6. Range(todo') = Range(Tail(todo)) \ Left
    BY <2>1, <2>2, <2>5
  <2>7. /\ F' = F /\ Left' = Left /\ Range(handed)' = Range(handed) /\ Range(todo)' = Range(todo')
        /\ Offering' = Offering
    BY <2>1, FocusStays DEF Offering
  <2>8. \A x \in Left : Before(todo', F, x)
    BY <2>6 DEF Before, Range
  <2>9. ASSUME ~moved PROVE
       /\ F \in Range(handed)
       /\ phase = "recursive" => Range(todo') \subseteq Left \ Range(handed)
       /\ phase # "visit" => Range(handed) \subseteq Left \cup {F}
       /\ phase = "visit" =>
            /\ Range(todo') \cap Range(handed) \subseteq Left \cup {F}
            /\ \A x \in Objects : Root[x] \in objects =>
                 x \in Range(todo') \cup Range(handed) \cup Left
    BY <1>0, <1>1, <1>2, <2>5, <2>6, <2>9 DEF OfferInv
  <2> HIDE DEF F
  <2>10. IsInjective(handed)' /\ (Offering' <=> Offering) /\ (~moved' <=> ~moved)
         /\ Before(todo, F, o)' = Before(todo', F', o') /\ phase' = phase
    BY <2>1, <2>7 DEF OfferInv
  <2>11. (\A x \in Left : Before(todo, Object(Now), x))'
    BY <2>7, <2>8 DEF F
  <2> QED BY <1>0, <2>1, <2>3, <2>4, <2>7, <2>9, <2>10, <2>11 DEF OfferInv, F
<1>3. CASE o # F
  <2>1. PICK s \in Requested(o) :
          Handled(s) \/ (Declined(o, s) /\ todo' = Tail(todo) /\ UNCHANGED phase)
    BY <1>3 DEF Visit, o
  <2>2. CASE Handled(s)
    BY <2>2, OfferQuiet DEF Handled, Return, Offering
  <2>3. CASE ~Handled(s)
    <3>0. Declined(o, s) /\ todo' = Tail(todo) /\ phase' = phase /\ Offering'
      BY <1>0, <2>1, <2>3 DEF Offering
    <3>1. ~moved /\ phase = "visit" => o \notin Left
      BY <1>0, <1>1 DEF OfferInv
    <3>2. ~moved => o \notin Range(handed)
      BY <1>0, <1>1, <1>3, <3>1 DEF OfferInv, Offering
    <3>3. /\ Append(handed, o) \in Seq(Objects)
          /\ Range(Append(handed, o)) = Range(handed) \cup {o}
          /\ ~moved => IsInjective(Append(handed, o))
      BY <1>0, <1>1, <3>2, AppendKeeps DEF OfferInv
    <3>4. /\ moved' => handed' = << >>
          /\ ~moved' => handed' = Append(handed, o)
          /\ ~moved' => ~moved /\ UNCHANGED <<focus, dflt, ptr, objects>>
      BY <3>0 DEF Declined, Become
    <3>5. handed' \in Seq(Objects) /\ IsInjective(handed')
      BY <3>3, <3>4, NothingToDo DEF DispatchTypes
    <3>6. TypeOK'
      BY <1>1, <3>0, <3>5, TypesOfSoundNext DEF TypeOK, DispatchTypes
    <3>7. ASSUME ~moved'
          PROVE  /\ F # None => F \in Range(handed')
                 /\ phase = "recursive" => Range(todo') \subseteq Left \ Range(handed')
                 /\ phase # "visit" => Range(handed') \subseteq Left \cup {F}
                 /\ phase = "visit" =>
                      /\ Range(todo') \cap Range(handed') \subseteq Left \cup {F}
                      /\ \A x \in Left : Before(todo', F, x)
                      /\ \A x \in Objects : Root[x] \in objects =>
                           x \in Range(todo') \cup Range(handed') \cup Left
      <4>0. ~moved /\ Range(handed') = Range(handed) \cup {o} /\ todo' = Tail(todo)
        BY <3>0, <3>3, <3>4, <3>7
      <4>1. phase = "visit" => \A x \in Left : Before(todo', F, x)
        BY <1>0, <1>1, <1>3, <4>0 DEF OfferInv
      <4>2. F # None => F \in Range(handed')
        BY <1>0, <4>0 DEF OfferInv
      <4>3. phase = "recursive" => Range(todo') \subseteq Left \ Range(handed')
        BY <1>0, <1>1, <4>0 DEF OfferInv
      <4>4. phase # "visit" => Range(handed') \subseteq Left \cup {F}
        BY <1>0, <1>1, <4>0 DEF OfferInv, Offering
      <4>5. phase = "visit" =>
              /\ Range(todo') \cap Range(handed') \subseteq Left \cup {F}
              /\ \A x \in Objects : Root[x] \in objects =>
                   x \in Range(todo') \cup Range(handed') \cup Left
        BY <1>0, <1>1, <4>0 DEF OfferInv
      <4> QED BY <4>1, <4>2, <4>3, <4>4, <4>5
    <3>8. ~moved' => Object(Now)' = F /\ Left' = Left /\ objects' = objects
      BY <3>4, FocusStays
    <3> HIDE DEF F
    <3>9. IsInjective(todo') /\ TypeOK' /\ SoundNow'
      BY <1>1, <3>0, <3>6
    <3> QED BY <1>0, <3>0, <3>5, <3>7, <3>8, <3>9 DEF OfferInv
  <2> QED BY <2>2, <2>3
<1> QED BY <1>2, <1>3

LEMMA OfferStructural ==
  ASSUME OfferInv, SoundNow', DispatchTypes', Structural
  PROVE  OfferInv'
<1> DEFINE F == Object(Now)
           first == IF "rootFirst" \notin Config(Now) \/ F = None THEN {} ELSE {Root[F]}
           s == Trees(first)
           t == Trees(objects \ first)
<1>1. /\ UNCHANGED <<focus, dflt, ptr, objects, handed, moved>> /\ phase' = "visit"
      /\ todo' = s \o t /\ Offering /\ phase # "visit"
  BY DEF Structural, attached, Offering
<1>2. /\ s \in Seq(Objects) /\ IsInjective(s)
      /\ Range(s) = {o \in Objects : Root[o] \in first}
      /\ \A o \in Objects : \A d \in Below[o] : Before(s, o, d)
  BY TreesKept
<1>3. /\ t \in Seq(Objects) /\ IsInjective(t)
      /\ Range(t) = {o \in Objects : Root[o] \in objects \ first}
      /\ \A o \in Objects : \A d \in Below[o] : Before(t, o, d)
  BY TreesKept
<1> HIDE DEF s, t, first
<1>4. /\ todo' \in Seq(Objects) /\ IsInjective(todo')
      /\ Range(todo') = Range(s) \cup Range(t)
      /\ \A o \in Objects : \A d \in Below[o] : Before(todo', o, d)
  <2>1. Range(s) \cap Range(t) = {}
    BY <1>2, <1>3
  <2> QED BY <1>1, <1>2, <1>3, <2>1, ConcatKeeps
<1>5. TypeOK'
  BY <1>1, <1>4, TypesOfSoundNext DEF OfferInv, TypeOK, DispatchTypes
<1>6. Object(Now)' = F /\ Left' = Left
  BY <1>1, FocusStays
<1>7. \A d \in Left : Before(todo', F, d)
  BY <1>4, LeftAreObjects DEF Left, OfferInv
<1>8. \A o \in Objects : Root[o] \in objects => o \in Range(todo')
  BY <1>2, <1>3, <1>4
<1> HIDE DEF F
<1>9. ASSUME ~moved PROVE /\ F # None => F \in Range(handed)
                          /\ Range(handed) \subseteq Left \cup {F}
  BY <1>1, <1>9 DEF OfferInv, F
<1> QED BY <1>1, <1>4, <1>5, <1>6, <1>7, <1>8, <1>9 DEF OfferInv, F, Offering

LEMMA OfferNext == OfferInv /\ [Next]_vars => OfferInv'
<1> SUFFICES ASSUME OfferInv, [Next]_vars PROVE OfferInv'
  OBVIOUS
<1>0. SoundNow' /\ DispatchTypes' /\ (~Offering => handed = << >>)
  BY SoundNext, DispatchTypesNext DEF OfferInv, TypeOK, DispatchTypes
<1>a. ASSUME ~Offering, ~Offering', UNCHANGED <<handed, todo>> PROVE OfferInv'
  BY <1>0, <1>a, OfferQuiet
<1>1. ASSUME NEW r \in Objects, AddObject(r) \/ RemoveObject(r) PROVE OfferInv'
  BY <1>a, <1>1 DEF AddObject, RemoveObject, Offering
<1>2. ASSUME NEW o \in Objects, NEW a \in Attachments, NEW cfg \in Configs,
             DragEnd(o, a, cfg)
      PROVE  OfferInv'
  BY <1>a, <1>2 DEF DragEnd, Offering
<1>3. ASSUME NEW h \in Hids, Dispatch(h) PROVE OfferInv'
  BY <1>a, <1>3 DEF Dispatch, Offering
<1>4. ASSUME Grab PROVE OfferInv'
  BY <1>a, <1>4 DEF Grab, Offering
<1>5. ASSUME NoAnalysis PROVE OfferInv'
  BY <1>a, <1>5 DEF NoAnalysis, Offering
<1>6. ASSUME Analysis PROVE OfferInv'
  BY <1>a, <1>6 DEF Analysis, Offering
<1>7. ASSUME HandFocus PROVE OfferInv'
  BY <1>0, <1>7, OfferFocus
<1>8. ASSUME NoFocus PROVE OfferInv'
  BY <1>0, <1>8, OfferNoFocus
<1>9. ASSUME Visit PROVE OfferInv'
  BY <1>0, <1>9, OfferVisit
<1>10. ASSUME Structural PROVE OfferInv'
  BY <1>0, <1>10, OfferStructural
<1>11. ASSUME Unhandled PROVE OfferInv'
  BY <1>0, <1>11, OfferQuiet DEF Unhandled, Return, Offering
<1>12. ASSUME UNCHANGED vars PROVE OfferInv'
  <2>1. UNCHANGED <<focus, dflt, ptr, objects, phase, todo, handed, moved>>
    BY <1>12 DEF vars, attached
  <2>2. Object(Now)' = Object(Now) /\ Left' = Left
    BY <2>1, FocusStays
  <2>3. TypeOK'
    BY <1>0, <2>1, TypesOfSoundNext DEF OfferInv, TypeOK, DispatchTypes
  <2> QED BY <1>0, <2>1, <2>2, <2>3 DEF OfferInv, Offering
<1> QED BY <1>1, <1>2, <1>3, <1>4, <1>5, <1>6, <1>7, <1>8, <1>9, <1>10, <1>11, <1>12
       DEF Next

LEMMA OfferAlways == Spec => []OfferInv
<1>1. QED BY OfferInit, OfferNext, PTL DEF Spec

(* Types of all that the dispatcher keeps, for any objects and devices. *)
THEOREM DispatcherTypeCorrect == Spec => []TypeOK
<1>1. OfferInv => TypeOK
  BY DEF OfferInv
<1> QED BY <1>1, OfferAlways, PTL

(* However the hierarchies lie and the focus is configured: an event is       *)
(* offered once to each object, unless a handler moves the focus or takes it.  *)
THEOREM OfferedToAllOnceAlways == Spec => []OfferedToAllOnce
<1>1. OfferInv => OfferedToAllOnce
  <2> SUFFICES ASSUME OfferInv PROVE OfferedToAllOnce
    OBVIOUS
  <2>1. HandedOnce
    BY DEF OfferInv, HandedOnce
  <2>2. ASSUME phase = "visit", todo = << >>, ~moved, NEW o \in Range(Trees(objects))
        PROVE  \/ o \in Range(handed)
               \/ /\ Object(Now) # None /\ "recursive" \in Config(Now)
                  /\ o \in Below[Object(Now)]
    <3>1. o \in Objects /\ Root[o] \in objects
      BY TreesKept
    <3>2. o \in Range(todo) \cup Range(handed) \cup Left
      BY <2>2, <3>1 DEF OfferInv, Offering
    <3> QED BY <2>2, <3>2, NothingToDo DEF Left
  <2>3. UnhandledReachesAll
    BY <2>2 DEF UnhandledReachesAll
  <2> QED BY <2>1, <2>3 DEF OfferedToAllOnce
<1> QED BY <1>1, OfferAlways, PTL
=============================================================================
