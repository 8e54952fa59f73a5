-------------------------- MODULE FocusDispatcher --------------------------
(***************************************************************************)
(* The dispatcher of libs/cg_nui: it attaches the input focus of objects   *)
(* to input devices (hids) on four levels, and hands every event first to  *)
(* the object in focus and then to the object hierarchies.  One step is    *)
(* one virtual call into an object: its answer is nondeterministic.        *)
(*                                                                         *)
(* Abstracted: what an event means, the geometry of the spatial analysis   *)
(* (its result is any object), event_handler dispatch (off by default and  *)
(* switched on nowhere).  The root kept with an attachment is the root of  *)
(* the tree of its object.  To look for an interface of the null object of *)
(* the default focus (get_interface, a dynamic cast) finds none and does   *)
(* nothing; the null pointers that dispatch does follow end the program    *)
(* (phase "crashed").                                                      *)
(***************************************************************************)
EXTENDS Integers, Sequences, FiniteSets, Functions, Subsequences

CONSTANTS
  Objects,     \* the focusable objects
  Order,       \* all of them, the trees one after the other, each in preorder
  Root,        \* Root[o]: the root of the tree of o
  Below,       \* Below[o]: the descendants of o
  Hids,        \* input devices: records cat, dev, index
  Attachments, \* the attachments objects may demand
  Configs,     \* the configurations they may demand: sets of flags
  None         \* no object, no attachment

Categories == {"keyboard", "mouse", "joystick", "gamepad", "hmd", "controller",
               "tracker"}

Flags == {"deattach", "transfer", "grab", "handle", "respatial",
          "recursive", "structural", "rootFirst", "spatial", "onlyFocus",
          "proximity", "pointing"}

(* focus_configuration as constructed *)
InitialConfig == Flags \ {"onlyFocus"}

KitCategory(c) == CASE c \in {"keyboard", "mouse"} -> "keyboard_mouse"
                    [] c \in {"hmd", "controller", "tracker"} -> "vr"
                    [] OTHER -> "none"

HidCategories(k) == {c \in Categories : k # "none" /\ KitCategory(c) = k}

MinIndex(c) == IF c = "hmd" THEN -1 ELSE 0

MaxIndex(c) == CASE c \in {"keyboard", "gamepad"} -> 1
                 [] c \in {"mouse", "joystick", "controller"} -> 3
                 [] c = "hmd" -> -1
                 [] c = "tracker" -> 7

(* overlaps of two selections: equal flags count, true or not, except for
   keyboard and mouse *)
Overlaps(s, t) ==
  \/ s \cap t \cap {"keyboard", "mouse"} # {}
  \/ \E c \in Categories \ {"keyboard", "mouse"} : c \in s <=> c \in t

Devices == {h.dev : h \in Hids}

HidAtt(h) == [level |-> "hid", hid |-> h]
KitAtt(h) == [level |-> "kit", kit |-> KitCategory(h.cat), dev |-> h.dev]
AllAtt == [level |-> "all"]

(* The trees are traversed in preorder, a kit has a category, and a demand
   names devices that exist. *)
ASSUME DispatcherAssumption ==
  /\ Order \in Seq(Objects) /\ Range(Order) = Objects /\ IsInjective(Order)
  /\ Root \in [Objects -> Objects] /\ Below \in [Objects -> SUBSET Objects]
  /\ \A i, j \in DOMAIN Order : Order[j] \in Below[Order[i]] =>
       i < j /\ Root[Order[j]] = Root[Order[i]]
  /\ Configs \subseteq SUBSET Flags
  /\ \A h \in Hids :
       /\ h = [cat |-> h.cat, dev |-> h.dev, index |-> h.index]
       /\ h.cat \in Categories /\ h.index \in Int
  /\ \A a \in Attachments :
       \/ a = AllAtt
       \/ a.level = "hid" /\ \E h \in Hids : a = HidAtt(h)
       \/ a.level = "kit" /\ \E h \in Hids : KitCategory(h.cat) # "none" /\ a = KitAtt(h)
       \/ a.level = "category" /\ \E sel \in SUBSET Categories :
                                     a = [level |-> "category", sel |-> sel]
  /\ None \notin Objects \cup Attachments \cup Hids \cup {HidAtt(h) : h \in Hids}

VARIABLES
  objects,  \* the roots in the dispatcher's list
  focus,    \* attachment -> object and configuration: the two maps, the list
            \* of category attachments and focus_all_attachment together
  dflt,     \* the configuration of default_focus_info
  disInfo,  \* hid -> dispatch_info kept for it: "unset" at first, "hit" with
            \* the point of a proximity or pointing dispatch, else "nohit"
  told,     \* history: attaches accepted minus detaches announced, per object
  phase,    \* where dispatch is
  ev,       \* the hid of the event being dispatched
  ptr, att, \* rfi.foc_info_ptr and rfi.foc_att
  mode,     \* kind of the dispatch_info of the handle calls being made
  todo,     \* objects still to be visited by dispatch_recursive
  moved,    \* history: a request made while handling it changed the focus
  handed,   \* history: the objects handed this event, in order, until then
  clash     \* history: attachments clashed before or after the grab

attached == <<objects, focus, dflt, disInfo, told>>
vars == <<attached, phase, ev, ptr, att, mode, todo, handed, moved, clash>>

(* The part of the state the focus operations change, as one value. *)
Now == [focus |-> focus, dflt |-> dflt, told |-> told, ptr |-> ptr, att |-> att]

Become(s) == /\ focus' = s.focus /\ dflt' = s.dflt /\ told' = s.told
             /\ ptr' = s.ptr /\ att' = s.att

Object(s) == IF s.ptr = None THEN None ELSE s.focus[s.ptr].object
(* Mutant: configurations are always read from the default focus. *)
ConfigOfDefault(s) == s.dflt

Config(s) == IF s.ptr = None THEN s.dflt ELSE s.focus[s.ptr].config

(* Mutant: a kit attachment survives the attachment of one of its hids. *)
DisplacedKeepsKit(s, a, dev) == {b \in DOMAIN s.focus :
  \/ "all" \in {a.level, b.level} \/ b = a
  \/ a.level = "hid" /\ b.level = "category" /\ a.hid.cat \in b.sel
  \/ a.level = "kit" /\ b.level = "hid" /\ KitAtt(b.hid) = a /\ b.hid.index >= 0
  \/ a.level = "kit" /\ b.level = "category"
  \/ a.level = "category" /\ b.level \in {"kit", "category"}}

(* The attachments attach_focus detaches for a, which was demanded at a hid
   whose kit pointer the category level finds in the union as dev. *)
Displaced(s, a, dev) == {b \in DOMAIN s.focus :
  \/ a.level = "all"
  \/ b.level = "all"
  \/ a.level = "hid" /\
     \/ b = a
     \/ b.level = "kit" /\ KitCategory(a.hid.cat) # "none" /\ b = KitAtt(a.hid)
     \/ b.level = "category" /\ a.hid.cat \in b.sel
  \/ a.level = "kit" /\
     \/ b.level = "hid" /\ b.hid.dev = a.dev /\ b.hid.cat \in HidCategories(a.kit)
        /\ b.hid.index \in MinIndex(b.hid.cat) .. MaxIndex(b.hid.cat)
     \/ b = a
     \/ b.level = "category" /\ b.sel \cap HidCategories(a.kit) # {}
  \/ a.level = "category" /\
     \/ b.level = "hid" /\ b.hid.cat \in a.sel /\ b.hid.dev = dev
        /\ b.hid.index \in MinIndex(b.hid.cat) .. MaxIndex(b.hid.cat) - 1
     \/ b.level = "kit" /\ \E c \in a.sel : KitCategory(c) = b.kit
     \/ b.level = "category" /\ Overlaps(b.sel, a.sel)}

(* Mutant: the holders are not told. *)
ForgetSilently(s, gone) == [s EXCEPT !.focus = Restrict(s.focus, DOMAIN s.focus \ gone)]

(* Every holder in gone is told once per attachment it loses. *)
Forget(s, gone) ==
  [s EXCEPT !.focus = Restrict(s.focus, DOMAIN s.focus \ gone),
            !.told = [o \in Objects |->
               @[o] - Cardinality({b \in gone : s.focus[b].object = o})]]

(* attach_focus: o is asked, and has its way before the others are told *)
Attach(s, o, a, cfg, dev, accept) ==
  IF a = None \/ ~accept THEN [s EXCEPT !.att = a]
  ELSE LET t == Forget(s, Displaced(s, a, dev))
       IN  [t EXCEPT !.focus = [b \in DOMAIN @ \cup {a} |->
                       IF b = a THEN [object |-> o, config |-> cfg] ELSE @[b]],
                     !.told[o] = @ + 1, !.ptr = a, !.att = a]

(* Mutant: rfi.foc_info_ptr keeps pointing to the entry erased. *)
DetachDangling(s, o, a) ==
  IF a \in DOMAIN s.focus /\ s.focus[a].object = o
  THEN [Forget(s, {a}) EXCEPT !.att = None] ELSE [s EXCEPT !.att = None]

(* detach_focus *)
Detach(s, o, a) ==
  LET held == {b \in DOMAIN s.focus :
        /\ s.focus[b].object = o
        /\ \/ b = a
           \/ a # None /\ a.level = "category" /\ b.level = "category"
              /\ Overlaps(b.sel, a.sel)}
  IN  [Forget(s, held) EXCEPT !.ptr = IF held = {} THEN @ ELSE None, !.att = None]

(* The request of a handle call is "reconfigure" *)
Reconfigure(s, cfg) == IF s.ptr = None THEN [s EXCEPT !.dflt = cfg]
                       ELSE [s EXCEPT !.focus[s.ptr].config = cfg]

Covers(a, h) == CASE a.level = "all" -> TRUE
                  [] a.level = "hid" -> a.hid = h
                  [] a.level = "kit" -> a = KitAtt(h)
                  [] a.level = "category" -> h.cat \in a.sel

(* What an object may demand while the event of hid h is dispatched. *)
Demands(h) == {None} \cup {a \in Attachments : Covers(a, h)}

(* Two attachments cover the same hid. *)
Overlap(a, b, h) == a # b /\ Covers(a, h) /\ Covers(b, h)
Overlapping(f) == \E a, b \in DOMAIN f, h \in Hids : Overlap(a, b, h)

(* Two attachments do, or one is for categories and not the only one. *)
Clashing(f) == Overlapping(f) \/ \E a, b \in DOMAIN f : a # b /\ a.level = "category"

Trees(roots) == Only(Order, {o \in Objects : Root[o] \in roots})
-----------------------------------------------------------------------------
FocusTypes ==
  /\ objects \subseteq Objects
  /\ DOMAIN focus \subseteq Attachments \cup {HidAtt(h) : h \in Hids}
  /\ \A a \in DOMAIN focus : focus[a] \in [object : Objects, config : SUBSET Flags]
  /\ dflt \subseteq Flags
  /\ told \in [Objects -> Int]
  /\ ev \in Hids \cup {None} /\ ptr \in DOMAIN focus \cup {None}

TypeOK ==
  /\ FocusTypes
  /\ disInfo \in [Hids -> {"unset", "nohit", "hit"}]
  /\ phase \in {"idle", "grab", "spatial", "hit", "focus", "recursive", "structural",
                "visit", "crashed"}
  /\ mode \in {"nohit", "hit"}
  /\ todo \in Seq(Objects) /\ handed \in Seq(Objects) /\ {moved, clash} \subseteq BOOLEAN

Init ==
  /\ objects = {} /\ focus = << >> /\ dflt = InitialConfig
  /\ disInfo = [h \in Hids |-> "unset"] /\ told = [o \in Objects |-> 0]
  /\ phase = "idle" /\ ev = None /\ ptr = None /\ att = None /\ mode = "nohit"
  /\ todo = << >> /\ handed = << >> /\ moved = FALSE
  /\ clash = FALSE
-----------------------------------------------------------------------------
AddObject(r) ==
  /\ phase = "idle" /\ Root[r] = r /\ r \notin objects
  /\ objects' = objects \cup {r}
  /\ UNCHANGED <<focus, dflt, disInfo, told, phase, ev, ptr, att, mode, todo,
                 handed, moved, clash>>

(* The focus of a removed object and the disp_ptr of its tree stay. *)
RemoveObject(r) ==
  /\ phase = "idle" /\ r \in objects /\ objects' = objects \ {r}
  /\ UNCHANGED <<focus, dflt, disInfo, told, phase, ev, ptr, att, mode, todo,
                 handed, moved, clash>>

(* drag_end outside of handle, by a holder, which has its disp_ptr from
   add_object; at category level a copy is reconfigured. *)
DragEnd(o, a, cfg) ==
  /\ phase = "idle" /\ a \in DOMAIN focus /\ focus[a].object = o
  /\ focus' = IF a.level = "category" THEN focus ELSE [focus EXCEPT ![a].config = cfg]
  /\ UNCHANGED <<objects, dflt, disInfo, told, phase, ev, ptr, att, mode, todo,
                 handed, moved, clash>>

(* Mutant: kit attachments are not looked up. *)
LookupWithoutKit(h) == IF AllAtt \in DOMAIN focus THEN AllAtt
                       ELSE IF HidAtt(h) \in DOMAIN focus THEN HidAtt(h) ELSE None

(* The attachment dispatch finds for h: all, then kit, then hid. *)
Lookup(h) == IF AllAtt \in DOMAIN focus THEN AllAtt
             ELSE IF KitAtt(h) \in DOMAIN focus THEN KitAtt(h)
             ELSE IF HidAtt(h) \in DOMAIN focus THEN HidAtt(h)
             ELSE None

Dispatch(h) ==
  /\ phase = "idle" /\ objects # {}
  /\ ev' = h /\ ptr' = Lookup(h) /\ att' = Lookup(h)
  /\ phase' = "grab"
  /\ UNCHANGED <<attached, mode, todo, handed, moved, clash>>

(* The first object in the trees that wants to grab the focus may. *)
Grab ==
  /\ phase = "grab" /\ phase' = "spatial"
  /\ \/ Become(Now)
     \/ /\ "grab" \in Config(Now)
        /\ \E o \in {c \in Objects : Root[c] \in objects}, a \in Demands(ev),
              cfg \in Configs, accept \in BOOLEAN, dev \in Devices :
             Become(Attach(Now, o, a, cfg, dev, accept))
  /\ clash' = (Clashing(focus) \/ Clashing(focus'))
  /\ UNCHANGED <<objects, disInfo, ev, mode, todo, handed, moved>>

(* dispatch_spatial without an analysis: it is off here or for the controller,
   or the event repeats the dispatch_info kept for its hid, whichever object
   that was about, for the object now in focus.  The HMD only sends poses, which
   are always analysed. *)
NoAnalysis ==
  /\ phase = "spatial"
  /\ "spatial" \in Config(Now) => ~(ev.cat = "controller" /\ ev.index = -1)
  /\ \/ phase' = "focus" /\ mode' = "nohit"
     \/ /\ "spatial" \in Config(Now) /\ disInfo[ev] # "unset"
        /\ phase' = "hit" /\ mode' = disInfo[ev]
  /\ UNCHANGED <<attached, ev, ptr, att, todo, handed, moved, clash>>

(* The refocusing of dispatch_spatial when o, or no object, was hit. *)
Refocus(s, o, indexRefused, accept) ==
  LET kept == Object(s) # None /\
              \/ o = Object(s)
              \/ o # None /\ "transfer" \notin Config(s)
              \/ o = None /\ "deattach" \notin Config(s)
      t == IF Object(s) # None /\ (~kept \/ (o = Object(s) /\ indexRefused))
           THEN Detach(s, Object(s), s.att) ELSE s
  IN  IF o # None /\ ~kept
      THEN Attach(t, o, HidAtt(ev), s.dflt, ev.dev, accept) ELSE t

(* The checks dispatch_spatial makes for h: mouse moves are checked for
   pointing, the poses of the first two controllers for both, others for none. *)
Checks(h, cfg) == cfg \cap
  IF h.cat = "mouse" THEN {"pointing"}
  ELSE IF h.index \in 0 .. 1 THEN {"pointing", "proximity"} ELSE {}

Hits == {None} \cup
  IF Checks(ev, Config(Now)) = {} THEN {}
  ELSE IF "onlyFocus" \in Config(Now) THEN {Object(Now)}
  ELSE {o \in Objects : Root[o] \in objects}

(* Without a check, dispatch_spatial leaves early for the first two controllers
   only.  Without refocusing it then follows the null pointer of no hit; checks
   made are left on, whatever they hit. *)
Analysis ==
  /\ phase = "spatial" /\ "spatial" \in Config(Now) /\ ev.cat # "keyboard"
  /\ ev.cat = "mouse" \/ ev.index \notin 0 .. 1 \/ Checks(ev, Config(Now)) # {}
  /\ IF "respatial" \notin Config(Now)
     THEN /\ Become(Now) /\ mode' = "hit"
          /\ phase' = IF Checks(ev, Config(Now)) = {} THEN "crashed" ELSE "hit"
     ELSE \E o \in Hits, accept \in BOOLEAN, refused \in {disInfo[ev] = "hit", FALSE} :
            /\ Become(Refocus(Now, o, refused, accept)) /\ phase' = "hit"
            /\ mode' = IF o = None THEN "nohit" ELSE "hit"
  /\ UNCHANGED <<objects, disInfo, ev, todo, handed, moved, clash>>
-----------------------------------------------------------------------------
(* What the request of a handle call of o makes of the focus. *)
Requested(o) ==
  IF "handle" \notin Config(Now) THEN {Now}
  ELSE LET Att(s) == {Attach(s, o, a, cfg, dev, accept) : a \in Demands(ev),
                        cfg \in Configs, dev \in Devices, accept \in BOOLEAN}
       IN  {Now} \cup Att(Now) \cup Att(Detach(Now, o, att))
           \cup {Detach(Now, o, a) : a \in Demands(ev)}
           \cup {Reconfigure(Now, cfg) : cfg \in Configs}

(* dispatch returns; info is what it leaves for the hid *)
Return(info) ==
  /\ phase' = "idle" /\ disInfo' = [disInfo EXCEPT ![ev] = info]
  /\ ev' = None /\ mode' = "nohit" /\ todo' = << >> /\ handed' = << >> /\ moved' = FALSE
  /\ ptr' = None /\ att' = None /\ clash' = FALSE

(* dispath_with_focus_update makes the focus s of it and o has handled the
   event, or it has not and dispatch goes on. *)
Handled(s) ==
  /\ focus' = s.focus /\ dflt' = s.dflt /\ told' = s.told /\ UNCHANGED objects
  /\ Return(mode)

Declined(o, s) ==
  /\ Become(s)
  /\ moved' = (moved \/ s.focus # focus \/ s.dflt # dflt \/ s.ptr # ptr)
  /\ handed' = IF moved' THEN << >> ELSE Append(handed, o)
  /\ UNCHANGED <<objects, disInfo, ev, mode, clash>>

(* The object in focus; its children follow only without spatial dispatch, and
   are asked for even if the request of the object has left nobody in focus:
   a virtual call of the null object. *)
HandFocus ==
  /\ phase \in {"hit", "focus"} /\ Object(Now) # None
  /\ \E s \in Requested(Object(Now)) :
       \/ Handled(s)
       \/ /\ Declined(Object(Now), s)
          /\ phase' = IF phase = "hit" THEN "structural"
                      ELSE IF "recursive" \in Config(s) /\ Object(s) = None
                      THEN "crashed" ELSE "recursive"
          /\ todo' = IF phase = "focus" /\ "recursive" \in Config(s) /\ Object(s) # None
                     THEN Only(Order, Below[Object(s)]) ELSE << >>

NoFocus ==
  /\ phase \in {"hit", "focus"} /\ Object(Now) = None /\ phase' = "structural"
  /\ UNCHANGED <<attached, ev, ptr, att, mode, todo, handed, moved, clash>>

(* dispatch_recursive for the next object: the object in focus has had its
   turn, and with focus_recursive so have its children *)
Visit ==
  /\ phase \in {"recursive", "visit"} /\ todo # << >>
  /\ \E o \in Objects : o = Head(todo) /\
       IF o = Object(Now)
       THEN /\ todo' = IF "recursive" \in Config(Now)
                       THEN Only(Tail(todo), Objects \ Below[o])
                       ELSE Tail(todo)
            /\ UNCHANGED <<attached, phase, ev, ptr, att, mode, handed, moved, clash>>
       ELSE \E s \in Requested(o) :
              Handled(s) \/ (Declined(o, s) /\ todo' = Tail(todo) /\ UNCHANGED phase)

(* Mutant: the hierarchy of the focus is visited a second time. *)
StructuralRepeatsRoot ==
  /\ phase = "structural" \/ (phase = "recursive" /\ todo = << >>)
  /\ "structural" \in Config(Now)
  /\ phase' = "visit" /\ mode' = "nohit"
  /\ LET first == IF Object(Now) = None THEN {} ELSE {Root[Object(Now)]}
     IN  todo' = Trees(first) \o Trees(objects)
  /\ UNCHANGED <<attached, ev, ptr, att, handed, moved, clash>>

(* The traversal of all hierarchies, the one of the focus first if asked for *)
Structural ==
  /\ phase = "structural" \/ (phase = "recursive" /\ todo = << >>)
  /\ "structural" \in Config(Now)
  /\ phase' = "visit" /\ mode' = "nohit"
  /\ LET first == IF "rootFirst" \notin Config(Now) \/ Object(Now) = None THEN {}
                  ELSE {Root[Object(Now)]}
     IN  todo' = Trees(first) \o Trees(objects \ first)
  /\ UNCHANGED <<attached, ev, ptr, att, handed, moved, clash>>

Unhandled ==
  /\ \/ phase = "visit" /\ todo = << >>
     \/ /\ phase = "structural" \/ (phase = "recursive" /\ todo = << >>)
        /\ "structural" \notin Config(Now)
  /\ Return("nohit")
  /\ UNCHANGED <<objects, focus, dflt, told>>

Next ==
  \/ \E r \in Objects : AddObject(r) \/ RemoveObject(r)
  \/ \E o \in Objects, a \in Attachments, cfg \in Configs : DragEnd(o, a, cfg)
  \/ \E h \in Hids : Dispatch(h)
  \/ Grab \/ NoAnalysis \/ Analysis
  \/ HandFocus \/ NoFocus \/ Visit \/ Structural \/ Unhandled

Spec == Init /\ [][Next]_vars
-----------------------------------------------------------------------------
Sole(a, h) == {b \in DOMAIN focus : Covers(b, h)} = {a}
InRange(h) == h.index \in MinIndex(h.cat) .. MaxIndex(h.cat)

(* dispatcher.h:51: the dispatcher "manages non overlapping attachment of
   focus to hids".  What attach_focus does keep: the attachments of kits, of category
   selections and of all hids never overlap, and a hid attachment is only
   overlapped by a category, or by its kit if its index is out of range. *)
LevelsDisjoint ==
  \A a, b \in DOMAIN focus, h \in Hids : Overlap(a, b, h) =>
     \/ {a.level, b.level} = {"hid", "category"}
     \/ {a.level, b.level} = {"hid", "kit"} /\ ~InRange(h)

(* Every attachment an object accepted is taken back by exactly one detach
   announcement: the balance of what an object was told is what it holds. *)
ToldBalanced ==
  \A o \in Objects :
     told[o] = Cardinality({a \in DOMAIN focus : focus[a].object = o})

(* When dispatch turns to the object in focus, that is the holder of the one
   attachment that covers the hid, whatever grabs and refusals came before:
   as long as attachments do not overlap, and except beside attachments for
   categories, which are never looked up. *)
FocusFirst ==
  phase \in {"hit", "focus"} /\ ~clash =>
     \A a \in DOMAIN focus : Sole(a, ev) /\ a.level # "category" => ptr = a

(* focusable.h:118, drag_begin: "such that it is not lost during the
   operation".  The spatial step of an event takes no attachment configured
   against refocusing, and goes on to its holder, as long as there is something
   to check for the device of the event.  There is nothing for a pose other than
   those of the first two controllers, nor for the mouse in a drag by grabbing:
   if the attachment covers these, the program crashes on their next event. *)
DragKept ==
  [][phase = "spatial" /\ ~clash =>
       \A a \in DOMAIN focus :
          Sole(a, ev) /\ a.level # "category" /\ "respatial" \notin focus[a].config
          => /\ a \in DOMAIN focus' /\ focus'[a] = focus[a]
             /\ Checks(ev, focus[a].config) # {} =>
                  ptr' = a /\ phase' \in {"focus", "hit"}]_vars

(* One event is handed to an object once, unless a request of an object it
   was handed to changed the focus on the way. *)
HandedOnce == IsInjective(handed)

(* An event nobody handles has been handed to every object of the listed
   hierarchies, again unless the focus moved; the descendants of the object
   in focus are left out if that was handed the event by spatial dispatch. *)
UnhandledReachesAll ==
  phase = "visit" /\ todo = << >> /\ ~moved =>
     \A o \in Range(Trees(objects)) :
        \/ o \in Range(handed)
        \/ /\ Object(Now) # None /\ "recursive" \in Config(Now)
           /\ o \in Below[Object(Now)]

(* Whoever handles it or not, an event is offered once to everybody. *)
OfferedToAllOnce == HandedOnce /\ UnhandledReachesAll
=============================================================================
