------------------------- MODULE MCFocusDispatcher -------------------------
(* FocusDispatcher over a tree a - b and a single object c, with a VR
   controller and the pose of the HMD (which arrives as a controller of
   index -1). *)
EXTENDS FocusDispatcher, TLC

CONSTANTS a, b, c

MCObjects == {a, b, c}
MCOrder == <<a, b, c>>
MCRoot == (a :> a) @@ (b :> a) @@ (c :> c)
MCBelow == (a :> {b}) @@ (b :> {}) @@ (c :> {})

controller == [cat |-> "controller", dev |-> "vr", index |-> 0]
hmdPose == [cat |-> "controller", dev |-> "vr", index |-> -1]
MCHids == {controller, hmdPose}

(* The controller itself gets its focus from the spatial analysis. *)
MCAttachments == {HidAtt(hmdPose), KitAtt(controller), AllAtt,
                  [level |-> "category", sel |-> {"controller"}]}

(* focus_configuration as constructed and as drag_begin by pointing leaves it *)
Drag == InitialConfig \ {"respatial", "structural", "recursive", "proximity"}
MCConfigs == {InitialConfig, Drag}
=============================================================================
