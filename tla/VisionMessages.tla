--------------------------- MODULE VisionMessages ---------------------------
(***************************************************************************)
(* The messages of the interface to the robot                              *)
(* (src/src/lola/iface/include/iface_vision_msg.hpp) and what the robot,   *)
(* which is not part of the repository, holds after each of them.          *)
(*                                                                         *)
(* The robot's view is [models, surfaces]: the parts of each obstacle it   *)
(* knows, and the surfaces it knows.                                       *)
(***************************************************************************)
EXTENDS Integers, Functions

SetPart(m, p)    == [action |-> "SET_SSV", model |-> m, part |-> p]
ModifyPart(m, p) == [action |-> "MODIFY_SSV", model |-> m, part |-> p]
DeletePart(m, p) == [action |-> "REMOVE_SSV_ONLY_PART", model |-> m, part |-> p]
DeleteModel(m)   == [action |-> "REMOVE_SSV_WHOLE_SEGMENT", model |-> m]

SetSurface(s)    == [action |-> "SET_SURFACE", surface |-> s]
ModifySurface(s) == [action |-> "MODIFY_SURFACE", surface |-> s]
DeleteSurface(s) == [action |-> "REMOVE_SURFACE", surface |-> s]

Message(models, parts, surfs) ==
  [action : {"SET_SSV", "MODIFY_SSV", "REMOVE_SSV_ONLY_PART"},
   model : models, part : parts]
    \cup [action : {"REMOVE_SSV_WHOLE_SEGMENT"}, model : models]
    \cup [action : {"SET_SURFACE", "MODIFY_SURFACE", "REMOVE_SURFACE"}, surface : surfs]

NothingKnown == [models |-> <<>>, surfaces |-> {}]

(* A message that makes no sense to a robot with this view: it changes or  *)
(* removes a model or surface that the robot does not have, removes a part *)
(* that it does not have, or creates what it has.  To modify a part it     *)
(* does not have makes sense, and adds the part: lepp3 sends new parts     *)
(* of a model it knows in no other way.                                    *)
Confusing(view, msg) ==
  CASE msg.action = "SET_SSV" -> msg.model \in DOMAIN view.models
    [] msg.action = "MODIFY_SSV" -> msg.model \notin DOMAIN view.models
    [] msg.action = "REMOVE_SSV_ONLY_PART" ->
         \/ msg.model \notin DOMAIN view.models
         \/ msg.part \notin view.models[msg.model]
    [] msg.action = "REMOVE_SSV_WHOLE_SEGMENT" -> msg.model \notin DOMAIN view.models
    [] msg.action = "SET_SURFACE" -> msg.surface \in view.surfaces
    [] OTHER -> msg.surface \notin view.surfaces

(* The view after a message; one that makes no sense is ignored.           *)
After(view, msg) ==
  IF Confusing(view, msg) THEN view
  ELSE CASE msg.action = "SET_SSV" ->
              [view EXCEPT !.models =
                 [m \in DOMAIN @ \cup {msg.model} |->
                    IF m = msg.model THEN {msg.part} ELSE @[m]]]
         [] msg.action = "MODIFY_SSV" ->
              [view EXCEPT !.models[msg.model] = @ \cup {msg.part}]
         [] msg.action = "REMOVE_SSV_ONLY_PART" ->
              [view EXCEPT !.models[msg.model] = @ \ {msg.part}]
         [] msg.action = "REMOVE_SSV_WHOLE_SEGMENT" ->
              [view EXCEPT !.models = Restrict(@, DOMAIN @ \ {msg.model})]
         [] msg.action = "SET_SURFACE" -> [view EXCEPT !.surfaces = @ \cup {msg.surface}]
         [] msg.action = "REMOVE_SURFACE" -> [view EXCEPT !.surfaces = @ \ {msg.surface}]
         [] OTHER -> view
=============================================================================
