------------------------------ MODULE RobotLink ------------------------------
(***************************************************************************)
(* How lepp3 keeps the robot informed: DiffAggregator.hpp finds what       *)
(* changed since the last snapshot, RobotAggregator.cpp turns each change  *)
(* into messages, and RobotService.cpp queues them and sends them from a   *)
(* thread of its own.                                                      *)
(*                                                                         *)
(* updateFrame runs on the capture thread and makes one callback after the *)
(* other; meanwhile the service thread sends what they queued, so that     *)
(* each callback is a step.  Where the robot is, is known anew with each   *)
(* frame.  A model is its id and how many parts it has, a surface its id.  *)
(***************************************************************************)
EXTENDS VisionMessages, FiniteSets, FiniteSetsExt, Sequences, SequencesExt

CONSTANTS
  Obstacle,     (* ids of the obstacles the tracker may hand on            *)
  Surface,      (* ids of the surfaces the tracker may hand on             *)
  MaxParts,     (* bound on the parts of an obstacle                       *)
  Freq,         (* a snapshot is taken every Freq frames                   *)
  MaxRobotId,   (* bounds next_id                                          *)
  MaxBacklog    (* bounds the messages waiting when a snapshot begins      *)

ASSUME LinkAssumption ==
  /\ Obstacle \subseteq Nat /\ IsFiniteSet(Obstacle)
  /\ Surface \subseteq Nat /\ IsFiniteSet(Surface)
  /\ MaxParts \in Nat \ {0}
  /\ Freq \in Nat \ {0}
  /\ MaxRobotId \in Nat
  /\ MaxBacklog \in Nat

VARIABLES
  curr,                 (* DiffAggregator::curr_, as a residue of Freq     *)
  previous_ids,         (* also the keys of current_obstacles_             *)
  previous_surface_ids, (* also the keys of current_surfaces_              *)
  phase,                (* where the snapshot is                           *)
  obstacles,            (* frameData->obstacles not yet looked at          *)
  surfaces,             (* frameData->surfaces not yet looked at           *)
  current_ids,          (* obstacles of this or the last snapshot          *)
  current_surface_ids,  (* surfaces of this or the last snapshot           *)
  deleted,              (* ids left to be deleted                          *)
  robot_ids,            (* RobotAggregator::robot_ids_                     *)
  next_id,              (* RobotAggregator::next_id_                       *)
  untold,               (* history: models numbered without a message      *)
  near,                 (* obstacles within the robot's boundary           *)
  near_surfaces,        (* surfaces within the robot's boundary            *)
  link,                 (* the socket: "connecting", "up" or "down"        *)
  queue,                (* messages posted to the io_service               *)
  robot,                (* what the robot holds                            *)
  intact                (* no message was lost so far                      *)

diff_vars == <<curr, previous_ids, previous_surface_ids, phase, obstacles,
               surfaces, current_ids, current_surface_ids, deleted>>
aggregator_vars == <<robot_ids, next_id, untold>>
pose_vars == <<near, near_surfaces>>
service_vars == <<link, robot, intact>>

vars == <<diff_vars, aggregator_vars, pose_vars, service_vars, queue>>

RobotId == 0 .. MaxRobotId

(* The obstacles of a frame, in the order of its list; every obstacle is   *)
(* listed once (ListMatchesIndex of the tracker).  One may have no part:   *)
(* the approximator drops pieces of fewer than three points, and hands on  *)
(* the obstacle even when none is left.                                    *)
Listing(S) == {s \in BoundedSeq(S, Cardinality(S)) : IsInjective(s)}

ObstacleLists ==
  UNION {{[i \in DOMAIN ids |-> [id |-> ids[i], parts |-> parts[i]]] :
            parts \in [DOMAIN ids -> 0 .. MaxParts]} : ids \in Listing(Obstacle)}

-----------------------------------------------------------------------------
(* RobotAggregator's callbacks, as the messages they send and the ids they *)
(* leave in robot_ids_[model.id()].                                        *)

(* nextId: one id for the model and one for each of its parts.             *)
NewIds(parts) == [i \in 1 .. parts + 1 |-> next_id + i - 1]

(* new_obstacle_cb_: the first part creates the model, the others modify   *)
(* it.  A model without parts is numbered all the same, and no one is told.*)
NewMessages(ids) ==
  [i \in 1 .. Len(ids) - 1 |->
     IF i = 1 THEN SetPart(ids[1], ids[2]) ELSE ModifyPart(ids[1], ids[i + 1])]

Surplus(a, b) == Max({0, a - b})

(* mod_obstacle_cb_ on `parts` primitives: superfluous parts are deleted.  *)
(* The code names ids[old_size - i - 1] in the message, but drops the last *)
(* id of the vector; TLA+ sequences count from 1.  When no part is to be   *)
(* left, the last message names ids[0], the model, for the part.           *)
PartsDeleted(ids, parts) ==
  LET old_size == Len(ids) - 1
  IN  [i \in 1 .. Surplus(old_size, parts) |-> DeletePart(ids[1], ids[old_size - (i - 1)])]

(* A faulty variant: one part fewer is deleted than is dropped.            *)
PartsKept_DropsOneMore(ids, parts) ==
  SubSeq(ids, 1, IF parts + 1 < Len(ids) THEN parts ELSE Len(ids))

PartsKept(ids, parts) == SubSeq(ids, 1, Min({Len(ids), parts + 1}))

PartsModified(kept) == [i \in 1 .. Len(kept) - 1 |-> ModifyPart(kept[1], kept[i + 1])]

(* The ids of the parts the model did not have before.                     *)
PartsAdded(ids, parts) ==
  [i \in 1 .. Surplus(parts, Len(ids) - 1) |-> next_id + i - 1]

(* A faulty variant: names the last id instead of the first.               *)
Deletion_LastId(ids) == DeleteModel(ids[Len(ids)])

(* del_obstacle_cb_: the first id is that of the obstacle itself.          *)
Deletion(ids) == DeleteModel(ids[1])

(* A faulty variant: the callback answers true for an obstacle nearby too, *)
(* without having told the robot.                                          *)
Drops_Always(o) == TRUE

(* What del_obstacle_cb_ answers: whether to drop the obstacle for good.   *)
Drops(o) == o \notin near

(* A faulty variant: never creates a surface.                              *)
SurfaceUpdate_OnlyModifies(s) == ModifySurface(s)

(* new_surface_cb_ and mod_surface_cb_.  The dummy hull of a low, level    *)
(* surface is data the model leaves out.                                   *)
SurfaceUpdate(s) ==
  IF s \in previous_surface_ids THEN ModifySurface(s) ELSE SetSurface(s)

GoneObstacles == previous_ids \ current_ids

(* A faulty variant: the difference taken the wrong way round.             *)
GoneSurfaces_Swapped == current_surface_ids \ previous_surface_ids

GoneSurfaces == previous_surface_ids \ current_surface_ids

-----------------------------------------------------------------------------
(* AsyncRobotService::sendMessage queues; the service thread does the rest.*)
Send(messages) == queue' = queue \o messages

Init ==
  /\ curr \in 0 .. Freq - 1           (* curr_ is never initialized        *)
  /\ previous_ids = {} /\ previous_surface_ids = {}
  /\ phase = "idle"
  /\ obstacles = <<>> /\ surfaces = <<>>
  /\ current_ids = {} /\ current_surface_ids = {}
  /\ deleted = {}
  /\ robot_ids = <<>> /\ next_id = 0 /\ untold = {}
  /\ near = {} /\ near_surfaces = {}
  /\ link = "connecting"
  /\ queue = <<>>
  /\ robot = NothingKnown /\ intact = TRUE

(* DiffAggregator::updateFrame on a frame that is no snapshot.             *)
SkipFrame ==
  /\ phase = "idle"
  /\ curr' = (curr + 1) % Freq
  /\ curr' # 0
  /\ UNCHANGED <<previous_ids, previous_surface_ids, phase, obstacles, surfaces,
                 current_ids, current_surface_ids, deleted, aggregator_vars,
                 pose_vars, service_vars, queue>>

(* The frame's pose, for isInRobotBoundary: the robot walks, and obstacles *)
(* and surfaces move.  Each is asked about once per snapshot.              *)
RobotMoves ==
  /\ near' \in SUBSET Obstacle
  /\ near_surfaces' \in SUBSET Surface

(* How many ids the callbacks on a frame's obstacles may take.             *)
IdsTaken(obs) ==
  LET Taken(i) ==
        IF obs[i].id \in previous_ids
          THEN Surplus(obs[i].parts, Len(robot_ids[obs[i].id]) - 1)
          ELSE obs[i].parts + 1
  IN  MapThenSumSet(Taken, DOMAIN obs)

(* ... and on one that is.  The last two guards are bounds.                *)
BeginSnapshot(obs, surfs) ==
  /\ phase = "idle"
  /\ curr' = (curr + 1) % Freq
  /\ curr' = 0
  /\ RobotMoves
  /\ phase' = "obstacles"
  /\ obstacles' = obs /\ surfaces' = surfs
  /\ current_ids' = {} /\ current_surface_ids' = {}
  /\ Len(queue) <= MaxBacklog
  /\ next_id + IdsTaken(obs) <= MaxRobotId + 1
  /\ UNCHANGED <<previous_ids, previous_surface_ids, deleted, aggregator_vars,
                 service_vars, queue>>

(* The head of the obstacle list, whose id is remembered in any case.      *)
NextObstacle(o, parts) ==
  /\ phase = "obstacles"
  /\ obstacles # <<>>
  /\ o = Head(obstacles).id /\ parts = Head(obstacles).parts
  /\ obstacles' = Tail(obstacles)
  /\ current_ids' = current_ids \cup {o}
  /\ previous_ids' = previous_ids \cup {o}
  /\ UNCHANGED <<curr, previous_surface_ids, phase, surfaces, current_surface_ids,
                 deleted, pose_vars, service_vars>>

new_obstacle_cb(o, parts) ==
  /\ NextObstacle(o, parts)
  /\ o \notin previous_ids
  /\ LET ids == NewIds(parts)
     IN  /\ robot_ids' = [x \in DOMAIN robot_ids \cup {o} |->
                            IF x = o THEN ids ELSE robot_ids[x]]
         /\ next_id' = next_id + Len(ids)
         /\ Send(NewMessages(ids))
         /\ untold' = IF parts = 0 THEN untold \cup {ids[1]} ELSE untold

mod_obstacle_cb(o, parts) ==
  /\ NextObstacle(o, parts)
  /\ o \in previous_ids
  /\ IF o \in near
       THEN UNCHANGED <<aggregator_vars, queue>>
       ELSE LET ids   == robot_ids[o]
                kept  == PartsKept(ids, parts)
                added == PartsAdded(ids, parts)
            IN  /\ robot_ids' = [robot_ids EXCEPT ![o] = kept \o added]
                /\ next_id' = next_id + Len(added)
                /\ Send(PartsDeleted(ids, parts) \o PartsModified(kept \o added))
                /\ UNCHANGED untold

EndObstacles ==
  /\ phase = "obstacles"
  /\ obstacles = <<>>
  /\ phase' = "surfaces"
  /\ UNCHANGED <<curr, previous_ids, previous_surface_ids, obstacles, surfaces,
                 current_ids, current_surface_ids, deleted, aggregator_vars,
                 pose_vars, service_vars, queue>>

(* The head of the surface list.                                           *)
surface_cb(s) ==
  /\ phase = "surfaces"
  /\ surfaces # <<>>
  /\ s = Head(surfaces)
  /\ surfaces' = Tail(surfaces)
  /\ current_surface_ids' = current_surface_ids \cup {s}
  /\ previous_surface_ids' = previous_surface_ids \cup {s}
  /\ IF s \in previous_surface_ids \cap near_surfaces
       THEN UNCHANGED queue
       ELSE Send(<<SurfaceUpdate(s)>>)
  /\ UNCHANGED <<curr, previous_ids, phase, obstacles, current_ids, deleted,
                 aggregator_vars, pose_vars, service_vars>>

EndSurfaces ==
  /\ phase = "surfaces"
  /\ surfaces = <<>>
  /\ phase' = "deletions"
  /\ deleted' = GoneObstacles
  /\ UNCHANGED <<curr, previous_ids, previous_surface_ids, obstacles, surfaces,
                 current_ids, current_surface_ids, aggregator_vars, pose_vars,
                 service_vars, queue>>

del_obstacle_cb(o) ==
  /\ phase = "deletions"
  /\ o \in deleted
  /\ o = Min(deleted)
  /\ deleted' = deleted \ {o}
  /\ previous_ids' = IF Drops(o) THEN previous_ids \ {o} ELSE previous_ids
  /\ IF o \in near
       THEN UNCHANGED <<robot_ids, queue>>
       ELSE /\ Send(<<Deletion(robot_ids[o])>>)
            /\ robot_ids' = Restrict(robot_ids, DOMAIN robot_ids \ {o})
  /\ UNCHANGED <<curr, previous_surface_ids, phase, obstacles, surfaces, current_ids,
                 current_surface_ids, next_id, untold, pose_vars, service_vars>>

EndDeletions ==
  /\ phase = "deletions"
  /\ deleted = {}
  /\ phase' = "surface deletions"
  /\ deleted' = GoneSurfaces
  /\ UNCHANGED <<curr, previous_ids, previous_surface_ids, obstacles, surfaces,
                 current_ids, current_surface_ids, aggregator_vars, pose_vars,
                 service_vars, queue>>

del_surface_cb(s) ==
  /\ phase = "surface deletions"
  /\ s \in deleted
  /\ s = Min(deleted)
  /\ deleted' = deleted \ {s}
  /\ IF s \in near_surfaces
       THEN UNCHANGED <<previous_surface_ids, queue>>
       ELSE /\ previous_surface_ids' = previous_surface_ids \ {s}
            /\ Send(<<DeleteSurface(s)>>)
  /\ UNCHANGED <<curr, previous_ids, phase, obstacles, surfaces, current_ids,
                 current_surface_ids, aggregator_vars, pose_vars, service_vars>>

EndSnapshot ==
  /\ phase = "surface deletions"
  /\ deleted = {}
  /\ phase' = "idle"
  /\ UNCHANGED <<curr, previous_ids, previous_surface_ids, obstacles, surfaces,
                 current_ids, current_surface_ids, deleted, aggregator_vars,
                 pose_vars, service_vars, queue>>

UpdateFrame ==
  \/ SkipFrame
  \/ /\ phase = "idle"
     /\ \E obs \in ObstacleLists, surfs \in Listing(Surface) : BeginSnapshot(obs, surfs)

Snapshot ==
  \/ \E o \in Obstacle, parts \in 0 .. MaxParts :
       new_obstacle_cb(o, parts) \/ mod_obstacle_cb(o, parts)
  \/ EndObstacles
  \/ \E s \in Surface : surface_cb(s)
  \/ EndSurfaces
  \/ \E o \in Obstacle : del_obstacle_cb(o)
  \/ EndDeletions
  \/ \E s \in Surface : del_surface_cb(s)
  \/ EndSnapshot

(* The service thread.  inner_send catches every error and goes on with    *)
(* the next message; nobody sends again or connects again.                 *)
Transmit(msg) == robot' = After(robot, msg) /\ UNCHANGED intact

(* A faulty variant: the service takes the message posted last.            *)
NextToSend_Last == Len(queue)

NextToSend == 1

inner_send ==
  /\ queue # <<>>
  /\ queue' = RemoveAt(queue, NextToSend)
  /\ IF link = "up"
       THEN Transmit(queue[NextToSend])
       ELSE intact' = FALSE /\ UNCHANGED robot
  /\ UNCHANGED <<diff_vars, aggregator_vars, pose_vars, link>>

Connect ==
  /\ link = "connecting"
  /\ link' \in {"up", "down"}
  /\ UNCHANGED <<diff_vars, aggregator_vars, pose_vars, robot, intact, queue>>

ConnectionBreaks ==
  /\ link = "up"
  /\ link' = "down"
  /\ UNCHANGED <<diff_vars, aggregator_vars, pose_vars, robot, intact, queue>>

Next ==
  \/ UpdateFrame
  \/ Snapshot
  \/ inner_send
  \/ Connect
  \/ ConnectionBreaks

Spec == Init /\ [][Next]_vars

(* Frames keep coming, and neither thread stops.                           *)
FairSpec ==
  /\ Spec
  /\ WF_<<curr, phase>>(UpdateFrame)
  /\ WF_<<phase, obstacles, surfaces, deleted>>(Snapshot)
  /\ WF_queue(inner_send)

-----------------------------------------------------------------------------
(* Properties.                                                             *)

(* Types of the aggregators' state, the queue and the robot's view.        *)
TypeOK ==
  /\ curr \in 0 .. Freq - 1
  /\ previous_ids \subseteq Obstacle /\ current_ids \subseteq Obstacle
  /\ previous_surface_ids \subseteq Surface /\ current_surface_ids \subseteq Surface
  /\ phase \in {"idle", "obstacles", "surfaces", "deletions", "surface deletions"}
  /\ \A i \in DOMAIN obstacles :
       obstacles[i] \in [id : Obstacle, parts : 0 .. MaxParts]
  /\ \A i \in DOMAIN surfaces : surfaces[i] \in Surface
  /\ deleted \subseteq Obstacle \cup Surface
  /\ DOMAIN robot_ids \subseteq Obstacle
  /\ \A o \in DOMAIN robot_ids : robot_ids[o] \in Seq(RobotId)
  /\ next_id \in 0 .. MaxRobotId + 1
  /\ untold \subseteq RobotId
  /\ near \subseteq Obstacle /\ near_surfaces \subseteq Surface
  /\ link \in {"connecting", "up", "down"}
  /\ queue \in Seq(Message(RobotId, RobotId, Surface))
  /\ DOMAIN robot.models \subseteq RobotId
  /\ \A m \in DOMAIN robot.models : robot.models[m] \subseteq RobotId
  /\ robot.surfaces \subseteq Surface
  /\ intact \in BOOLEAN

(* The two aggregators hold the same obstacles, each under ids of its own: *)
(* an obstacle always keeps the id of its model, which the next message    *)
(* about it names, and no id stands for two things.                        *)
NumberingIsSound ==
  /\ DOMAIN robot_ids = previous_ids
  /\ \A o \in DOMAIN robot_ids :
       /\ Len(robot_ids[o]) >= 1
       /\ IsInjective(robot_ids[o])
       /\ \A i \in DOMAIN robot_ids[o] : robot_ids[o][i] < next_id
  /\ \A a, b \in DOMAIN robot_ids :
       a # b => Range(robot_ids[a]) \cap Range(robot_ids[b]) = {}

(* The robot's view once it has received everything that is queued.        *)
Arriving ==
  LET view[i \in 0 .. Len(queue)] ==
        IF i = 0 THEN robot ELSE After(view[i - 1], queue[i])
  IN  view[Len(queue)]

(* The models lepp3 remembers that the robot can know: one that had no     *)
(* part when it was numbered is not created by parts that come later, as   *)
(* those modify a model the robot does not have.                           *)
Told == {o \in DOMAIN robot_ids : robot_ids[o][1] \notin untold}

(* As long as no message was lost, the robot will know exactly the models  *)
(* and surfaces lepp3 remembers, those whose removal is withheld included, *)
(* but for the models numbered without a part; and of each model at least  *)
(* every part lepp3 counts to it.                                          *)
RobotIsInformed ==
  intact =>
    LET view == Arriving
    IN  /\ DOMAIN view.models = {robot_ids[o][1] : o \in Told}
        /\ \A o \in Told :
             Range(Tail(robot_ids[o])) \subseteq view.models[robot_ids[o][1]]
        /\ view.surfaces = previous_surface_ids

(* What lepp3 says of an obstacle without parts: anything about a model    *)
(* that had none when it was numbered, and the removal of a part that      *)
(* names the model itself, sent when the last part goes.                   *)
AboutPartless(msg) ==
  /\ "model" \in DOMAIN msg
  /\ \/ msg.model \in untold
     \/ msg.action = "REMOVE_SSV_ONLY_PART" /\ msg.part = msg.model

(* As long as no message was lost, what the robot receives makes sense to  *)
(* it unless it is about an obstacle without parts: the robot is told to   *)
(* create only what it does not have, to change or remove only models and  *)
(* surfaces it has, and to remove only parts it has.                       *)
RobotNeverConfused ==
  [][inner_send /\ link = "up" /\ intact =>
       LET msg == queue[NextToSend]
       IN  Confusing(robot, msg) => AboutPartless(msg)]_vars

(* Even when messages are lost, models reach the robot in the order they   *)
(* were numbered: one that the robot had before never comes back.          *)
ModelsArriveInOrder ==
  [][\A m \in DOMAIN robot'.models \ DOMAIN robot.models :
       \A k \in DOMAIN robot.models : k < m]_vars

(* A withheld deletion is made up for: an obstacle or a surface that is    *)
(* gone for good and stays away from the robot is forgotten in the end.    *)
GoneIsForgotten ==
  /\ \A o \in Obstacle :
       <>[](o \notin current_ids /\ o \notin near) => <>[](o \notin previous_ids)
  /\ \A s \in Surface :
       <>[](s \notin current_surface_ids /\ s \notin near_surfaces)
         => <>[](s \notin previous_surface_ids)

(* A model or surface that lepp3 has given up leaves the robot too, unless *)
(* a message was lost.                                                     *)
RobotCatchesUp ==
  /\ \A m \in RobotId :
       (intact /\ m \in DOMAIN robot.models
          /\ \A o \in DOMAIN robot_ids : robot_ids[o][1] # m)
         ~> (~ intact \/ m \notin DOMAIN robot.models)
  /\ \A s \in Surface :
       (intact /\ s \in robot.surfaces /\ s \notin previous_surface_ids)
         ~> (~ intact \/ s \notin robot.surfaces \/ s \in previous_surface_ids)

(* mod_obstacle_cb_ deletes the superfluous parts and then modifies "what  *)
(* we have left from before": the robot will have, of each model that has  *)
(* parts and that it was told of, just the parts lepp3 counts to it.       *)
PartsAreMirrored ==
  intact =>
    \A o \in Told :
      Len(robot_ids[o]) >= 2 =>
        Arriving.models[robot_ids[o][1]] = Range(Tail(robot_ids[o]))

(* "There always need to be at least two IDs in the vector (the model and  *)
(* at least one of its parts)", on which mod_obstacle_cb_ relies when it   *)
(* counts the parts and names those to delete.                             *)
ModelsHaveParts == \A o \in DOMAIN robot_ids : Len(robot_ids[o]) >= 2
=============================================================================
