# Verification of lepp3

TLA+ models of lepp3, the environment perception package of the humanoid robot
LOLA, with the runs of TLC that check them and the theorems TLAPS proves about
them.  File names below are relative to the repository; its code is under `src/`.

## The system

Frames flow through a chain of observers (`lepp3/FrameData.hpp`:
`notifyObservers` calls each in turn, on the thread of the caller), assembled
once by `config/FileConfigParser.hpp`:

    camera / files --> VideoSource --> FilteredVideoSource --> SurfaceDetector
       (pose attached)                                          |  ^
                                      ransacTask, clusterTask --+  |
                                      (threads of their own) ------+
       --> PlaneInlierFinder --> segmenter --> ObjectApproximator
       --> obstacle tracker --> RobotAggregator --> AsyncRobotService --> robot
                                                    (a thread of its own)

| Part | State it keeps | Operations | What makes it correct |
|---|---|---|---|
| Video sources (`VideoSource`, `GrabberVideoSource`, `OfflineVideoSource`, `FilteredVideoSource`) | frame counter | `cloud_cb_`, `image_cb_`, `setNextFrame`, `updateFrame` | frames numbered once, each with the pose of its time |
| Pose services (`lola/pose`) | received and current pose; index into a file | `read_handler`, `triggerNextFrame`, `getCurrentPose` | the pose of a frame is the newest one |
| Recorder (`util/VideoRecorder.hpp`) | three indices and a lock | `updateFrame` (cloud), `updateFrame` (image) | clouds, images and poses stay in step |
| Surface detector (`SurfaceDetector.hpp`) | exchange fields under three mutexes | `updateFrame`, `ransacTask`, `clusterTask`, `updateSurfaces` | results belong to the frames they are labelled with, never go back, none is overlooked |
| Surface pipeline (`SurfaceFinder`, `SurfaceClusterer`, `SurfaceTracker`, `ConvexHullDetector`) | the tracker's maps | `findSurfaces`, `updateSurfaces` of each | noise is suppressed, hulls cover the surface |
| Filters (`FilteredVideoSource`, `filter/`) | a history or a value per cell | `newFrame`, `newPoint`, `getFiltered` | what was seen often enough is handed on, what was not is not |
| Obstacle segmentation (`obstacles/segmenter`) | mixture states and their filters | `updateFrame` with `cleanStates`, `e_step`, `m_step`, `removeState` | the states that had a reason to go are removed, split or presented, wherever swaps moved them |
| Obstacle approximation (`obstacles/object_approximator`) | none | `updateFrame`, `approximate`, `split` | every valid segment becomes a model |
| Obstacle tracker (`LowPassObstacleTracker.hpp`) | tracked models, two counters each, list and index of the real ones | `updateFrame` | low-pass promise of its class comment; list and maps consistent; ids unique |
| Kalman filter (`KalmanObstacleTracker`) | a filter per obstacle | `updateFrame` | filters belong to obstacles that exist |
| Diff and robot aggregator (`DiffAggregator.hpp`, `lola/RobotAggregator.cpp`) | ids of the last snapshot; ids the robot knows | `updateFrame`, six callbacks | the robot's picture matches the tracker's |
| Robot service (`lola/RobotService.cpp`) | queue of the `io_service`, socket | `sendMessage`, `inner_send`, `start` | messages in order, queue drains |
| Message stream (`sendBytes`; `readDataFrom` of `vision_msg_server`) | the receive buffer and what is expected | `inner_send`, `readDataFrom` | messages come out whole, in order, once |
| Configuration (`config/`) | the components set up so far | the phases of the constructor | what runs is connected, and does what the file asks for |
| Visualizers (`visualization/`) | handles of what is drawn | `updateFrame` | what is drawn is what is known |
| Calibration, evaluation | display state | | outside the pipeline's logic |

Hard to test are: the interleavings of the capture thread with `ransacTask`,
`clusterTask`, the service thread and the pose thread; the tracker's maps and
stored list iterators over long sequences of frames; deletions that are withheld
while the robot is near; lost messages; ids and handles that are given again;
counters that live in elements of a vector that is rearranged under them; the
order in which a configuration sets things up.  `PROJECT.json` lists each such place
with its line under `hazards`, and there the properties that cover it.

## The modules

`Hysteresis` -- the abstract specification.  What both trackers promise in
their class comments: a model becomes real after `FOUND_LIMIT` sightings in a
row, stops being real after `LOST_LIMIT` frames in a row without it, and a
retired id is never seen again.  It knows ids and frames, no geometry.

`LowPassObstacleTracker` -- the obstacle tracker.  One action per way through
`updateFrame`: `TrackFrame` (match, count, blend, drop, materialize, copy; all on
the capture thread, hence one step) and `PassEmptyFrame`.  Variables are the
fields of the class.  A model is a place (`Model`, `Distance`, `Blend` are
constants); two detections may match one model, the last one wins, as in the
code's `correspondence[model_id] = i`.  `materialized_models` counts how often
an id is in the linked list, so that a double entry is a state the model could
be in.  `model_idx_in_list` is the set of ids the code holds an iterator for.
`NearestExists` and the other lemmas, and the proof that it implements
`Hysteresis`, are in `LowPassObstacleTrackerProofs`.

`Capture` -- the grabber's callbacks, `PoseUdpService` and `VideoRecorder`, with a
thread each for clouds, images and datagrams.  The depth thread passes through
`CloudArrives`, the two halves of the swap in `triggerNextFrame`, `GiveParams` and the
recorder's `RecordCloud` and `RecordPose`; the image thread through `ImageArrives`,
`RecordImage` and `ReleaseLock`.  A pose is the number of its datagram, `frame.seen`
what had arrived when the cloud came in (the program does not know it).  The mode
of the recorder is chosen among all that `initRecorder` can configure.  Assigning
`received_pose_` in the midst of a swap is undefined behaviour; `torn` notes it, and
every pose read afterwards is arbitrary (the program could also crash).

`VisionMessages` -- the messages for the robot, and (external to the repository)
what a receiver that follows them holds after each: `After`.  A message is `Confusing`
if it changes or removes a model or surface the receiver does not have, removes a part
it does not have, or creates what it has; it is then ignored.  To modify an unknown part
of a known model adds the part: lepp3 has no other message for it.

`RobotLink` -- `DiffAggregator`, `RobotAggregator` and `AsyncRobotService`
together.  `updateFrame` is a sequence of callbacks on the capture thread; the
service thread sends in between, so each callback is an action (`new_obstacle_cb`,
`mod_obstacle_cb`, `surface_cb`, `del_obstacle_cb`, `del_surface_cb`), and `phase`
is the loop `updateFrame` is in.  `near` says which obstacles are within the
robot's boundary; it is chosen anew for each snapshot, because the pose changes
only with a frame (`VideoSource::setNextFrame`) and each obstacle is asked about
once per snapshot.  The connection may never come
up, or break; then `inner_send` loses the message, as the code's `catch (...)`.
An obstacle may have no part: the approximator drops pieces of fewer than three points
(`SplitApproximator.cpp:23`) and hands the obstacle on all the same
(`ObjectApproximator.cpp:34-35`).  `new_obstacle_cb` then numbers a model and posts
nothing; `untold` is the history of such models.  Parts that come later are sent as
changes of a model the robot does not have, and are lost on it.  When a known obstacle
loses its last part, `mod_obstacle_cb` names the model itself as the part to delete.
`RobotIsInformed` and `RobotNeverConfused` say how far this reaches (`Told`,
`AboutPartless`) and that nothing else goes wrong.

`SurfacePipeline` -- `SurfaceDetector` and its threads.  One action per critical
section: `TakeCoefficients`, `OfferCloud`, `TakeSurfaces` (capture thread),
`TakeCloud`, `TakeStamp`, `PublishPlanes` (`ransacTask`), `TakePlanes`,
`PublishSurfaces` (`clusterTask` with the clusterer, tracker and hull detector,
which are called in turn on its thread).  A cloud is the set of planes that can
be seen in it; every result carries in `of` the frame it really stems from,
which the program does not know and the properties compare with its labels.
The surface tracker is `Hysteresis`.

`MCLowPassObstacleTracker` gives the tracker four places on a line with squared
distances, and halving as the blend.

`SurfaceFinder` -- the search for planes: the loop over last frame's planes, which takes
all points near one, the loop around RANSAC (external; it may take any points near a
plane), `Classify` with the merging of similar planes, and the choice of the ground when
surfaces are switched off.  Planes and points are seen from the side: a plane is a height
on the z-axis, a tilt in degrees and a normal that points up or down, a point has an x and
a z.  RANSAC looks for planes within 15 degrees of level (`SurfaceFinder.hpp:126`); up to
there a rise is the angle times the distance, to within three percent, in
units of x that are 57 times those of z (57 degrees are one radian), and the distance
to a plane is its distance along z, to within four.  Planes are merged by angle and
height on the z-axis alone (`:158-161`): the farther a point is from the axis, the
farther it can be from the plane that stands for it, which is what `Margin` says.  The angle of parallel normals may be no number, since the product of two
unit vectors can be rounded to more than 1; `FoundSimilar` lets the comparison
then fail.

`SurfaceClusterer` -- a voxel grid per plane: `Build`, the depth first search
(`StartCluster`, `VisitCell`) with its stack, and `AddSurfaces`.  Coordinates are
integers, the resolution a number of units.  Each thread has a grid of its own and
only `AddSurfaces` is shared, in a critical section: planes are taken one at a time
and in any order.

`SurfaceTracker` -- `updateSurfaces` as one action (it runs on `clusterTask`'s thread).
Matching and counting are those of the obstacle tracker, from which the class was
copied, and are taken from that module by an instance whose distance makes two
surfaces of unlike radius too far apart.  The list with the stored iterators is
modelled in full: an iterator is a position that moves with its element.

`HullReduction` -- `reduceConvHullPoints` with its ring of triangles and the set ordered
by area, one point removed per action, over all small integer polygons; the
reference `Shrunk` removes points from the sequence itself.  Which hulls there are is
the constant `Hulls`.

`SplitApproximator` -- the queue of `SplitObjectApproximator::approximate`.  The cut and
the conditions on size, shape and distance are left open; a depth limit is assumed
among the conditions, as the comments in `config/` advise.

`MixtureSegmenter` -- the life of the states of `GmmSegmenter`: a frame is `Begin`
(`initialize` on the first, broken covariances marked), `RemoveState` for each of
`removedStates`, `EStep`, one `MStep` per state, `Results`, `RemoveState` again and
`Finish`.  What EM makes of the cloud is a choice: which states have little weight,
which reach into a second cluster (`MaximizeOnly`, `ResetState`, `SplitState`).  The
Kalman filters and the mixture's visualizer are sets of indices, as in the code.
States have a `name` the code does not give them, so that the properties can say which
state an index stands for; `kept`, `apart`, `seen` and `inherited` are only read by them.

`Configuration` -- the constructor of `FileConfigParser`, phase by phase.  What the file
says is chosen where the parser reads it.  `outcome` is "thrown" where the code
throws and "crashed" where it dereferences null; `edges` are the pairs of
`attachObserver`.  `outcome = "running"` once `main` has opened the source.

`PostFilter` -- `FilteredVideoSource::setNextFrame` with `ProbFilter` (a word of bits per
cell, shifted by every point; the word is the set of the bits that are set) or `Pt1Filter` (a value per cell, added to by every point,
fading with every frame).

`Replay` -- `OfflineVideoSource` and `PoseFileService`: three sequences of files that
start over, each in its own way.

`SceneView` -- the handles of `ObsSurfVisualizer`: drawings of the parts of obstacles
kept in a map by the part's id, of surfaces in the surface's own model, of clouds in
a list.  The window hands the lowest free handle out, so that handles return soon.

`MessageChannel` -- the abstract specification of a connection: a queue of messages.
`MessageStream` -- what implements it: `sendBytes` writes as many bytes as the socket
takes, `readDataFrom` reads at most as many as it wants, counts them and takes headers
and contents off the front, in a buffer that grows with the message.

`Surroundings` runs these machines side by side, one per behaviour: they share no
state.  `SurroundingsProofs` are the proofs about it, `MCSurroundings.cfg` is its
instance for TLC.  `MCRobotLink` runs `RobotLink` with two obstacles, and with one obstacle and
one surface.

`Stages` chooses one of the five stages above and its parameters, and lets it run on
all its inputs; it gives the points, planes and places their geometry (`Center`,
`Plane`, `Position`, ...: integers that the named assumptions say all that is needed of).
The stages work through one message at a time and share no state, so their steps need
not be interleaved.  `MCStages` names the small sets TLC is given: all convex polygons
of five points on a grid, positions around the borders of cells, planes similar in
pairs.  `StageProofs` are the proofs about `Stages`.  The other modules are checked as
they are.

`NaturalSets` -- lemmas for the proofs that speak of numbers only: least and greatest
elements; recursion (that there is a function that is defined by what follows each of its
values, or by the values for smaller sets); what is left of a ring of numbers that are
linked left and right; the cells of a grid; turns from point to point.  `...Proofs` -- the
proofs about the module of that name.

## What is checked

| Run | Bounds | Shows |
|---|---|---|
| `obstacle_tracker` | 4 places, 2 detections per frame, 3 ids, limits 3 and 2, refresh every 2nd frame | list and index (`ListMatchesIndex`), maps (`MapsAgree`), unique ids, the refinement `KeepsPromise`, and that a lone steady obstacle appears (`LoneObstacleAppears`) |
| `empty_frames` | the same | violation of the class comment, see below |
| `robot_link` | 2 obstacles of 0 or 1 part, snapshot every 2nd frame, 4 robot ids; or 1 obstacle of 0 to 2 parts and 1 surface, snapshot every frame, 3 robot ids; 1 message of backlog | numbering (`NumberingIsSound`), the robot's picture (`RobotIsInformed`, `RobotNeverConfused`), order (`ModelsArriveInOrder`), departures (`GoneIsForgotten`, `RobotCatchesUp`) |
| `models_without_parts` | 1 obstacle of 0 to 2 parts, 1 surface, every frame | violation, see below |
| `deleted_parts` | 1 obstacle, 1 surface, every frame | violation, see below |
| `surface_threads` | 2 planes, 3 frames, limits 2 and 2 | labels (`StampsErrForward`), causality, no going back, no cloud overlooked, surfaces settle on planes |
| `consecutive_frames` | 1 plane, 3 frames | violation, see below |
| `capture` | 3 clouds, 3 poses, all modes | images and poses keep in step with clouds as far as the lock promises (`CloudsAndImagesInStep`, `PosesFollowClouds`, `PairIsClose`), poses are late by one frame at most (`TwoFramesCatchUp`), the recorder goes on (`LockIsReleased`) |
| `pose_of_frame` | the same | violation, see below |
| `stages` | surfaces at 3 places of 2 sizes, 2 per turn, 3 ids, limits 2 and 2 | the surface tracker keeps the promise of `Hysteresis` (`SurfacesKeepPromise`), its list shows what is tracked (`ListShowsTracked`) |
| | all convex polygons of up to 5 points on a 4 by 4 grid, reduced to 3 | the links and keys of the triangles stay right (`RingIsSound`), the result is the one of the reference (`ReductionIsGreedy`) |
| | 1 or 2 planes, 4 points, cells of 10 units | no point is in a cell at the grid's border (`PointsAreInside`), the surfaces are the clusters (`SurfacesAreClusters`) |
| | 5 points on the z-axis and beside it, 4 planes: two level ones, one tilted, one tilted and upside down; 2 frames, with and without reuse | points stay with one plane, as near it as merging allows at their distance from the axis (`PointsKeepTheirPlane`), similar planes are merged unless they are parallel (`PlanesDiffer`) |
| | up to 7 points, depth limits 0 to 2 | parts are disjoint and bounded in number, points are lost only as splinters, parts have their own axes (`PartsCoverObstacle`) |
| `surroundings` | 3 names of states, splits after 2 frames of 1, real after 2 | removals name the right states (`RemovalIsExact`), splits and obstacles are earned (`SplitIsEarned`, `ObstaclesAreReal`) |
| | 2 point filters, every type of observer, 1 visualizer, 1 aggregator | what runs is connected (`RunningIsConnected`); the detector detects surfaces if asked to (`SurfacesAreDetected`) |
| | cells 0 and 15, up to 2 points in each, words of 4 bits, threshold 2 | dense frames do not push sightings out (`SightingsCount`), the low-pass follows (`LowPassFollows`) |
| | recordings of 2 to 4 clouds, one image or pose fewer or not | images stay with their clouds if there are as many (`ImagesInStep`) |
| | 2 obstacles and 1 surface in the window | no drawing leaks or is lost, and no handle has two owners (`SceneIsAccounted`) |
| | messages of 4 and 5 bytes, a buffer of 4, 3 numbers, 2 on the way | the stream implements `MessageChannel` (`ImplementsChannel`) |
| `filters_are_own` | as `surroundings`, with filters | violation, see below |

The bounds are enough for the cases that matter: two detections meet one model
and drift into each other's range, a third id makes reuse visible, limits of 3
and 2 have a frame strictly in between, `REFRESH = 2` alternates both ways of
adapting.  In `RobotLink` an obstacle leaves, is withheld, comes back and is
renumbered: four ids are enough for two models, one of which gets its part later or
comes back as a third model, three for a model of two parts, or one that loses its
part and gets another.  Messages wait while the next snapshot runs.  With two obstacles a
snapshot begins only when there are ids for all that is listed, whichever of it
is new (`IdsAreLeft`).  In `SurfacePipeline` three frames let the capture thread be two
frames ahead of `ransacTask`.  In `Capture` a third cloud is what meets a pose that
was lost by the first two swaps, and what would overtake an image that is still
being converted.

In the stages: a fifth point of a hull makes the second removal work on links the
first has changed; positions 0, 9 and 25 with cells of 10 are in one cell, in
neighbouring ones or have an empty one between them, depending on where the
smallest coordinate puts the grid; planes at heights 0, 1 and 3 with a tolerance of
2 are similar in pairs but not all, a tilt of 4 is still similar to none with a tolerance
of 5, and takes the points beside the axis out of reach of the level plane it is merged
with; seven points are cut into two parts, or one and
two splinters, or none.

In the surroundings: three names are enough for a split while another state is
swapped into the place of one that is removed; two points in a cell of a word of four
bits push out what two frames left there; the second cell, 15 away, falls out of the
box of the first as the box is widened by 10, and back in when both have points; with
a recording of one image fewer than clouds the two start over at different clouds;
two obstacles can come from clusters of one number in turn, which gives their parts
one id; a message longer than the buffer makes it grow, a shorter one then leaves
room in it.

The bounds themselves: `MAX_ID`, `MaxRobotId`, `MaxFrame` stop counters that in
the code only grow; `MaxBacklog` lets a snapshot begin only when few messages
wait, where the code's queue has no limit; `MaxPose` and `MaxImage` bound what arrives,
the latter so that images last as long as clouds wait for them.
`MCSurfacePipeline.cfg`, `MCCapture.cfg` and the configurations of the violations of these
two modules switch the deadlock check off because the frames are bounded: after the last one the threads have nothing to do; `MCStages.cfg`
because each stage stops when its message is worked through; `MCSurroundings.cfg`
because a configuration is read once and a connection that broke stays broken.  The other runs check for deadlock.

Fairness.  The camera delivers frames and the capture thread processes them
(`WF` of `NextFrame`, `UpdateFrame`, `Snapshot`); the service thread sends what is
queued (`WF` of `inner_send`: `io_service::run` on a thread of its own, kept alive
by `work`); `ransacTask` and `clusterTask` are endless loops on threads of their
own, and mutexes are held for short copies only.  `SurfacePipeline` does not
assume that frames keep coming.  In `Capture` a callback that began ends, and the
camera goes on delivering images.  Nothing is assumed of the connection.

### Where the code and its comments disagree

* `empty_frames`: the class comment of `LowPassObstacleTracker` promises to
  propagate a disappearance "only if the obstacle has been gone in a sufficient
  number of consecutive frames".  A frame whose `cloudMinusSurfaces` is empty skips
  the tracker (`LowPassObstacleTracker.hpp:367`) and is handed on without obstacles;
  with a snapshot at that frame `RobotAggregator` deletes all of them.
* `deleted_parts`: `RobotAggregator.cpp:217` names `ids[old_size - i - 1]` as the part
  to delete and pops `ids[old_size - i]`.  Going from two parts to one, the robot
  removes part one and keeps part two; lepp3 keeps part one and modifies it.
* `consecutive_frames`: `SurfaceTracker` outputs surfaces found "in a sufficient
  number of consecutive frames", but `clusterTask` counts one frame many times.
* `pose_of_frame`: `pose_` "is always syncronous to the captured point cloud", but the
  swap in `triggerNextFrame` brings the older of two poses back whenever no datagram
  arrived between two clouds (`PoseUdpService.cpp:87-89`).
* `filters_are_own`: `update` of the Kalman tracker "inits filters for them if they're
  new" (`KalmanObstacleTracker.hpp:33`), and asks its map by id.  The id is the index of
  a mixture state; `removeState` moves the last state to another index and tells its
  observers, not the filters (`GmmSegmenter.cpp:433`).  An obstacle then goes on with the
  position and velocity of another.
* `models_without_parts`: "There always need to be at least two IDs in the vector (the
  model and at least one of its parts)" (`RobotAggregator.cpp:210-211`).  An obstacle
  without parts leaves one: `new_obstacle_cb_` (`:119`) numbers the model and sends
  nothing, and when the last part goes `mod_obstacle_cb_` names the model as the part to
  delete.  The robot then does not hear of a model that lepp3 goes on to modify and delete.

Further places where code and comments part, found on the way and stated here without
a run of their own:

* `planeCoeffsReferenceFrameNum` "holds the frame number of the cloud to which the newest
  plane coefficients belong", but it is read after the cloud was taken
  (`SurfaceDetector.hpp:166-168`), so that it can be too new; never too old, as
  `StampsErrForward` says.
* The constructor of `FileConfigParser` "will throw" if a component is misconfigured
  (`FileConfigParser.hpp:39-40`); with some files it follows a null pointer instead (`:415`,
  `:841`, `:896`).  `Configuration` has `outcome = "crashed"` there.
* Planes "that have almost the same normal vector and z-intersection" are merged
  (`SurfaceFinder.hpp:72`), but parallel ones may not be: `acos` of a product rounded to
  more than 1 is no number.  `PlanesDiffer` excuses them.
* The chain of cloud, image and pose "has to be traversed completely each time", but the
  recorder sets the lock again after the pose (`VideoRecorder.hpp:197`): an image that came
  in between has released it, and one cloud gets two images.
* `ProbFilter` counts "frames" (`ProbFilter.hpp:10-13`) and shifts per point (`:59-61`), so
  that ten points of one frame count as ten frames.  `SightingsCount` permits that; it says
  what a point is worth at least.
* `PoseFileService` advances its index before the first pose is taken: a replayed cloud
  is given the pose recorded with the one after it.  A file without poses makes it
  divide by zero.
* The mixture's visualizer keeps the drawing of an index that a swap left empty
  (`ObstacleTrackerVisualizer.hpp:151`).
* Parts are numbered from the id the segmenter gave the obstacle in that frame
  (`SplitApproximator.cpp:29`), while the tracker hands on obstacles it last saw in earlier
  frames, so that parts of two obstacles can have one id: `ObsSurfVisualizer` then shows one drawing, and
  a trajectory goes on with whatever has the id.
* A `SurfaceVisualizer` in a file with only an `ObstacleDetector` passes its check and gets
  no surfaces.  Two visualizers of one pipeline share the handle in `SurfaceModel::mh_`.

## What is proved

For every value of the constants that satisfies the named assumptions:

* `LowPassObstacleTrackerProofs`: `TypeOK`, `ListMatchesIndex`, `MapsAgree`,
  `CountersBelowLimits` and `IdsNeverReused`.  The inductive invariant is the
  conjunction of the first four.  `ListMatchesIndex` alone is not inductive: that a
  materialized model is not put into the list again needs that the counter a
  miss enters for it stays 0, which is in `MapsAgree`; and that an erased model
  loses its index needs that an index belongs to a tracked model.  The proof
  first names what `TrackFrame` computes (`TrackFrameIsFrameStep`, `FrameFacts`,
  `DroppedAndGraduated`) and then takes the conjuncts one by one.  That matching
  always finds a nearest model and that new ids are fresh are lemmas of their
  own (`NearestExists`, `NewIdBounds`, `MatchedIdType`).  `PromiseIsKept` is the
  refinement `Spec => Promise!Spec`: every frame of the tracker is a frame of
  `Hysteresis` in which the matched models are sighted.  The refinement mapping
  forgets `frames_found` of real models.
* `SurfacePipelineProofs`: `TypeOK`, `StampsErrForward`, `ResultsAreCausal` and the
  action property `ResultsNeverGoBack`.  The inductive invariant adds the chain
  frame >= exchange cloud >= cloud of `ransacTask` >= planes >= surfaces (`InOrder`),
  strictness where a thread holds news (`News`), and bounds on the stamps in the
  threads' local variables (`Stamps`).
* `CaptureProofs`: `TypeOK`, `CloudsAndImagesInStep`, `PosesFollowClouds`, `PairIsClose` and
  `TwoFramesCatchUp`.  The inductive invariant says what the lock tells of the
  images (`LockTellsImages`), how old the image at hand can be while the recorder is
  not locked (`ImageIsClose`), and that one of the two pointers always has the newest
  pose and the last frame was given the current one (`NewestPoseIsKept`).

* `MixtureSegmenterProofs`: `RemovalIsExact`, `ObstaclesAreReal` and the action property
  `SplitIsEarned`.  `RemovalIsExact` is not inductive: that a swap leaves the other indices
  right needs the descending order (the index removed is the largest left, so that the
  last state is not one still to go) and that no two states have one name
  (`NamesDiffer`, which also speaks of states not yet added).  `CountersAreEarned` ties
  the counters in a state, which move with it, to what was observed of its name;
  `FoundSoFar` says which part of a frame may have found which removals.
* `RobotLinkProofs`: `NumberingIsSound` and the action property `ModelsArriveInOrder`, the
  latter whatever messages are lost.  The inductive invariant adds that the models in the
  queue follow each other, come after those the robot has and before the next id
  (`QueueInOrder`), that only what is remembered is deleted (`DeletedWereThere`), and that
  the models numbered without a message have ids below the next.
  `RobotIsInformed` and the action property `RobotNeverConfused` speak of the robot
  after all that is queued, a fold over the queue, on which the prover cannot do
  induction. The proof says instead that there is a chain of views, one after each
  message (`Leads`), none of whose messages is confusing unless it is about an obstacle
  without parts (`Sensible`, `Partless`), and that its last view suits what lepp3
  remembers (`Knows`); a confusing message leaves the view as it is, so that the chain
  goes on past it; a message posted makes the chain longer, one sent makes it shorter,
  and a fold over the queue is the end of every chain. What a callback posts is checked
  against `Knows` one message at a time (`StepInforms`).

* `StageProofs`, about the five stages for every set of hulls, clouds, planes and
  positions:
  * `SurfacesAreFiltered`: the surface tracker implements `Hysteresis`.  Its counting is
    that of the obstacle tracker, whose lemmas (`CountingInv` and what a frame does to it)
    are used through an instance.  `TheListShowsTracked` adds where the iterators point:
    `PlacesAgree` says that they number the list, and is kept when a surface is erased
    and all behind it move up.
  * `RingStaysSound`: that going leftwards from a triangle meets all the others, and that
    left and right neighbours are inverse, is not inductive in those words.
    Inductive is `Linked`: a neighbour is the nearest triangle left, going round the hull
    (`Gap`), so that the two neighbours of a deleted triangle are neighbours of each other;
    that it makes one ring is `RingIsARing`.
  * `PointsStayInside`: a point is never in a cell at the border of the grid, whatever the
    tolerance and wherever the smallest coordinate puts it; the code looks at
    the neighbours of a cell without asking whether they are in the array.
  * `ReductionStaysGreedy`: the loop over triangles leaves the points that the comment's
    algorithm leaves of the sequence (`Shrunk`), in a convex hull that goes the other way
    round.  Inductive is `IsLeft`: the triangles in the queue, taken in ascending order, are
    the points that the reference has left after as many steps (`Shrink(hull)[m]`).  Then the
    neighbours in the ring are the neighbours in the sequence (`NeighboursInOrder`), the first
    triangle in the queue is the point that spans least (`FirstIsSmallest`, by area and then by
    number on both sides), and removing either is the same (`PointsRemoved`).  That what is
    left is convex needs that three points of a convex hull turn right whichever they are
    (`ConvexTurnsRight`: directions in a half plane are ordered by their turns,
    `TurnsAreTransitive`), and that going leftwards from the first is a rotation of the
    reverse (`WalkInOrder`, `RotatedIsConvex`).
  * `SurfacesStayClusters`: when a frame is done its surfaces are the clusters of its planes.
    `Searching` is the invariant of the search: a visited cell has no unvisited neighbour that
    is not on the stack, and the points of a cluster, those of the cells on the stack
    included, are chained.  When the stack is empty no cluster touches another
    (`SearchEnds`).  That neighbours in the array are neighbours in the plane, and not at the
    two ends of rows (`RowsAreApart`), is where `PointsAreInside` is needed; that points which
    are close are in cells that touch, and points in cells that touch are close, whatever
    place the grid begins at, is `GridDivision`.
  * `PointsStayWithTheirPlane` and `PlanesStayDifferent`: of the finder, with and without
    reuse.  A plane merged into one of the same height takes its points with it, which is
    why the margin is the sum of two thresholds and, away from the z-axis, of the angle by
    which the two may differ times the distance (`TiltsAgree`, `LinesPart`): two planes of at
    most 15 degrees whose normals are alike have tilts that are alike, even when one is upside
    down.  A plane is only put beside others that differ from it, in whichever order they are
    compared.
  * `PartsCoverTheObstacle`: `Apart`, `Described` and, for the bound on the number of parts,
    an account of what each part still in the queue can become (`Prospects`): a part at
    depth d may become 2 ^ (limit - d), and two points are lost for each that will not be.

* `SurroundingsProofs`:
  * `PlayedInStep`: with as many images as clouds both counters start over at the same frame.
  * `DetectedIfAsked` and `ConnectedWhenRunning`: the constructor's phases.  The first
    needs that surface detectors are set up before anything else that uses one
    (`SurfacesFirst`).  The second needs that a component is only ever attached to the
    two sources or to what is attached already (`Grounded`, kept by `OneMoreObserver`): then
    everything is reached once the source is opened.  That as many steps as there
    are pairs reach all there is to reach is a lemma of its own (`ReachedIsClosed`).
  * `StreamIsChannel`: `MessageStream` implements `MessageChannel`.  All bytes under way, read
    from the receive buffer through the socket to what `inner_send` still has to write, are those
    of the messages not delivered, in order (`Traffic`); the last of them may be cut short when the
    connection broke.  Where messages end is a function of places (`Ends`), so that taking
    one off the front and putting one at the back are both a shift of it.
  * `SightingsCounted`: a frame shifts a word as often as the cell has points in it, but what
    is shifted out never outnumbers what is set.  Inductive is `Tells`: below every place the
    word has at least as many bits as the frames in which the cell was seen (`Dominates`), and
    none below the most recent of them (`Covers`).
  * `SceneAccounted`: `SceneHolds` keeps the handles of parts, surfaces and clouds apart, each
    owner having its own (`Drawn`), through the two passes over a frame, in which the lowest
    free handle is given out again.  That there is a free one is counted (`RoomLeft`).
  * `FilterFollows`: after k frames in a row with points a value is above, and after k
    frames without below, a number that is worked out for each k (`Follows`).

The assumptions are on constants only: limits are positive, distances are
naturals, `Blend` maps places to places, there are finitely many obstacles, surfaces
and names of states; points, hulls and planes have integer coordinates, planes are
tilted by at most 15 degrees, clouds of obstacles and sets of positions are finite, and the
headers of a message are not empty.  What the convex hull algorithm (of a library) hands to
the reduction is convex (`ConvexAssumption`).  A word of the probabilistic filter has bits,
and some must be set for a cell to be included (`FilterAssumption`).  A frame has
a bounded number of parts and clouds to draw (`SceneAssumption`).  The thresholds of the low-pass filter (100 added, a tenth
lost, 400 and 1000) are those of the code, not constants.  The types of the variables
are among the theorems of the first three modules and part of the inductive invariants
of the others; no run checks them.

Every invariant and every action property that a passing run checks is stated by a theorem.
Only model-checked:

* Liveness (`LoneObstacleAppears`, `GoneIsForgotten`, `RobotCatchesUp`, `CloudsAreProcessed`,
  `SurfacesFollowPlanes`, `LockIsReleased`), which the prover does not reach.
* The violations under "Where the code and its comments disagree": there TLC shows a
  behaviour, and nothing is to be proved.

## What is not modelled, and the plan

Arithmetic on points (RANSAC itself, EM, moments of inertia, Kalman filtering, the
merging of hulls, projections, the removal of plane inliers, rotations) is not modelled:
its results are arbitrary inputs of the modules above.  Calibration, evaluation, plotting
and the printing clients of the interface keep no state of the pipeline.  The vendored
libraries (tclap, easylogging, toml, the kalman templates) and the headers of the robot's
other interfaces are data or code of others.  Nor are modelled `KalmanTrackerFilter`, the
observer that runs the same filters behind another tracker; what windows draw and their
controls; hulls being set on models that frames already handed out share
(`ConvexHullDetector.hpp:368`); the switching of the surface detector to its fallback
without surfaces in `SurfacePipeline`, which `Configuration` sets up; and point clouds and
images sent to the robot, which go out as they come.  No time is measured: that the
unbounded queue of `RobotService` grows when snapshots bring more messages than one per
`message_timeout_` is not shown (`MaxBacklog` keeps it short).  The clusterer's threads are
taken to exclude each other where the code says so (`SurfaceClusterer.hpp:140`).  When the planes of a cloud become
empty, `clusterTask` does not run the surface pipeline and the last surfaces stay;
no comment promises otherwise, and `SurfacesFollowPlanes` speaks of nonempty sets.

Three things to know that no comment of the code contradicts.  Points that are
closer than the cluster tolerance can still be in two surfaces, when they lie
diagonally to each other: cells are neighbours by their edges only.  An obstacle
can lose all its parts to splinters, which `PartsCoverObstacle` accepts, and its centre is
then the origin; what comes of it at the robot is `models_without_parts`.  And with
`EXPERIMENTAL_ENABLE_SURFACE_REUSE` a plane that was reused is not remembered
(`SurfaceFinder.hpp:227`), so that a steady plane is reused in every second frame.

Next, in this order:

1. The sharing of models between the surface tracker, the hull detector and the frames.
2. `KalmanTrackerFilter` behind the low-pass tracker.
