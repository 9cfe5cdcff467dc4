-------------------------- MODULE SurroundingsProofs --------------------------
(***************************************************************************)
(* What surrounds the pipeline, for all values of the constants.           *)
(***************************************************************************)
EXTENDS Surroundings, NaturalSets, FiniteSetTheorems, SequenceTheorems, TLAPS

-----------------------------------------------------------------------------
(* A recording played back.                                                *)

(* The capture has handed out as many images as the grabber has clouds.    *)
PlayerInv ==
  /\ clouds \in Nat \ {0} /\ images \in Nat \ {0}
  /\ cloud \in 0 .. clouds
  /\ grabbed \in 0 .. images
  /\ playImages \in BOOLEAN
  /\ playImages /\ images = clouds => grabbed = cloud
  /\ image # 0 => playImages /\ (images = clouds => image = cloud)

(* Counting on modulo n begins again at 1 after n.                         *)
LEMMA AroundAgain ==
  ASSUME NEW n \in Nat \ {0}, NEW i \in 0 .. n
  PROVE  (i % n) + 1 = IF i = n THEN 1 ELSE i + 1
<1>1. \A m \in Nat : m < n => m % n = m
  OBVIOUS
<1>2. n % n = 0
  OBVIOUS
<1>3. CASE i = n
  BY <1>2, <1>3
<1>4. CASE i # n
  BY <1>1, <1>4
<1>5. QED
  BY <1>3, <1>4

(* A frame of the recording keeps what is known of the player.             *)
LEMMA PlayerNext == PlayerInv /\ Player!CloudCb => PlayerInv'
<1> SUFFICES ASSUME PlayerInv, Player!CloudCb PROVE PlayerInv'
  OBVIOUS
<1> USE DEF PlayerInv
<1>1. /\ cloud' = Player!NextCloud
      /\ grabbed' = IF playImages THEN Player!NextGrab ELSE grabbed
      /\ image' = IF playImages THEN Player!Retrieved ELSE 0
      /\ clouds' = clouds /\ images' = images /\ playImages' = playImages
  BY DEF Player!CloudCb, Player!recording
<1>2. cloud' = IF cloud = clouds THEN 1 ELSE cloud + 1
  BY <1>1, AroundAgain DEF Player!NextCloud
<1>3. grabbed' = IF ~ playImages THEN grabbed ELSE IF grabbed = images THEN 1 ELSE grabbed + 1
  BY <1>1 DEF Player!NextGrab
<1>4. playImages => image' = grabbed'
  BY <1>1, <1>3 DEF Player!Retrieved
<1>5. QED
  BY <1>1, <1>2, <1>3, <1>4

(* A recording with as many images as clouds is played in step, however    *)
(* often it begins again: OfflineVideoSource and the grabber wrap around   *)
(* at the same frame, for recordings of every length.                      *)
THEOREM PlayedInStep == SurroundingsSpec => []ImagesInStep
<1> DEFINE J == IF machine = "replay" THEN PlayerInv ELSE image = 0
           all == <<machine, vars, configuration, postFilter, replay, sceneView, stream>>
<1>1. SurroundingsInit => J
  BY DEF SurroundingsInit, PlayerInv, Player!Init
<1>2. J /\ [SurroundingsNext]_all => J'
  <2> SUFFICES ASSUME J, [SurroundingsNext]_all PROVE J'
    OBVIOUS
  <2>1. machine' = machine /\ ((machine = "replay" /\ Player!CloudCb) \/ UNCHANGED replay)
    BY DEF SurroundingsNext, RunMixture, RunConfiguration, RunPostFilter, RunReplay, RunWindow,
           RunStream, Player!Next
  <2>2. QED
    BY <2>1, PlayerNext DEF PlayerInv, replay
<1>3. J => ImagesInStep
  BY DEF PlayerInv, ImagesInStep, Player!ImagesInStep
<1>4. QED
  BY <1>1, <1>2, <1>3, PTL DEF SurroundingsSpec

-----------------------------------------------------------------------------
(* How the pipeline is put together.                                       *)

SURFACES == "SurfaceDetector"

Detected == Config!Exists(SURFACES)

(* Nothing is set up before the file's observers are known, and nothing    *)
(* before the surface detector, if the file asks for one; from then on it  *)
(* is there and active.                                                    *)
ConfigInv ==
  /\ phase \in 1 .. 9 /\ active \in BOOLEAN
  /\ wanted \subseteq asked /\ asked \subseteq Config!Types
  /\ phase <= 4 => wanted = {} /\ asked = {}
  /\ phase > 5 => wanted = {}
  /\ phase <= 4 \/ SURFACES \in wanted => edges = {}
  /\ SURFACES \in asked \ wanted => Detected /\ active = TRUE
  /\ SURFACES \notin asked => active = FALSE
  /\ outcome = "running" => phase = 9

(* The phases by their numbers.                                            *)
LEMMA PhaseNumbers ==
  ASSUME phase \in 1 .. 9
  PROVE  /\ Config!In("pose") => phase = 1
         /\ Config!In("source") => phase = 2
         /\ Config!In("robot") => phase = 3
         /\ Config!In("filtered") => phase = 4
         /\ Config!In("observers") => phase = 5
         /\ Config!In("aggregators") => phase = 6
         /\ Config!In("finalize") => phase = 7
         /\ Config!In("open") => phase = 8
         /\ Config!In("first frame") => phase = 9
<1>1. /\ Config!Phases[1] = "pose" /\ Config!Phases[2] = "source" /\ Config!Phases[3] = "robot"
      /\ Config!Phases[4] = "filtered" /\ Config!Phases[5] = "observers"
      /\ Config!Phases[6] = "aggregators" /\ Config!Phases[7] = "finalize"
      /\ Config!Phases[8] = "open" /\ Config!Phases[9] = "first frame"
  BY DEF Config!Phases
<1>2. \/ phase = 1 \/ phase = 2 \/ phase = 3 \/ phase = 4 \/ phase = 5
      \/ phase = 6 \/ phase = 7 \/ phase = 8 \/ phase = 9
  OBVIOUS
<1>3. QED
  BY <1>1, <1>2, Zenon DEF Config!In

(* The surface detector is set up before anything else.                    *)
LEMMA SurfacesFirst ==
  ASSUME NEW type \in Config!Types, Config!IsNext(type)
  PROVE  type = SURFACES \/ SURFACES \notin wanted
<1>1. /\ DOMAIN Config!TypeOrder = 1 .. 5
      /\ Config!TypeOrder[1] = SURFACES
      /\ Config!TypeOrder[2] = "ObstacleDetector" /\ Config!TypeOrder[3] = "Recorder"
      /\ Config!TypeOrder[4] = "CameraCalibrator" /\ Config!TypeOrder[5] = "ARVisualizer"
  BY DEF Config!TypeOrder, SURFACES
<1>2. \A i \in 1 .. 5 : Config!TypeOrder[i] = SURFACES => i = 1
  BY <1>1 DEF SURFACES
<1>3. \E i \in DOMAIN Config!TypeOrder : Config!TypeOrder[i] = SURFACES
  BY <1>1
<1>4. \E i \in DOMAIN Config!TypeOrder : Config!TypeOrder[i] = type
  BY <1>1 DEF Config!Types, SURFACES
<1>5. /\ Config!Place(SURFACES) \in 1 .. 5
      /\ Config!TypeOrder[Config!Place(SURFACES)] = SURFACES
  BY <1>1, <1>3, Zenon DEF Config!Place
<1>6. Config!Place(type) \in 1 .. 5 /\ Config!TypeOrder[Config!Place(type)] = type
  BY <1>1, <1>4, Zenon DEF Config!Place
<1>7. Config!Place(SURFACES) = 1
  BY <1>2, <1>5
<1>8. SURFACES \in wanted => Config!Place(type) <= Config!Place(SURFACES)
  BY Zenon DEF Config!IsNext
<1>9. SURFACES \in wanted => Config!Place(type) = 1
  BY <1>6, <1>7, <1>8
<1>10. QED
  BY <1>1, <1>6, <1>9

(* The program goes on, or ends, without an observer being set up.         *)
LEMMA ConfigGoesOn ==
  ASSUME ConfigInv, UNCHANGED <<wanted, asked, active>>,
         edges \subseteq edges', edges' = edges \/ phase > 5,
         \/ phase' = phase /\ (outcome' = "running" => phase = 9)
         \/ phase' = phase + 1 /\ phase # 4 /\ phase # 9 /\ (phase = 5 => wanted = {})
            /\ outcome' # "running"
  PROVE  ConfigInv'
<1> USE DEF ConfigInv
<1>1. Detected => Detected'
  BY DEF Detected, Config!Exists, SURFACES
<1>2. phase' \in 1 .. 9 /\ (phase' <= 4 => phase <= 4) /\ (phase > 5 => phase' > 5)
  OBVIOUS
<1>3. phase' > 5 => wanted' = {}
  OBVIOUS
<1>4. phase' <= 4 \/ SURFACES \in wanted' => edges' = {}
  OBVIOUS
<1>5. phase' <= 4 => wanted' = {} /\ asked' = {}
  OBVIOUS
<1>6. outcome' = "running" => phase' = 9
  OBVIOUS
<1>7. wanted' = wanted /\ asked' = asked /\ active' = active /\ Config!Types' = Config!Types
  BY DEF Config!Types
<1>8. (SURFACES \in asked \ wanted => Detected /\ active = TRUE)'
  BY <1>1, <1>7 DEF SURFACES
<1>9. (SURFACES \notin asked => active = FALSE)'
  BY <1>7 DEF SURFACES
<1>10. QED
  BY <1>2, <1>3, <1>4, <1>5, <1>6, <1>7, <1>8, <1>9, Zenon

(* An observer other than the surface detector is set up: it leaves the    *)
(* surface detector as it is, if there is one, or sets it up inactive.     *)
LEMMA OtherIsSetUp ==
  ASSUME ConfigInv, NEW type \in Config!Types, type # SURFACES, Config!IsNext(type),
         Config!SetUp(type), edges \subseteq edges',
         active' = active \/ active' = IF Detected THEN active ELSE FALSE
  PROVE  ConfigInv'
<1>1. phase = 5
  BY PhaseNumbers DEF ConfigInv, Config!IsNext
<1>2. SURFACES \notin wanted
  BY SurfacesFirst
<1>3. /\ wanted' = wanted \ {type}
      /\ phase' = phase /\ outcome' = outcome /\ asked' = asked
  BY DEF Config!SetUp, Config!control
<1>4. Detected => Detected'
  BY DEF Detected, Config!Exists, SURFACES
<1>5. (SURFACES \in asked => Detected /\ active = TRUE) /\ (SURFACES \notin asked => active = FALSE)
  BY <1>2 DEF ConfigInv
<1>6. (SURFACES \in asked => active' = TRUE) /\ (SURFACES \notin asked => active' = FALSE)
  <2>1. CASE SURFACES \in asked
    BY <1>5, <2>1
  <2>2. CASE SURFACES \notin asked
    BY <1>5, <2>2
  <2>3. QED
    BY <2>1, <2>2
<1>7. (SURFACES \in asked \ wanted => Detected /\ active = TRUE)'
  BY <1>3, <1>4, <1>5, <1>6 DEF SURFACES
<1>8. (SURFACES \notin asked => active = FALSE)'
  BY <1>3, <1>6 DEF SURFACES
<1>9. /\ phase' \in 1 .. 9 /\ ~ (phase' <= 4) /\ ~ (phase' > 5)
      /\ (outcome' = "running" => phase' = 9)
      /\ SURFACES \notin wanted'
      /\ wanted' \subseteq asked' /\ asked' \subseteq Config!Types
  BY <1>1, <1>2, <1>3 DEF ConfigInv
<1>10. QED
  BY <1>6, <1>7, <1>8, <1>9 DEF ConfigInv, SURFACES, Config!Types

(* The surface detector is set up, active.                                 *)
LEMMA DetectorIsSetUp == ConfigInv /\ Config!InitSurfaceDetector => ConfigInv'
<1> SUFFICES ASSUME ConfigInv, Config!InitSurfaceDetector PROVE ConfigInv'
  OBVIOUS
<1>1. /\ Config!IsNext(SURFACES) /\ Config!SetUp(SURFACES)
      /\ active' = IF Detected THEN active ELSE TRUE
      /\ <<Config!SOURCE, SURFACES>> \in edges'
  BY DEF Config!InitSurfaceDetector, Config!InitSurfaceFinder, Detected, SURFACES
<1>2. phase = 5 /\ SURFACES \in wanted
  BY <1>1, PhaseNumbers DEF ConfigInv, Config!IsNext
<1>3. /\ wanted' = wanted \ {SURFACES}
      /\ phase' = phase /\ outcome' = outcome /\ asked' = asked
  BY <1>1 DEF Config!SetUp, Config!control
<1>4. ~ Detected
  BY <1>2 DEF ConfigInv, Detected, Config!Exists
<1>5. active' = TRUE
  BY <1>1, <1>4
<1>6. Detected'
  <2>1. <<Config!SOURCE, SURFACES>>[2] = SURFACES
    OBVIOUS
  <2>2. QED
    BY <1>1, <2>1, Zenon DEF Detected, Config!Exists, SURFACES
<1>7. /\ phase' \in 1 .. 9 /\ ~ (phase' <= 4) /\ ~ (phase' > 5)
      /\ (outcome' = "running" => phase' = 9)
      /\ SURFACES \notin wanted' /\ SURFACES \in asked'
      /\ wanted' \subseteq asked' /\ asked' \subseteq Config!Types
  BY <1>2, <1>3 DEF ConfigInv
<1>8. QED
  BY <1>5, <1>6, <1>7 DEF ConfigInv, SURFACES, Config!Types

(* The observers the file asks for become known.                           *)
LEMMA ObserversAreKnown == ConfigInv /\ Config!BuildFilteredSource => ConfigInv'
<1> SUFFICES ASSUME ConfigInv, Config!BuildFilteredSource PROVE ConfigInv'
  OBVIOUS
<1>1. /\ Config!In("filtered")
      /\ phase' = phase + 1 /\ outcome' = outcome
      /\ wanted' \in SUBSET Config!Types /\ asked' = wanted'
      /\ active' = active /\ edges' = edges
  BY DEF Config!BuildFilteredSource, Config!Advance, Config!pipeline
<1>2. phase = 4
  BY <1>1, PhaseNumbers DEF ConfigInv
<1>3. phase' = 5 /\ outcome' # "running"
  BY <1>1, <1>2 DEF Config!In
<1>4. edges' = {} /\ active' = FALSE
  BY <1>1, <1>2 DEF ConfigInv
<1>5. active' \in BOOLEAN
  BY <1>1 DEF ConfigInv
<1>6. QED
  BY <1>1, <1>3, <1>4, <1>5 DEF ConfigInv, SURFACES, Config!Types

(* Every step of the constructor, and what follows it.                     *)
LEMMA ConfigNext == ConfigInv /\ Config!Next => ConfigInv'
<1> SUFFICES ASSUME ConfigInv, Config!Next PROVE ConfigInv'
  OBVIOUS
<1>1. phase \in 1 .. 9 /\ (outcome = "running" => phase = 9)
  BY DEF ConfigInv
(* Ends: nothing is changed but the outcome.                               *)
<1>2. CASE \/ Config!BadValue \/ Config!TwoPoseServices \/ Config!RobotWithoutPose
           \/ Config!FilterWithoutDependency \/ Config!TransformerWithoutPose
           \/ Config!PointFilterWithoutPose \/ Config!DistanceThreshold
           \/ Config!RecordPoseWithoutPose \/ Config!VisualizerWithoutSubject
           \/ Config!VisualizerOfOtherSegmenter \/ Config!AggregatorWithoutDetector
           \/ Config!AggregatorWithoutRobot \/ Config!NoReferenceVolume
  <2>1. Config!Crash \/ \E reason : Config!Throw(reason)
    BY <1>2, Zenon
       DEF Config!BadValue, Config!TwoPoseServices, Config!RobotWithoutPose,
           Config!FilterWithoutDependency, Config!TransformerWithoutPose,
           Config!PointFilterWithoutPose, Config!DistanceThreshold,
           Config!RecordPoseWithoutPose, Config!VisualizerWithoutSubject,
           Config!VisualizerOfOtherSegmenter, Config!AggregatorWithoutDetector,
           Config!AggregatorWithoutRobot, Config!NoReferenceVolume
  <2>2. /\ phase' = phase /\ outcome' # "running" /\ edges' = edges
        /\ UNCHANGED <<wanted, asked, active>>
    BY <2>1 DEF Config!Crash, Config!Throw, Config!request, Config!pipeline
  <2>3. QED
    BY <2>2, ConfigGoesOn
<1>3. CASE Config!FirstFrame
  <2>1. phase = 9
    BY <1>1, <1>3, PhaseNumbers DEF Config!FirstFrame
  <2>2. phase' = phase /\ edges' = edges /\ UNCHANGED <<wanted, asked, active>>
    BY <1>3 DEF Config!FirstFrame, Config!request, Config!pipeline
  <2>3. QED
    BY <2>1, <2>2, ConfigGoesOn
(* A phase that sets up no observer.                                       *)
<1>4. CASE Config!InitPoseService \/ Config!InitRawSource \/ Config!InitRobot
             \/ Config!NoMoreObservers \/ Config!Finalize
  <2>1. /\ phase' = phase + 1 /\ outcome' = outcome /\ outcome = "parsing" /\ edges' = edges
        /\ UNCHANGED <<wanted, asked, active>>
    BY <1>4 DEF Config!InitPoseService, Config!InitRawSource, Config!InitRobot,
                Config!NoMoreObservers, Config!Finalize, Config!Advance, Config!In,
                Config!request, Config!pipeline
  <2>2. phase \in {1, 2, 3, 7} \/ (phase = 5 /\ wanted = {})
    BY <1>1, <1>4, PhaseNumbers
       DEF Config!InitPoseService, Config!InitRawSource, Config!InitRobot,
           Config!NoMoreObservers, Config!Finalize
  <2>3. QED
    BY <2>1, <2>2, ConfigGoesOn
<1>5. CASE Config!AddAggregators \/ Config!Open
  <2>1. /\ phase' = phase + 1 /\ outcome' = outcome /\ outcome = "parsing"
        /\ edges \subseteq edges'
        /\ UNCHANGED <<wanted, asked, active>>
    BY <1>5 DEF Config!AddAggregators, Config!Open, Config!Advance, Config!In,
                Config!request, Config!pipeline
  <2>2. phase \in {6, 8}
    BY <1>1, <1>5, PhaseNumbers DEF Config!AddAggregators, Config!Open
  <2>3. QED
    BY <2>1, <2>2, ConfigGoesOn
<1>6. CASE Config!BuildFilteredSource
  BY <1>6, ObserversAreKnown
<1>7. CASE Config!InitSurfaceDetector
  BY <1>7, DetectorIsSetUp
<1>8. CASE Config!InitObstacleDetector
  <2>1. /\ Config!IsNext("ObstacleDetector") /\ Config!SetUp("ObstacleDetector")
        /\ edges \subseteq edges'
        /\ active' = IF Detected THEN active ELSE FALSE
    BY <1>8 DEF Config!InitObstacleDetector, Config!InitSurfaceFinder, Detected, SURFACES
  <2>2. "ObstacleDetector" \in Config!Types /\ "ObstacleDetector" # SURFACES
    BY DEF Config!Types, SURFACES
  <2>3. QED
    BY <2>1, <2>2, OtherIsSetUp
<1>9. CASE Config!InitRecorder
  <2>1. /\ Config!IsNext("Recorder") /\ Config!SetUp("Recorder")
        /\ edges \subseteq edges' /\ active' = active
    BY <1>9 DEF Config!InitRecorder
  <2>2. "Recorder" \in Config!Types /\ "Recorder" # SURFACES
    BY DEF Config!Types, SURFACES
  <2>3. QED
    BY <2>1, <2>2, OtherIsSetUp
<1>10. CASE Config!InitCamCalibrator
  <2>1. /\ Config!IsNext("CameraCalibrator") /\ Config!SetUp("CameraCalibrator")
        /\ edges \subseteq edges' /\ active' = active
    BY <1>10 DEF Config!InitCamCalibrator, Config!pipeline
  <2>2. "CameraCalibrator" \in Config!Types /\ "CameraCalibrator" # SURFACES
    BY DEF Config!Types, SURFACES
  <2>3. QED
    BY <2>1, <2>2, OtherIsSetUp
<1>11. CASE Config!GetVisualizer
  <2>1. /\ Config!IsNext("ARVisualizer") /\ Config!SetUp("ARVisualizer")
        /\ edges \subseteq edges' /\ active' = active
    BY <1>11, Zenon DEF Config!GetVisualizer, Config!pipeline
  <2>2. "ARVisualizer" \in Config!Types /\ "ARVisualizer" # SURFACES
    BY DEF Config!Types, SURFACES
  <2>3. QED
    BY <2>1, <2>2, OtherIsSetUp
<1>12. QED
  BY <1>2, <1>3, <1>4, <1>5, <1>6, <1>7, <1>8, <1>9, <1>10, <1>11, Zenon
     DEF Config!Next, Config!Parse

(* The constructor begins with nothing set up.                             *)
LEMMA ConfigStart == SurroundingsInit => ConfigInv
<1>1. ASSUME Config!Init PROVE ConfigInv
  <2>1. phase = 1 /\ outcome = "parsing" /\ wanted = {} /\ asked = {} /\ active = FALSE /\ edges = {}
    BY <1>1, Zenon DEF Config!Init
  <2>2. /\ phase \in 1 .. 9 /\ ~ (phase > 5) /\ outcome # "running"
        /\ wanted \subseteq asked /\ asked \subseteq Config!Types
        /\ SURFACES \notin asked
    BY <2>1
  <2>3. active \in BOOLEAN
    BY <2>1
  <2>4. QED
    BY <2>1, <2>2, <2>3, Zenon DEF ConfigInv
<1>2. QED
  BY <1>1, Zenon DEF SurroundingsInit

(* Every step of any of the programs.                                      *)
LEMMA ConfigStep ==
  ConfigInv /\ [SurroundingsNext]_<<machine, vars, configuration, postFilter, replay, sceneView, stream>>
  => ConfigInv'
<1> DEFINE all == <<machine, vars, configuration, postFilter, replay, sceneView, stream>>
<1> SUFFICES ASSUME ConfigInv, [SurroundingsNext]_all PROVE ConfigInv'
  OBVIOUS
<1>1. Config!Next \/ UNCHANGED <<phase, outcome, wanted, asked, active, edges>>
  BY DEF SurroundingsNext, RunMixture, RunConfiguration, RunPostFilter, RunReplay, RunWindow,
         RunStream, configuration
<1>2. CASE UNCHANGED <<phase, outcome, wanted, asked, active, edges>>
  BY <1>2, Zenon DEF ConfigInv, Detected, Config!Exists, SURFACES, Config!Types
<1>3. QED
  BY <1>1, <1>2, ConfigNext

(* In a program that runs, the detector detects surfaces if and only if    *)
(* the file asks for them, whatever else it asks for, in whatever order:   *)
(* of the two that share initSurfaceFinder the surface detector is first.  *)
THEOREM DetectedIfAsked == SurroundingsSpec => []SurfacesAreDetected
<1>1. ConfigInv => SurfacesAreDetected
  BY DEF ConfigInv, SurfacesAreDetected, Config!SurfacesAreDetected, Config!Running, SURFACES
<1>2. QED
  BY ConfigStart, ConfigStep, <1>1, PTL DEF SurroundingsSpec

(* A set of components is closed if it has whom its members are observed   *)
(* by.                                                                     *)
ClosedUnder(E, C) == \A e \in E : e[1] \in C => e[2] \in C

(* Reached has what the raw source leads to: each step that is not the     *)
(* last reaches the end of one more pair, and there are not more steps     *)
(* than pairs.                                                             *)
LEMMA ReachedIsClosed ==
  ASSUME IsFiniteSet(edges)
  PROVE  Config!RAW \in Config!Reached /\ ClosedUnder(edges, Config!Reached)
<1> DEFINE n == Cardinality(edges)
           E == edges
           T == SUBSET ({Config!RAW} \cup {e[2] : e \in E})
           Onward(C) == C \cup {e[2] : e \in {f \in E : f[1] \in C}}
           advance == [p \in (1 .. n) \X T |-> Onward(p[2])]
<1>1. n \in Nat
  BY FS_CardinalityType
<1>2. \A C \in T : Onward(C) \in T
  OBVIOUS
<1>3. PICK g : /\ g \in [0 .. n -> T]
               /\ g[0] = {Config!RAW}
               /\ \A i \in 1 .. n : g[i] = advance[<<i, g[i - 1]>>]
  <2>1. Recursive({Config!RAW}, advance, n, T)
    <3>1. advance \in [(1 .. n) \X T -> T]
      <4> HIDE DEF T, Onward, n
      <4>1. QED
        BY <1>2
    <3>2. {Config!RAW} \in T
      OBVIOUS
    <3> HIDE DEF advance, T, n
    <3>3. QED
      BY <1>1, <3>1, <3>2 DEF Recursive
  <2> HIDE DEF advance, T, n
  <2>2. \E g : Computes(g, {Config!RAW}, advance, n, T)
    BY <2>1, Recursion
  <2>3. QED
    BY <2>2 DEF Computes
<1>4. ASSUME NEW i \in 1 .. n PROVE g[i] = Onward(g[i - 1])
  <2>1. i - 1 \in 0 .. n
    BY <1>1
  <2>2. g[i - 1] \in T
    BY <1>3, <2>1
  <2> DEFINE b == g[i - 1]
  <2>3. <<i, b>> \in (1 .. n) \X T /\ <<i, b>>[2] = b
    <3> HIDE DEF T, n
    <3>1. QED
      BY <2>2
  <2> HIDE DEF b, T, n, Onward
  <2>4. advance[<<i, b>>] = Onward(b)
    BY <2>3, Zenon
  <2> HIDE DEF advance
  <2>5. g[i] = advance[<<i, b>>]
    BY <1>3 DEF b
  <2>6. QED
    BY <2>4, <2>5 DEF b
<1> DEFINE Is(r) == r = [i \in 0 .. n |-> IF i = 0 THEN {Config!RAW} ELSE Onward(r[i - 1])]
<1>6. Is(g)
  <2> DEFINE r == [i \in 0 .. n |-> IF i = 0 THEN {Config!RAW} ELSE Onward(g[i - 1])]
  <2>1. ASSUME NEW i \in 0 .. n PROVE g[i] = r[i]
    <3> HIDE DEF Onward, n
    <3>1. CASE i = 0
      BY <1>3, <3>1
    <3>2. CASE i # 0
      BY <1>1, <1>4, <3>2
    <3>3. QED
      BY <3>1, <3>2
  <2> HIDE DEF Onward, n, T
  <2>2. QED
    BY <1>3, <2>1
<1>7. Is(CHOOSE r : Is(r))
  <2> HIDE DEF Is
  <2>1. QED
    BY <1>6, Zenon
<1>8. Config!Cardinality(edges) = n
  BY Zenon DEF Config!Cardinality, Cardinality
<1>9. Config!Reached = (CHOOSE r : Is(r))[n]
  BY <1>8, Zenon DEF Config!Reached
<1>10. PICK R : Is(R) /\ Config!Reached = R[n]
  BY <1>7, <1>9, Zenon
<1>11. R[0] = {Config!RAW} /\ \A i \in 0 .. n - 1 : R[i + 1] = Onward(R[i])
  <2> HIDE DEF Onward, n
  <2>1. 0 \in 0 .. n /\ \A i \in 0 .. n - 1 : i + 1 \in 0 .. n /\ i + 1 # 0 /\ (i + 1) - 1 = i
    BY <1>1
  <2>2. QED
    BY <1>10, <2>1
<1> DEFINE Ended(i) == {e \in E : e[2] \in R[i]}
           Unseen == {i \in 0 .. n : ~ (/\ Config!RAW \in R[i]
                                       /\ \/ ClosedUnder(E, R[i])
                                          \/ Cardinality(Ended(i)) >= i)}
<1>12. \A i \in 0 .. n : IsFiniteSet(Ended(i)) /\ Cardinality(Ended(i)) \in Nat
  BY FS_Subset, FS_CardinalityType
<1>13. Unseen = {}
  <2> SUFFICES ASSUME Unseen # {} PROVE FALSE
    OBVIOUS
  <2>1. PICK m \in Unseen : \A h \in Unseen : m <= h
    <3>1. Unseen \in SUBSET Nat
      <4> HIDE DEF Ended, E
      <4>1. QED
        BY <1>1
    <3> HIDE DEF Unseen
    <3>2. QED
      BY <3>1, NatHasMin
  <2>2. m # 0
    <3> HIDE DEF n, Ended
    <3>1. 0 \in 0 .. n
      BY <1>1
    <3>2. Cardinality(Ended(0)) >= 0
      BY <1>12, <3>1
    <3>3. QED
      BY <1>11, <2>1, <3>2
  <2>3. PICK h \in 0 .. n - 1 : m = h + 1 /\ h \in 0 .. n /\ h \notin Unseen
    <3> DEFINE h == m - 1
    <3>1. m \in 0 .. n
      BY <2>1
    <3> HIDE DEF Unseen, n
    <3>2. h \in 0 .. n - 1 /\ m = h + 1 /\ h \in 0 .. n /\ ~ (m <= h)
      BY <1>1, <2>2, <3>1
    <3>3. QED
      BY <2>1, <3>2
  <2>4. R[h + 1] = Onward(R[h]) /\ Config!RAW \in R[h + 1]
    <3>1. Config!RAW \in R[h]
      BY <2>3
    <3>2. R[h + 1] = Onward(R[h])
      BY <1>11, <2>3
    <3>3. QED
      BY <3>1, <3>2
  <2>5. CASE ClosedUnder(E, R[h])
    <3>1. R[h + 1] = R[h]
      BY <2>4, <2>5 DEF ClosedUnder
    <3>2. QED
      BY <2>1, <2>3, <2>4, <2>5, <3>1
  <2>6. CASE ~ ClosedUnder(E, R[h])
    <3>1. PICK e \in E : e[1] \in R[h] /\ e[2] \notin R[h]
      BY <2>6 DEF ClosedUnder
    <3>2. /\ e \in Ended(h + 1) /\ e \notin Ended(h)
          /\ Ended(h) \subseteq Ended(h + 1)
      BY <2>4, <3>1
    <3>3. Cardinality(Ended(h)) >= h
      BY <2>3, <2>6
    <3>4. Cardinality(Ended(h) \cup {e}) = Cardinality(Ended(h)) + 1
      <4> HIDE DEF Ended, n
      <4>1. QED
        BY <1>12, <2>3, <3>2, FS_AddElement
    <3>5. Cardinality(Ended(h + 1)) >= Cardinality(Ended(h) \cup {e})
      <4>1. Ended(h) \cup {e} \subseteq Ended(h + 1) /\ h + 1 \in 0 .. n
        BY <2>1, <2>3, <3>2
      <4>2. IsFiniteSet(Ended(h + 1))
        BY <1>12, <4>1
      <4> HIDE DEF Ended, n
      <4>3. QED
        BY <4>1, <4>2, FS_Subset
    <3>6. Cardinality(Ended(h + 1)) >= h + 1
      <4>1. Cardinality(Ended(h)) \in Nat /\ Cardinality(Ended(h + 1)) \in Nat /\ h \in Nat
        <5>1. m \in 0 .. n
          BY <2>1
        <5> HIDE DEF Ended, Unseen, n
        <5>2. QED
          BY <1>1, <1>12, <2>3, <5>1
      <4> HIDE DEF Ended, Unseen, n
      <4>2. QED
        BY <3>3, <3>4, <3>5, <4>1
    <3>7. QED
      BY <2>1, <2>3, <2>4, <3>6
  <2>7. QED
    BY <2>5, <2>6
<1>14. n \in 0 .. n /\ Config!RAW \in R[n] /\ (ClosedUnder(E, R[n]) \/ Cardinality(Ended(n)) >= n)
  <2>1. n \in 0 .. n
    BY <1>1
  <2>2. QED
    BY <1>13, <2>1
<1>15. CASE Cardinality(Ended(n)) >= n
  <2>1. Ended(n) \subseteq E /\ Cardinality(Ended(n)) <= n
    BY FS_Subset
  <2>2. Cardinality(Ended(n)) = n
    <3> HIDE DEF Ended, n
    <3>1. QED
      BY <1>1, <1>12, <1>14, <1>15, <2>1
  <2>3. Ended(n) = E
    <3> HIDE DEF Ended
    <3>1. QED
      BY <2>1, <2>2, FS_Subset
  <2>4. ClosedUnder(E, R[n])
    BY <2>3 DEF ClosedUnder
  <2>5. QED
    BY <1>10, <1>14, <2>4
<1>16. QED
  BY <1>10, <1>14, <1>15

-----------------------------------------------------------------------------
(* Whom an observer may be attached to: the two sources, and every         *)
(* component that is attached itself.                                      *)
Starts(E, c) == c \in {Config!RAW, Config!SOURCE} \/ \E e \in E : e[2] = c

(* From the two sources every component that is attached is reached.       *)
Grounded(E) ==
  /\ IsFiniteSet(E)
  /\ \A C : {Config!RAW, Config!SOURCE} \subseteq C /\ ClosedUnder(E, C) => \A e \in E : e[2] \in C

(* Whom an observer could be attached to it still can.                     *)
StartsKept(E, F) == \A c : Starts(E, c) => Starts(F, c)

(* Attaching an observer to such a component keeps that.                   *)
LEMMA OneMoreObserver ==
  ASSUME NEW E, NEW s, NEW t, Grounded(E), Starts(E, s)
  PROVE  /\ Grounded(E \cup {<<s, t>>})
         /\ Starts(E \cup {<<s, t>>}, t) /\ StartsKept(E, E \cup {<<s, t>>})
<1> DEFINE F == E \cup {<<s, t>>}
<1>1. IsFiniteSet(F)
  BY FS_AddElement DEF Grounded
<1>2. ASSUME NEW C, {Config!RAW, Config!SOURCE} \subseteq C, ClosedUnder(F, C), NEW e \in F
      PROVE  e[2] \in C
  <2>1. \A d \in E : d[2] \in C
    BY <1>2 DEF Grounded, ClosedUnder
  <2>2. s \in C
    BY <1>2, <2>1 DEF Starts
  <2>3. <<s, t>>[1] = s /\ <<s, t>>[2] = t /\ <<s, t>> \in F
    OBVIOUS
  <2>4. t \in C
    BY <1>2, <2>2, <2>3, Zenon DEF ClosedUnder
  <2>5. QED
    BY <2>1, <2>3, <2>4
<1>3. Starts(F, t)
  <2>1. <<s, t>>[2] = t /\ <<s, t>> \in F
    OBVIOUS
  <2>2. QED
    BY <2>1, Zenon DEF Starts
<1>4. StartsKept(E, F)
  BY Zenon DEF StartsKept, Starts
<1>5. QED
  BY <1>1, <1>2, <1>3, <1>4, Zenon DEF Grounded
Keeps(E, F) == E \subseteq F /\ StartsKept(E, F)

(* One attachment after another.                                           *)
LEMMA KeepsAll ==
  ASSUME NEW E, NEW F, NEW G, Keeps(E, F), Keeps(F, G)
  PROVE  Keeps(E, G)
BY Zenon DEF Keeps, StartsKept

(* The attachment as one of a series.                                      *)
LEMMA AttachOne ==
  ASSUME NEW E, NEW s, NEW t, Grounded(E), Starts(E, s)
  PROVE  \E F : F = E \cup {<<s, t>>} /\ Grounded(F) /\ Starts(F, t) /\ Keeps(E, F)
<1>1. E \subseteq E \cup {<<s, t>>}
  OBVIOUS
<1>2. QED
  BY <1>1, OneMoreObserver, Zenon DEF Keeps

(* The same of the pairs there are after it.                               *)
LEMMA Attached ==
  ASSUME NEW E, NEW s, NEW t, NEW F, Grounded(E), Starts(E, s), F = E \cup {<<s, t>>}
  PROVE  Grounded(F) /\ Keeps(E, F)
<1>1. PICK H : H = E \cup {<<s, t>>} /\ Grounded(H) /\ Keeps(E, H)
  BY AttachOne, Zenon
<1>2. QED
  BY <1>1, Zenon

(* What is attached is fed by the sources, and so are the ends of the      *)
(* pipeline that later phases attach to.                                   *)
WiredInv ==
  /\ Grounded(edges)
  /\ detector # Config!NONE => Starts(edges, detector)
  /\ segmenter = "GMM" => Starts(edges, "ObstacleSegmenter")
  /\ phase = 9 => <<Config!RAW, Config!SOURCE>> \in edges

(* Neither the obstacle pipeline is set up, nor the source opened.         *)
LEMMA StaysWired ==
  ASSUME WiredInv, Grounded(edges'), Keeps(edges, edges'),
         detector' = detector, segmenter' = segmenter, phase' = 9 => phase = 9
  PROVE  WiredInv'
<1>1. \A c : Starts(edges, c) => Starts(edges', c)
  BY Zenon DEF Keeps, StartsKept
<1>2. /\ detector' # Config!NONE => Starts(edges', detector')
      /\ segmenter' = "GMM" => Starts(edges', "ObstacleSegmenter")
      /\ phase' = 9 => <<Config!RAW, Config!SOURCE>> \in edges'
  BY <1>1 DEF WiredInv, Keeps, Config!NONE, Config!RAW, Config!SOURCE
<1>3. QED
  BY <1>2, Zenon DEF WiredInv, Starts, Config!NONE, Config!RAW, Config!SOURCE

(* Nothing is attached.                                                    *)
LEMMA KeepsItself == ASSUME NEW E PROVE Keeps(E, E)
BY Zenon DEF Keeps, StartsKept

(* The surface observers, whose last one closes the loop.                  *)
LEMMA SurfacesWired == WiredInv /\ Config!InitSurfaceDetector => WiredInv'
<1> SUFFICES ASSUME WiredInv, Config!InitSurfaceDetector PROVE WiredInv'
  OBVIOUS
<1>1. Starts(edges, Config!SOURCE) /\ Grounded(edges)
  BY Zenon DEF Starts, WiredInv
<1>2. PICK A : /\ A = edges \cup {<<Config!SOURCE, "SurfaceDetector">>}
               /\ Grounded(A) /\ Starts(A, "SurfaceDetector") /\ Keeps(edges, A)
  BY <1>1, AttachOne
<1>3. PICK B : /\ B = A \cup {<<"SurfaceDetector", "SurfaceClusterer">>}
               /\ Grounded(B) /\ Starts(B, "SurfaceClusterer") /\ Keeps(A, B)
  BY <1>2, AttachOne
<1>4. PICK C : /\ C = B \cup {<<"SurfaceClusterer", "SurfaceTracker">>}
               /\ Grounded(C) /\ Starts(C, "SurfaceTracker") /\ Keeps(B, C)
  BY <1>3, AttachOne
<1>5. PICK D : /\ D = C \cup {<<"SurfaceTracker", "ConvexHullDetector">>}
               /\ Grounded(D) /\ Starts(D, "ConvexHullDetector") /\ Keeps(C, D)
  BY <1>4, AttachOne
<1>6. PICK F : /\ F = D \cup {<<"ConvexHullDetector", "SurfaceDetector">>}
               /\ Grounded(F) /\ Keeps(D, F)
  BY <1>5, AttachOne
<1>7. Keeps(edges, F)
  BY <1>2, <1>3, <1>4, <1>5, <1>6, KeepsAll
<1>8. edges' = F /\ detector' = detector /\ segmenter' = segmenter /\ phase' = phase
  <2>1. /\ edges' = edges \cup
             {<<Config!SOURCE, "SurfaceDetector">>,
              <<"SurfaceDetector", "SurfaceClusterer">>, <<"SurfaceClusterer", "SurfaceTracker">>,
              <<"SurfaceTracker", "ConvexHullDetector">>, <<"ConvexHullDetector", "SurfaceDetector">>}
        /\ detector' = detector /\ segmenter' = segmenter /\ phase' = phase
    BY Zenon DEF Config!InitSurfaceDetector, Config!SetUp, Config!control
  <2>2. QED
    BY <1>2, <1>3, <1>4, <1>5, <1>6, <2>1, Zenon
<1>9. QED
  BY <1>6, <1>7, <1>8, StaysWired

(* The obstacle pipeline, whatever it ends with.                           *)
LEMMA ObstaclesWired == WiredInv /\ Config!InitObstacleDetector => WiredInv'
<1> SUFFICES ASSUME WiredInv, Config!InitObstacleDetector PROVE WiredInv'
  OBVIOUS
<1>1. Starts(edges, Config!SOURCE) /\ Grounded(edges)
  BY Zenon DEF Starts, WiredInv
<1>2. PICK A : /\ A = edges \cup {<<Config!SOURCE, "SurfaceDetector">>}
               /\ Grounded(A) /\ Starts(A, "SurfaceDetector") /\ Keeps(edges, A)
  BY <1>1, AttachOne
<1>3. PICK B : /\ B = A \cup {<<"SurfaceDetector", "PlaneInlierFinder">>}
               /\ Grounded(B) /\ Starts(B, "PlaneInlierFinder") /\ Keeps(A, B)
  BY <1>2, AttachOne
<1>4. PICK C : /\ C = B \cup {<<"PlaneInlierFinder", "ObstacleSegmenter">>}
               /\ Grounded(C) /\ Starts(C, "ObstacleSegmenter") /\ Keeps(B, C)
  BY <1>3, AttachOne
<1>5. PICK D : /\ D = C \cup {<<"ObstacleSegmenter", "ObjectApproximator">>}
               /\ Grounded(D) /\ Starts(D, "ObjectApproximator") /\ Keeps(C, D)
  BY <1>4, AttachOne
<1>6. PICK tracked \in BOOLEAN, smoothed \in BOOLEAN :
        LET tracker == IF tracked THEN "LowPassObstacleTracker" ELSE "ObjectApproximator"
        IN  /\ detector' = IF smoothed THEN "KalmanTrackerFilter" ELSE tracker
            /\ edges' = edges \cup
                 {<<Config!SOURCE, "SurfaceDetector">>, <<"SurfaceDetector", "PlaneInlierFinder">>,
                  <<"PlaneInlierFinder", "ObstacleSegmenter">>,
                  <<"ObstacleSegmenter", "ObjectApproximator">>} \cup
                 (IF tracked THEN {<<"ObjectApproximator", tracker>>} ELSE {}) \cup
                 (IF smoothed THEN {<<tracker, "KalmanTrackerFilter">>} ELSE {})
  BY Zenon DEF Config!InitObstacleDetector
<1> DEFINE tracker == IF tracked THEN "LowPassObstacleTracker" ELSE "ObjectApproximator"
           end == IF smoothed THEN "KalmanTrackerFilter" ELSE tracker
<1>7. PICK F : /\ F = D \cup (IF tracked THEN {<<"ObjectApproximator", tracker>>} ELSE {})
               /\ Grounded(F) /\ Starts(F, tracker) /\ Keeps(D, F)
  <2>1. CASE tracked
    <3> HIDE DEF tracker
    <3>1. QED
      BY <1>5, <2>1, AttachOne
  <2>2. CASE ~ tracked
    <3>1. tracker = "ObjectApproximator"
      BY <2>2
    <3> HIDE DEF tracker
    <3>2. D = D \cup (IF tracked THEN {<<"ObjectApproximator", tracker>>} ELSE {})
      BY <2>2
    <3>3. QED
      BY <1>5, <3>1, <3>2, KeepsItself
  <2>3. QED
    BY <2>1, <2>2
<1>8. PICK G : /\ G = F \cup (IF smoothed THEN {<<tracker, "KalmanTrackerFilter">>} ELSE {})
               /\ Grounded(G) /\ Starts(G, end) /\ Keeps(F, G)
  <2>1. CASE smoothed
    <3>1. end = "KalmanTrackerFilter"
      BY <2>1
    <3> HIDE DEF tracker, end
    <3>2. QED
      BY <1>7, <2>1, <3>1, AttachOne
  <2>2. CASE ~ smoothed
    <3>1. end = tracker
      BY <2>2
    <3> HIDE DEF tracker, end
    <3>2. F = F \cup (IF smoothed THEN {<<tracker, "KalmanTrackerFilter">>} ELSE {})
      BY <2>2
    <3>3. QED
      BY <1>7, <3>1, <3>2, KeepsItself
  <2>3. QED
    BY <2>1, <2>2
<1>9. Keeps(D, G) /\ Keeps(C, G) /\ Keeps(edges, G)
  BY <1>2, <1>3, <1>4, <1>5, <1>7, <1>8, KeepsAll
<1>10. edges' = G /\ detector' = end
  <2> DEFINE X == IF tracked THEN {<<"ObjectApproximator", tracker>>} ELSE {}
             Y == IF smoothed THEN {<<tracker, "KalmanTrackerFilter">>} ELSE {}
  <2>1. /\ edges' = edges \cup
             {<<Config!SOURCE, "SurfaceDetector">>, <<"SurfaceDetector", "PlaneInlierFinder">>,
              <<"PlaneInlierFinder", "ObstacleSegmenter">>,
              <<"ObstacleSegmenter", "ObjectApproximator">>} \cup X \cup Y
        /\ detector' = end
    BY <1>6
  <2>2. F = D \cup X /\ G = F \cup Y
    BY <1>7, <1>8
  <2> HIDE DEF X, Y, tracker, end
  <2>3. QED
    BY <1>2, <1>3, <1>4, <1>5, <2>1, <2>2, Zenon
<1>11. phase' = phase
  BY Zenon DEF Config!InitObstacleDetector, Config!SetUp, Config!control
<1>12. Starts(edges', "ObstacleSegmenter") /\ Starts(edges', detector') /\ Grounded(edges')
  <2> HIDE DEF end
  <2>1. QED
    BY <1>4, <1>8, <1>9, <1>10, Zenon DEF Keeps, StartsKept
<1>13. phase' = 9 => <<Config!RAW, Config!SOURCE>> \in edges'
  BY <1>9, <1>10, <1>11, Zenon DEF WiredInv, Keeps
<1>14. QED
  BY <1>12, <1>13, Zenon DEF WiredInv, Starts, Config!NONE, Config!RAW, Config!SOURCE

(* A component that is attached, or that a later phase may attach to.      *)
LEMMA ExistingStarts ==
  ASSUME NEW c, Config!Exists(c)
  PROVE  Starts(edges, c)
BY Zenon DEF Config!Exists, Starts

(* The visualizer: what getVisualizer requires is attached.                *)
LEMMA VisualizerWired == WiredInv /\ Config!GetVisualizer => WiredInv'
<1> SUFFICES ASSUME WiredInv, Config!GetVisualizer PROVE WiredInv'
  OBVIOUS
<1>1. detector' = detector /\ segmenter' = segmenter /\ phase' = phase
  BY Zenon DEF Config!GetVisualizer, Config!SetUp, Config!control, Config!pipeline
<1>2. Grounded(edges) /\ Starts(edges, Config!SOURCE) /\ Starts(edges, Config!RAW)
  BY Zenon DEF WiredInv, Starts
<1>3. CASE edges' = edges
  BY <1>1, <1>2, <1>3, KeepsItself, StaysWired
<1>4. CASE edges' # edges
  <2>1. PICK v \in Config!Visualizer :
          /\ Config!Required(v)
          /\ v = "GMMTrackingVisualizer" => segmenter = "GMM"
          /\ edges' = edges \cup {<<Config!Observed(v), v>>} \cup Config!AlsoObserved(v)
    BY <1>4, Zenon DEF Config!GetVisualizer
  <2> DEFINE o == Config!Observed(v)
             also == Config!AlsoObserved(v)
  <2>2. Starts(edges, o)
    <3>1. CASE v \in {"ObstacleVisualizer", "GMMTrackingVisualizer"}
      <4>1. o = detector /\ detector # Config!NONE
        BY <2>1, <3>1 DEF Config!Observed, Config!Required
      <4> HIDE DEF o
      <4>2. QED
        BY <4>1, Zenon DEF WiredInv
    <3>2. CASE v = "SurfaceVisualizer"
      <4>1. o = "SurfaceDetector" /\ Config!Exists("SurfaceDetector")
        BY <2>1, <3>2 DEF Config!Observed, Config!Required
      <4> HIDE DEF o
      <4>2. QED
        BY <4>1, ExistingStarts
    <3>3. CASE v \in {"CalibratorVisualizer", "CloudVisualizer", "ImageVisualizer"}
      <4>1. o = Config!SOURCE
        BY <3>3 DEF Config!Observed
      <4> HIDE DEF o
      <4>2. QED
        BY <1>2, <4>1
    <3>4. QED
      BY <3>1, <3>2, <3>3 DEF Config!Visualizer
  <2>3. \/ also = {}
        \/ also = {<<"ObstacleSegmenter", v>>} /\ Starts(edges, "ObstacleSegmenter")
        \/ also = {<<Config!RAW, v>>}
    <3>1. CASE v = "GMMTrackingVisualizer"
      <4>1. also = {<<"ObstacleSegmenter", v>>} /\ segmenter = "GMM"
        BY <2>1, <3>1 DEF Config!AlsoObserved
      <4> HIDE DEF also
      <4>2. QED
        BY <4>1, Zenon DEF WiredInv
    <3>2. CASE v = "ImageVisualizer"
      BY <3>2 DEF Config!AlsoObserved
    <3>3. CASE v \notin {"GMMTrackingVisualizer", "ImageVisualizer"}
      BY <3>3 DEF Config!AlsoObserved
    <3>4. QED
      BY <3>1, <3>2, <3>3
  <2> HIDE DEF o, also
  <2>4. PICK A : A = edges \cup {<<o, v>>} /\ Grounded(A) /\ Keeps(edges, A)
    BY <1>2, <2>2, AttachOne
  <2>5. edges' = A \cup also
    BY <2>1, <2>4, Zenon DEF o, also
  <2>6. Grounded(edges') /\ Keeps(A, edges')
    <3>1. CASE also = {}
      <4>1. edges' = A
        BY <2>5, <3>1
      <4>2. QED
        BY <2>4, <4>1, KeepsItself
    <3>2. CASE also # {}
      <4>1. PICK s : also = {<<s, v>>} /\ Starts(A, s)
        BY <1>2, <2>3, <2>4, <3>2, Zenon DEF Keeps, StartsKept
      <4>2. QED
        BY <2>4, <2>5, <4>1, Attached
    <3>3. QED
      BY <3>1, <3>2
  <2>7. Keeps(edges, edges')
    BY <2>4, <2>6, KeepsAll
  <2>8. QED
    BY <1>1, <2>6, <2>7, StaysWired
<1>5. QED
  BY <1>3, <1>4

(* The aggregator, at the end of the obstacle pipeline.                    *)
LEMMA AggregatorWired == WiredInv /\ ConfigInv /\ Config!AddAggregators => WiredInv'
<1> SUFFICES ASSUME WiredInv, ConfigInv, Config!AddAggregators PROVE WiredInv'
  OBVIOUS
<1>1. detector' = detector /\ segmenter' = segmenter /\ phase' = phase + 1 /\ Config!In("aggregators")
  BY Zenon DEF Config!AddAggregators, Config!Advance, Config!pipeline
<1>2. phase = 6
  BY <1>1, PhaseNumbers DEF ConfigInv
<1>3. phase' # 9
  BY <1>1, <1>2
<1>4. Grounded(edges) /\ Starts(edges, Config!RAW)
  BY Zenon DEF WiredInv, Starts
<1>5. CASE edges' = edges
  BY <1>1, <1>3, <1>4, <1>5, KeepsItself, StaysWired
<1>6. CASE edges' # edges
  <2>1. PICK a \in {"RobotAggregator", "ObstacleEvaluator", "SurfaceEvaluator"} :
          /\ detector # Config!NONE
          /\ edges' = edges \cup {<<detector, a>>} \cup
                        (IF a = "RobotAggregator" THEN {<<Config!RAW, a>>} ELSE {})
    BY <1>6, Zenon DEF Config!AddAggregators
  <2>2. Starts(edges, detector)
    BY <2>1, Zenon DEF WiredInv
  <2>3. PICK A : A = edges \cup {<<detector, a>>} /\ Grounded(A) /\ Keeps(edges, A)
    BY <1>4, <2>2, AttachOne
  <2>4. Grounded(edges') /\ Keeps(A, edges')
    <3>1. CASE a = "RobotAggregator"
      <4>1. edges' = A \cup {<<Config!RAW, a>>} /\ Starts(A, Config!RAW)
        BY <2>1, <2>3, <3>1, Zenon DEF Starts
      <4>2. QED
        BY <2>3, <4>1, Attached
    <3>2. CASE a # "RobotAggregator"
      <4>1. edges' = A
        BY <2>1, <2>3, <3>2
      <4>2. QED
        BY <2>3, <4>1, KeepsItself
    <3>3. QED
      BY <3>1, <3>2
  <2>5. Keeps(edges, edges')
    BY <2>3, <2>4, KeepsAll
  <2>6. QED
    BY <1>1, <1>3, <2>4, <2>5, StaysWired
<1>7. QED
  BY <1>5, <1>6

(* Every step of the constructor, and what follows it.                     *)
LEMMA WiredNext == WiredInv /\ ConfigInv /\ Config!Next => WiredInv'
<1> SUFFICES ASSUME WiredInv, ConfigInv, Config!Next PROVE WiredInv'
  OBVIOUS
<1>1. phase \in 1 .. 9
  BY DEF ConfigInv
<1>2. Grounded(edges) /\ Starts(edges, Config!SOURCE) /\ Starts(edges, Config!RAW)
  BY Zenon DEF WiredInv, Starts
(* Nothing is attached.                                                    *)
<1>3. ASSUME edges' = edges, detector' = detector, segmenter' = segmenter,
             phase' = phase \/ (phase' = phase + 1 /\ phase # 8)
      PROVE  WiredInv'
  <2>1. phase' = 9 => phase = 9
    BY <1>1, <1>3
  <2>2. QED
    BY <1>2, <1>3, <2>1, KeepsItself, StaysWired
<1>4. CASE \/ Config!BadValue \/ Config!TwoPoseServices \/ Config!RobotWithoutPose
           \/ Config!FilterWithoutDependency \/ Config!TransformerWithoutPose
           \/ Config!PointFilterWithoutPose \/ Config!DistanceThreshold
           \/ Config!RecordPoseWithoutPose \/ Config!VisualizerWithoutSubject
           \/ Config!VisualizerOfOtherSegmenter \/ Config!AggregatorWithoutDetector
           \/ Config!AggregatorWithoutRobot \/ Config!NoReferenceVolume
  <2>1. Config!Crash \/ \E reason : Config!Throw(reason)
    BY <1>4, Zenon
       DEF Config!BadValue, Config!TwoPoseServices, Config!RobotWithoutPose,
           Config!FilterWithoutDependency, Config!TransformerWithoutPose,
           Config!PointFilterWithoutPose, Config!DistanceThreshold,
           Config!RecordPoseWithoutPose, Config!VisualizerWithoutSubject,
           Config!VisualizerOfOtherSegmenter, Config!AggregatorWithoutDetector,
           Config!AggregatorWithoutRobot, Config!NoReferenceVolume
  <2>2. edges' = edges /\ detector' = detector /\ segmenter' = segmenter /\ phase' = phase
    BY <2>1 DEF Config!Crash, Config!Throw, Config!pipeline
  <2>3. QED
    BY <1>3, <2>2
<1>5. CASE Config!FirstFrame
  <2>1. edges' = edges /\ detector' = detector /\ segmenter' = segmenter /\ phase' = phase
    BY <1>5 DEF Config!FirstFrame, Config!pipeline
  <2>2. QED
    BY <1>3, <2>1
<1>6. CASE \/ Config!InitPoseService \/ Config!InitRawSource \/ Config!InitRobot
           \/ Config!BuildFilteredSource \/ Config!NoMoreObservers \/ Config!Finalize
  <2>1. /\ edges' = edges /\ detector' = detector /\ segmenter' = segmenter
        /\ phase' = phase + 1
    BY <1>6 DEF Config!InitPoseService, Config!InitRawSource, Config!InitRobot,
                Config!BuildFilteredSource, Config!NoMoreObservers, Config!Finalize,
                Config!Advance, Config!pipeline
  <2>2. \/ Config!In("pose") \/ Config!In("source") \/ Config!In("robot")
        \/ Config!In("filtered") \/ Config!In("observers") \/ Config!In("finalize")
    BY <1>6, Zenon
       DEF Config!InitPoseService, Config!InitRawSource, Config!InitRobot,
           Config!BuildFilteredSource, Config!NoMoreObservers, Config!Finalize
  <2>3. phase # 8
    <3>1. phase \in {1, 2, 3, 4, 5, 7}
      BY <1>1, <2>2, PhaseNumbers
    <3>2. QED
      BY <3>1
  <2>4. QED
    BY <1>3, <2>1, <2>3
(* One observer is attached to a source.                                   *)
<1>7. CASE Config!InitRecorder
  <2>1. /\ detector' = detector /\ segmenter' = segmenter /\ phase' = phase
        /\ edges' = edges \/ edges' = edges \cup {<<Config!RAW, "VideoRecorder">>}
    <3>1. PICK rec_cloud \in BOOLEAN, rec_rgb \in BOOLEAN :
            edges' = edges \cup (IF rec_cloud \/ rec_rgb THEN {<<Config!RAW, "VideoRecorder">>} ELSE {})
      BY <1>7, Zenon DEF Config!InitRecorder
    <3>2. detector' = detector /\ segmenter' = segmenter /\ phase' = phase
      BY <1>7, Zenon DEF Config!InitRecorder, Config!SetUp, Config!control
    <3>3. QED
      BY <3>1, <3>2
  <2>2. CASE edges' = edges
    BY <1>3, <2>1, <2>2
  <2>3. CASE edges' = edges \cup {<<Config!RAW, "VideoRecorder">>}
    <3>1. Grounded(edges') /\ Keeps(edges, edges')
      BY <1>2, <2>3, Attached
    <3>2. QED
      BY <2>1, <3>1, StaysWired
  <2>4. QED
    BY <2>1, <2>2, <2>3
<1>8. CASE Config!InitCamCalibrator
  <2>1. /\ detector' = detector /\ segmenter' = segmenter /\ phase' = phase
        /\ edges' = edges \cup {<<Config!SOURCE, "CameraCalibrator">>}
    BY <1>8, Zenon DEF Config!InitCamCalibrator, Config!pipeline, Config!SetUp, Config!control
  <2>2. Grounded(edges') /\ Keeps(edges, edges')
    BY <1>2, <2>1, Attached
  <2>3. QED
    BY <2>1, <2>2, StaysWired
(* The filtered source observes the raw one.                               *)
<1>9. CASE Config!Open
  <2>1. /\ detector' = detector /\ segmenter' = segmenter
        /\ edges' = edges \cup {<<Config!RAW, Config!SOURCE>>}
    BY <1>9, Zenon DEF Config!Open, Config!pipeline
  <2>2. Grounded(edges') /\ Keeps(edges, edges')
    BY <1>2, <2>1, Attached
  <2>3. <<Config!RAW, Config!SOURCE>> \in edges'
    BY <2>1
  <2>4. \A c : Starts(edges, c) => Starts(edges', c)
    BY <2>2, Zenon DEF Keeps, StartsKept
  <2>5. /\ detector' # Config!NONE => Starts(edges', detector')
        /\ segmenter' = "GMM" => Starts(edges', "ObstacleSegmenter")
    BY <2>1, <2>4 DEF WiredInv, Config!NONE
  <2>6. QED
    BY <2>2, <2>3, <2>5, Zenon DEF WiredInv, Starts, Config!NONE, Config!RAW, Config!SOURCE
<1>10. QED
  BY <1>4, <1>5, <1>6, <1>7, <1>8, <1>9, SurfacesWired, ObstaclesWired, VisualizerWired,
     AggregatorWired, Zenon DEF Config!Next, Config!Parse

(* In a program that runs, every component that was set up gets the frames *)
(* of the raw source, whatever the file lists: each phase attaches only to *)
(* what an earlier one attached, and the source is opened before a frame   *)
(* comes.                                                                  *)
THEOREM ConnectedWhenRunning == SurroundingsSpec => []RunningIsConnected
<1> DEFINE all == <<machine, vars, configuration, postFilter, replay, sceneView, stream>>
           J == ConfigInv /\ WiredInv
<1>1. SurroundingsInit => WiredInv
  <2>1. ASSUME Config!Init PROVE WiredInv
    <3>1. edges = {} /\ detector = Config!NONE /\ segmenter = Config!NONE /\ phase = 1
      BY <2>1, Zenon DEF Config!Init
    <3>2. Grounded({})
      BY FS_EmptySet DEF Grounded
    <3>3. QED
      BY <3>1, <3>2 DEF WiredInv, Config!NONE
  <2>2. QED
    BY <2>1, Zenon DEF SurroundingsInit
<1>2. J /\ [SurroundingsNext]_all => WiredInv'
  <2> SUFFICES ASSUME ConfigInv, WiredInv, [SurroundingsNext]_all PROVE WiredInv'
    OBVIOUS
  <2>1. Config!Next \/ UNCHANGED <<phase, edges, detector, segmenter>>
    BY DEF SurroundingsNext, RunMixture, RunConfiguration, RunPostFilter, RunReplay, RunWindow,
           RunStream, configuration
  <2>2. CASE UNCHANGED <<phase, edges, detector, segmenter>>
    BY <2>2, Zenon DEF WiredInv, Starts, Grounded, ClosedUnder, Config!NONE, Config!RAW, Config!SOURCE
  <2>3. QED
    BY <2>1, <2>2, WiredNext
<1>3. J => RunningIsConnected
  <2> SUFFICES ASSUME ConfigInv, WiredInv, outcome = "running" PROVE {e[2] : e \in edges} \subseteq Config!Reached
    BY Zenon DEF RunningIsConnected, Config!RunningIsConnected, Config!Running
  <2>1. <<Config!RAW, Config!SOURCE>> \in edges
    BY Zenon DEF ConfigInv, WiredInv
  <2>2. Config!RAW \in Config!Reached /\ ClosedUnder(edges, Config!Reached)
    BY ReachedIsClosed, Zenon DEF WiredInv, Grounded
  <2>3. Config!SOURCE \in Config!Reached
    <3>1. <<Config!RAW, Config!SOURCE>>[1] = Config!RAW /\ <<Config!RAW, Config!SOURCE>>[2] = Config!SOURCE
      OBVIOUS
    <3>2. QED
      BY <2>1, <2>2, <3>1, Zenon DEF ClosedUnder
  <2>4. {Config!RAW, Config!SOURCE} \subseteq Config!Reached
    BY <2>2, <2>3
  <2>5. \A e \in edges : e[2] \in Config!Reached
    BY <2>2, <2>4, Zenon DEF WiredInv, Grounded
  <2>6. QED
    BY <2>5
<1>4. ConfigInv /\ [SurroundingsNext]_all => ConfigInv'
  BY ConfigStep
<1>5. SurroundingsInit => ConfigInv
  BY ConfigStart
<1>6. QED
  BY <1>1, <1>2, <1>3, <1>4, <1>5, PTL DEF SurroundingsSpec

-----------------------------------------------------------------------------
(* The stream of messages to the robot.                                    *)

Part == {"MsgHeader", "VisionMessageHeader", "content"}

Byte == [of : Stream!Message, part : Part, at : Int]

(* How long a message is.                                                  *)
Size(m) == HEADER + VISION_HEADER + m.len

(* What is still to be sent, in at most three runs.                        *)
Rest(runs) ==
  IF runs = <<>> THEN <<>>
  ELSE IF Len(runs) = 1 THEN runs[1]
  ELSE IF Len(runs) = 2 THEN runs[1] \o runs[2]
  ELSE runs[1] \o (runs[2] \o runs[3])

(* All bytes of the stream that no message was cut from yet.               *)
Bytes == buf \o (wire \o Rest(out))

StreamTypes ==
  /\ up \in BOOLEAN
  /\ buf \in Seq(Byte) /\ wire \in Seq(Byte)
  /\ out \in Seq(Seq(Byte)) /\ Len(out) <= 3
  /\ undelivered \in Seq(Stream!Message)

(* The i-th message of u ends at p[i].                                     *)
Ends(u, p) ==
  /\ p \in [0 .. Len(u) -> Nat] /\ p[0] = 0
  /\ \A i \in 1 .. Len(u) : p[i] = p[i - 1] + Size(u[i])
  /\ \A i \in 0 .. Len(u) : \A h \in i .. Len(u) : p[i] <= p[h]

(* The bytes s are those of the messages u, as far as they come.           *)
Carries(s, u, p) ==
  /\ Len(s) <= p[Len(u)]
  /\ \A i \in 1 .. Len(u) : \A j \in 1 .. Size(u[i]) :
       p[i - 1] + j <= Len(s) => s[p[i - 1] + j] = Stream!Whole(u[i])[j]

(* What readDataFrom waits for is a header, or the message it is of.       *)
Reading ==
  /\ Len(buf) <= total_expected
  /\ \/ total_expected = HEADER
     \/ Len(buf) >= HEADER /\ total_expected = Size(buf[1].of)

(* And all of them are there, if whole.                                    *)
Traffic(s, u, whole) ==
  \E p : /\ Ends(u, p) /\ Carries(s, u, p)
         /\ whole => Len(s) = p[Len(u)]

StreamInv ==
  /\ StreamTypes
  /\ Reading
  /\ ~ up => out = <<>>
  /\ Traffic(Bytes, undelivered, up)

(* Sequences are concatenated in whatever order.                           *)
Associates(a, b, c) == (a \o b) \o c = a \o (b \o c)

(* Concatenation is associative, packed for the steps below.               *)
LEMMA Associative ==
  ASSUME NEW S, NEW a \in Seq(S), NEW b \in Seq(S), NEW c \in Seq(S)
  PROVE  Associates(a, b, c)
BY ConcatAssociative DEF Associates

(* How long messages are.                                                  *)
LEMMA SizeType ==
  ASSUME NEW m \in Stream!Message
  PROVE  Size(m) \in Nat \ {0} /\ m.len \in Nat
<1>1. m.len \in Nat
  BY StreamAssumption DEF Stream!Message
<1>2. QED
  BY <1>1, StreamAssumption DEF Size

(* A run of bytes.                                                         *)
LEMMA RunType ==
  ASSUME NEW m \in Stream!Message, NEW part \in Part, NEW n \in Nat
  PROVE  /\ Stream!Run(m, part, n) \in Seq(Byte)
         /\ Len(Stream!Run(m, part, n)) = n
         /\ n # 0 => Stream!Run(m, part, n)[1].of = m
<1> DEFINE bytes == [i \in 1 .. n |-> [of |-> m, part |-> part, at |-> i]]
<1>1. Stream!Run(m, part, n) = bytes
  BY Zenon DEF Stream!Run
<1>2. bytes \in [1 .. n -> Byte]
  BY DEF Byte
<1>3. n # 0 => bytes[1].of = m
  OBVIOUS
<1> HIDE DEF bytes
<1>4. bytes \in Seq(Byte) /\ Len(bytes) = n
  BY <1>2
<1>5. QED
  BY <1>1, <1>3, <1>4

(* A message and its three runs.                                           *)
LEMMA WholeType ==
  ASSUME NEW m \in Stream!Message, NEW runs,
         runs = <<Stream!Run(m, "MsgHeader", HEADER),
                  Stream!Run(m, "VisionMessageHeader", VISION_HEADER),
                  Stream!Run(m, "content", m.len)>>
  PROVE  /\ Stream!Whole(m) \in Seq(Byte)
         /\ Len(Stream!Whole(m)) = Size(m)
         /\ Stream!Whole(m)[1].of = m
         /\ runs \in Seq(Seq(Byte)) /\ Len(runs) = 3
         /\ Rest(runs) = Stream!Whole(m)
<1>0. /\ HEADER \in Nat /\ HEADER # 0 /\ VISION_HEADER \in Nat /\ m.len \in Nat
      /\ "MsgHeader" \in Part /\ "VisionMessageHeader" \in Part /\ "content" \in Part
  BY SizeType, StreamAssumption DEF Part
<1>1. PICK a : a = Stream!Run(m, "MsgHeader", HEADER)
  OBVIOUS
<1>2. PICK b : b = Stream!Run(m, "VisionMessageHeader", VISION_HEADER)
  OBVIOUS
<1>3. PICK c : c = Stream!Run(m, "content", m.len)
  OBVIOUS
<1>4. a \in Seq(Byte) /\ Len(a) = HEADER /\ a[1].of = m
  BY <1>1, <1>0, RunType
<1>5. b \in Seq(Byte) /\ Len(b) = VISION_HEADER
  BY <1>2, <1>0, RunType
<1>6. c \in Seq(Byte) /\ Len(c) = m.len
  BY <1>3, <1>0, RunType
<1>7. Stream!Whole(m) = (a \o b) \o c
  BY <1>1, <1>2, <1>3, Zenon DEF Stream!Whole
<1>8. runs = <<a, b, c>>
  BY <1>1, <1>2, <1>3, Zenon
<1>9. /\ runs \in Seq(Seq(Byte)) /\ Len(runs) = 3 /\ runs # <<>>
      /\ runs[1] = a /\ runs[2] = b /\ runs[3] = c
  BY <1>4, <1>5, <1>6, <1>8
<1>10. Rest(runs) = a \o (b \o c)
  BY <1>9, SMTT(30) DEF Rest
<1>11. (a \o b) \o c = a \o (b \o c)
  <2>1. Associates(a, b, c)
    BY <1>4, <1>5, <1>6, Associative, Zenon
  <2>2. QED
    BY <2>1, Zenon DEF Associates
<1>12. /\ a \o b \in Seq(Byte) /\ Len(a \o b) = HEADER + VISION_HEADER
  BY <1>4, <1>5, ConcatProperties
<1>13. (a \o b)[1] = a[1]
  <2>1. \A i \in 1 .. Len(a) + Len(b) : (a \o b)[i] = IF i <= Len(a) THEN a[i] ELSE b[i - Len(a)]
    BY <1>4, <1>5, ConcatProperties
  <2>2. 1 \in 1 .. Len(a) + Len(b) /\ 1 <= Len(a)
    BY <1>4, <1>5, StreamAssumption
  <2>3. QED
    BY <2>1, <2>2
<1>14. PICK d : d = a \o b
  OBVIOUS
<1>15. d \in Seq(Byte) /\ Len(d) = HEADER + VISION_HEADER /\ d[1].of = m
  BY <1>4, <1>12, <1>13, <1>14
<1>16. /\ d \o c \in Seq(Byte) /\ Len(d \o c) = Len(d) + Len(c)
       /\ \A i \in 1 .. Len(d) + Len(c) : (d \o c)[i] = IF i <= Len(d) THEN d[i] ELSE c[i - Len(d)]
  BY <1>6, <1>15, ConcatProperties
<1>17. (d \o c)[1] = d[1]
  <2>1. 1 \in 1 .. Len(d) + Len(c) /\ 1 <= Len(d)
    BY <1>6, <1>15, SizeType, StreamAssumption
  <2>2. QED
    BY <1>16, <2>1
<1>18. Stream!Whole(m) = d \o c
  BY <1>7, <1>14
<1>19. Len(d \o c) = Size(m)
  BY <1>6, <1>15, <1>16 DEF Size
<1>20. (d \o c) \in Seq(Byte) /\ (d \o c)[1].of = m
  BY <1>15, <1>16, <1>17, Zenon
<1>21. Rest(runs) = Stream!Whole(m)
  BY <1>7, <1>10, <1>11, Zenon
<1>22. QED
  BY <1>9, <1>18, <1>19, <1>20, <1>21, Zenon

(* A queue of up to three runs.                                            *)
LEMMA UpToThree ==
  ASSUME NEW S, NEW runs \in Seq(S), runs # <<>>, Len(runs) <= 3
  PROVE  /\ Head(runs) = runs[1] /\ runs[1] \in S
         /\ Tail(runs) \in Seq(S)
         /\ \/ Len(runs) = 1 /\ Tail(runs) = <<>>
            \/ /\ Len(runs) = 2 /\ Len(Tail(runs)) = 1 /\ Tail(runs) # <<>>
               /\ runs[2] \in S /\ Tail(runs)[1] = runs[2]
            \/ /\ Len(runs) = 3 /\ Len(Tail(runs)) = 2 /\ Tail(runs) # <<>>
               /\ runs[2] \in S /\ Tail(runs)[1] = runs[2]
               /\ runs[3] \in S /\ Tail(runs)[2] = runs[3]
<1>1. PICK n, tail : n = Len(runs) /\ tail = Tail(runs)
  OBVIOUS
<1>2. /\ n \in Nat \ {0} /\ n <= 3
      /\ Head(runs) = runs[1]
      /\ \A i \in 1 .. n : runs[i] \in S
  BY <1>1
<1>3. /\ tail \in Seq(S) /\ Len(tail) = n - 1
      /\ \A i \in 1 .. Len(tail) : tail[i] = runs[i + 1]
  BY <1>1, HeadTailProperties, Zenon
<1>4. n = 1 \/ n = 2 \/ n = 3
  <2>1. \A h \in Nat \ {0} : h <= 3 => h = 1 \/ h = 2 \/ h = 3
    OBVIOUS
  <2>2. QED
    BY <1>2, <2>1, Zenon
<1>5. runs[1] \in S
  BY <1>2
<1>6. tail # <<>> => Len(tail) \in Nat \ {0}
  BY <1>3, EmptySeq, Zenon
<1>7. tail = <<>> => Len(tail) = 0
  BY EmptySeq, Zenon
<1>8. CASE n = 1
  <2>1. Len(tail) = 0
    BY <1>3, <1>8
  <2>2. tail = <<>>
    BY <1>6, <2>1
  <2>3. QED
    BY <1>1, <1>2, <1>3, <1>5, <1>8, <2>2, Zenon
<1>9. CASE n = 2
  <2>1. Len(tail) = 1
    BY <1>3, <1>9
  <2>2. tail[1] = runs[2] /\ runs[2] \in S
    BY <1>2, <1>3, <1>9, <2>1
  <2>3. tail # <<>>
    BY <1>7, <2>1
  <2>4. QED
    BY <1>1, <1>2, <1>3, <1>5, <1>9, <2>1, <2>2, <2>3, Zenon
<1>10. CASE n = 3
  <2>1. Len(tail) = 2
    BY <1>3, <1>10
  <2>2. tail[1] = runs[2] /\ runs[2] \in S /\ tail[2] = runs[3] /\ runs[3] \in S
    BY <1>2, <1>3, <1>10, <2>1
  <2>3. tail # <<>>
    BY <1>7, <2>1
  <2>4. QED
    BY <1>1, <1>2, <1>3, <1>5, <1>10, <2>1, <2>2, <2>3, Zenon
<1>11. QED
  BY <1>4, <1>8, <1>9, <1>10

(* What is to be sent begins with the first run.                           *)
LEMMA RestOfRuns ==
  ASSUME NEW runs \in Seq(Seq(Byte)), Len(runs) <= 3, runs # <<>>
  PROVE  /\ Rest(runs) \in Seq(Byte)
         /\ Head(runs) \in Seq(Byte)
         /\ Tail(runs) \in Seq(Seq(Byte)) /\ Len(Tail(runs)) <= 2
         /\ Rest(Tail(runs)) \in Seq(Byte)
         /\ Rest(runs) = Head(runs) \o Rest(Tail(runs))
<1>1. PICK a, tail : a = Head(runs) /\ tail = Tail(runs)
  OBVIOUS
<1>2. PICK B : B = Seq(Byte)
  OBVIOUS
<1>3. /\ a = runs[1] /\ a \in B
      /\ tail \in Seq(B)
      /\ \/ Len(runs) = 1 /\ tail = <<>>
         \/ /\ Len(runs) = 2 /\ Len(tail) = 1 /\ tail # <<>>
            /\ runs[2] \in B /\ tail[1] = runs[2]
         \/ /\ Len(runs) = 3 /\ Len(tail) = 2 /\ tail # <<>>
            /\ runs[2] \in B /\ tail[1] = runs[2]
            /\ runs[3] \in B /\ tail[2] = runs[3]
  <2>1. runs \in Seq(B)
    BY <1>2
  <2>2. QED
    BY <1>1, <2>1, UpToThree, Zenon
<1>4. CASE Len(runs) = 1 /\ tail = <<>>
  <2>1. Rest(runs) = a /\ Rest(tail) = <<>>
    BY <1>3, <1>4 DEF Rest
  <2>2. a \o <<>> = a /\ <<>> \in Seq(Byte)
    BY <1>2, <1>3, ConcatEmptySeq, EmptySeq
  <2>3. Len(tail) <= 2
    BY <1>4
  <2>4. QED
    BY <1>1, <1>2, <1>3, <2>1, <2>2, <2>3, Zenon
<1>5. CASE Len(runs) = 2 /\ Len(tail) = 1 /\ tail # <<>> /\ runs[2] \in B /\ tail[1] = runs[2]
  <2>1. Rest(runs) = a \o tail[1] /\ Rest(tail) = tail[1]
    BY <1>3, <1>5 DEF Rest
  <2>2. tail[1] \in Seq(Byte)
    BY <1>2, <1>5
  <2>3. a \o tail[1] \in Seq(Byte)
    BY <1>2, <1>3, <2>2, ConcatProperties
  <2>4. Len(tail) <= 2
    BY <1>5
  <2>5. QED
    BY <1>1, <1>2, <1>3, <2>1, <2>2, <2>3, <2>4, Zenon
<1>6. CASE Len(runs) = 3 /\ Len(tail) = 2 /\ tail # <<>> /\ runs[2] \in B /\ tail[1] = runs[2]
           /\ runs[3] \in B /\ tail[2] = runs[3]
  <2>1. Rest(runs) = a \o (tail[1] \o tail[2]) /\ Rest(tail) = tail[1] \o tail[2]
    BY <1>3, <1>6, SMTT(30) DEF Rest
  <2>2. tail[1] \in Seq(Byte) /\ tail[2] \in Seq(Byte)
    BY <1>2, <1>6
  <2>3. tail[1] \o tail[2] \in Seq(Byte)
    BY <2>2, ConcatProperties
  <2>4. a \o (tail[1] \o tail[2]) \in Seq(Byte)
    BY <1>2, <1>3, <2>3, ConcatProperties
  <2>5. Len(tail) <= 2
    BY <1>6
  <2>6. QED
    BY <1>1, <1>2, <1>3, <2>1, <2>3, <2>4, <2>5, Zenon
<1>7. QED
  BY <1>3, <1>4, <1>5, <1>6, Zenon

(* The first n bytes of a sequence, and the others.                        *)
LEMMA Cut ==
  ASSUME NEW s \in Seq(Byte), NEW n \in 0 .. Len(s)
  PROVE  /\ SubSeq(s, 1, n) \in Seq(Byte) /\ SubSeq(s, n + 1, Len(s)) \in Seq(Byte)
         /\ Len(SubSeq(s, 1, n)) = n
         /\ SubSeq(s, 1, n) \o SubSeq(s, n + 1, Len(s)) = s
<1>1. Len(s) \in Nat
  BY LenProperties
<1>2. SubSeq(s, 1, n) \o SubSeq(s, n + 1, Len(s)) = SubSeq(s, 1, Len(s))
  <2>1. 1 \in 1 .. Len(s) + 1 /\ n \in 1 - 1 .. Len(s) /\ Len(s) \in n .. Len(s)
    BY <1>1
  <2>2. QED
    BY <2>1, ConcatAdjacentSubSeq
<1>3. SubSeq(s, 1, Len(s)) = s
  BY SubSeqFull
<1>4. SubSeq(s, 1, n) \in Seq(Byte) /\ Len(SubSeq(s, 1, n)) = n
  <2>1. \A i \in 1 .. n : s[i] \in Byte
    BY <1>1
  <2>2. Len(SubSeq(s, 1, n)) = IF 1 <= n THEN n - 1 + 1 ELSE 0
    BY <1>1, <2>1, SubSeqProperties
  <2>3. SubSeq(s, 1, n) \in Seq(Byte)
    BY <1>1, <2>1, SubSeqProperties
  <2>4. QED
    BY <1>1, <2>2, <2>3
<1>5. SubSeq(s, n + 1, Len(s)) \in Seq(Byte)
  <2>1. \A i \in n + 1 .. Len(s) : s[i] \in Byte
    BY <1>1
  <2>2. n + 1 \in Int /\ Len(s) \in Int
    BY <1>1
  <2>3. QED
    BY <2>1, <2>2, SubSeqProperties
<1>6. QED
  BY <1>2, <1>3, <1>4, <1>5

(* The bytes of the stream are a sequence, of which buf is the beginning.  *)
LEMMA BytesType ==
  ASSUME StreamTypes
  PROVE  /\ Rest(out) \in Seq(Byte)
         /\ wire \o Rest(out) \in Seq(Byte)
         /\ Bytes \in Seq(Byte)
         /\ Len(Bytes) = Len(buf) + Len(wire \o Rest(out))
         /\ Len(buf) \in Nat /\ Len(wire \o Rest(out)) \in Nat
         /\ \A i \in 1 .. Len(buf) : Bytes[i] = buf[i]
         /\ \A i \in 1 .. Len(wire \o Rest(out)) : Bytes[Len(buf) + i] = (wire \o Rest(out))[i]
<1>1. Rest(out) \in Seq(Byte)
  <2>1. CASE out = <<>>
    BY <2>1, EmptySeq DEF Rest
  <2>2. CASE out # <<>>
    BY <2>2, RestOfRuns DEF StreamTypes
  <2>3. QED
    BY <2>1, <2>2
<1>2. PICK t : t = wire \o Rest(out)
  OBVIOUS
<1>3. t \in Seq(Byte) /\ buf \in Seq(Byte)
  BY <1>1, <1>2, ConcatProperties DEF StreamTypes
<1>4. Bytes = buf \o t
  BY <1>2 DEF Bytes
<1>5. /\ buf \o t \in Seq(Byte)
      /\ Len(buf \o t) = Len(buf) + Len(t)
      /\ \A i \in 1 .. Len(buf) + Len(t) :
           (buf \o t)[i] = IF i <= Len(buf) THEN buf[i] ELSE t[i - Len(buf)]
  BY <1>3, ConcatProperties
<1>6. Len(buf) \in Nat /\ Len(t) \in Nat
  BY <1>3
<1>7. ASSUME NEW i \in 1 .. Len(buf) PROVE (buf \o t)[i] = buf[i]
  BY <1>5, <1>6
<1>8. ASSUME NEW i \in 1 .. Len(t) PROVE (buf \o t)[Len(buf) + i] = t[i]
  <2>1. /\ Len(buf) + i \in 1 .. Len(buf) + Len(t) /\ ~ (Len(buf) + i <= Len(buf))
        /\ (Len(buf) + i) - Len(buf) = i
    BY <1>6
  <2>2. (buf \o t)[Len(buf) + i] = t[(Len(buf) + i) - Len(buf)]
    BY <1>5, <2>1
  <2>3. QED
    BY <2>1, <2>2
<1>9. QED
  BY <1>1, <1>2, <1>3, <1>4, <1>5, <1>6, <1>7, <1>8, Zenon

(* A beginning of the bytes is of the same messages.                       *)
LEMMA LessTraffic ==
  ASSUME NEW s, NEW u, NEW whole, Traffic(s, u, whole), Len(s) \in Nat,
         NEW t, Len(t) \in 0 .. Len(s), \A i \in 1 .. Len(t) : t[i] = s[i],
         u \in Seq(Stream!Message),
         NEW still, still => whole /\ Len(t) = Len(s)
  PROVE  Traffic(t, u, still)
<1>1. PICK p : /\ Ends(u, p) /\ Carries(s, u, p)
               /\ whole => Len(s) = p[Len(u)]
  BY DEF Traffic
<1>2. PICK n, l : n = Len(u) /\ l = Len(t)
  OBVIOUS
<1>3. n \in Nat /\ l \in Nat /\ l <= Len(s)
  BY <1>2
<1>4. p \in [0 .. n -> Nat] /\ Len(s) <= p[n]
  BY <1>1, <1>2 DEF Ends, Carries
<1>5. l <= p[n]
  BY <1>3, <1>4
<1>6. ASSUME NEW i \in 1 .. n, NEW j \in 1 .. Size(u[i]), p[i - 1] + j <= l
      PROVE  t[p[i - 1] + j] = Stream!Whole(u[i])[j]
  <2>1. p[i - 1] \in Nat /\ j \in Nat \ {0}
    <3>1. i - 1 \in 0 .. n
      BY <1>3
    <3>2. u[i] \in Stream!Message
      BY <1>2, <1>3
    <3>3. Size(u[i]) \in Nat
      BY <3>2, SizeType
    <3>4. QED
      BY <1>4, <3>1, <3>3
  <2>2. p[i - 1] + j \in 1 .. l /\ p[i - 1] + j <= Len(s)
    BY <1>3, <1>6, <2>1
  <2>3. t[p[i - 1] + j] = s[p[i - 1] + j]
    BY <1>2, <2>2
  <2>4. s[p[i - 1] + j] = Stream!Whole(u[i])[j]
    BY <1>1, <1>2, <2>2, Zenon DEF Carries
  <2>5. QED
    BY <2>3, <2>4
<1>7. Carries(t, u, p)
  BY <1>2, <1>5, <1>6, Zenon DEF Carries
<1>8. still => Len(t) = p[Len(u)]
  BY <1>1
<1>9. QED
  BY <1>1, <1>7, <1>8, Zenon DEF Traffic

(* A message more is sent.                                                 *)
LEMMA MoreTraffic ==
  ASSUME NEW s \in Seq(Byte), NEW u \in Seq(Stream!Message), Traffic(s, u, TRUE),
         NEW m \in Stream!Message,
         NEW t, t = s \o Stream!Whole(m), NEW v, v = Append(u, m)
  PROVE  Traffic(t, v, TRUE)
<1>1. PICK p : /\ Ends(u, p) /\ Carries(s, u, p)
               /\ Len(s) = p[Len(u)]
  BY DEF Traffic
<1>2. PICK n, l, w : n = Len(u) /\ l = Len(s) /\ w = Stream!Whole(m)
  OBVIOUS
<1>3. n \in Nat /\ l \in Nat /\ Size(m) \in Nat \ {0} /\ w \in Seq(Byte) /\ Len(w) = Size(m)
  <2>1. Stream!Whole(m) \in Seq(Byte) /\ Len(Stream!Whole(m)) = Size(m)
    <3>1. PICK runs : runs = <<Stream!Run(m, "MsgHeader", HEADER),
                               Stream!Run(m, "VisionMessageHeader", VISION_HEADER),
                               Stream!Run(m, "content", m.len)>>
      OBVIOUS
    <3>2. QED
      BY <3>1, WholeType, Zenon
  <2>2. n \in Nat /\ l \in Nat
    BY <1>2
  <2>3. Size(m) \in Nat \ {0}
    BY SizeType
  <2>4. QED
    BY <1>2, <2>1, <2>2, <2>3
<1>4. /\ Len(t) = l + Size(m)
      /\ \A i \in 1 .. l : t[i] = s[i]
      /\ \A i \in 1 .. Size(m) : t[l + i] = w[i]
  <2>1. /\ Len(s \o w) = Len(s) + Len(w)
        /\ \A i \in 1 .. Len(s) + Len(w) :
             (s \o w)[i] = IF i <= Len(s) THEN s[i] ELSE w[i - Len(s)]
    BY <1>3, ConcatProperties
  <2>2. t = s \o w
    BY <1>2
  <2>3. /\ Len(t) = l + Size(m)
        /\ \A i \in 1 .. l + Size(m) : t[i] = IF i <= l THEN s[i] ELSE w[i - l]
    BY <1>2, <1>3, <2>1, <2>2, Zenon
  <2>4. ASSUME NEW i \in 1 .. l PROVE t[i] = s[i]
    BY <1>3, <2>3
  <2>5. ASSUME NEW i \in 1 .. Size(m) PROVE t[l + i] = w[i]
    <3>1. l + i \in 1 .. l + Size(m) /\ ~ (l + i <= l) /\ (l + i) - l = i
      BY <1>3
    <3>2. t[l + i] = w[(l + i) - l]
      BY <2>3, <3>1
    <3>3. QED
      BY <3>1, <3>2
  <2>6. QED
    BY <2>3, <2>4, <2>5
<1>5. /\ Len(v) = n + 1 /\ v[n + 1] = m
      /\ \A i \in 1 .. n : v[i] = u[i]
  BY <1>2
<1>6. /\ p \in [0 .. n -> Nat] /\ p[0] = 0 /\ p[n] = l
      /\ \A i \in 1 .. n : p[i] = p[i - 1] + Size(u[i])
      /\ \A i \in 0 .. n : \A h \in i .. n : p[i] <= p[h]
  BY <1>1, <1>2, Zenon DEF Ends
<1>7. PICK q : q = [i \in 0 .. n + 1 |-> IF i = n + 1 THEN l + Size(m) ELSE p[i]]
  OBVIOUS
<1>8. /\ q \in [0 .. n + 1 -> Nat]
      /\ q[n + 1] = l + Size(m)
      /\ \A i \in 0 .. n : q[i] = p[i]
  BY <1>3, <1>6, <1>7
<1>9. Ends(v, q)
  <2>1. q[0] = 0
    BY <1>3, <1>6, <1>8
  <2>2. ASSUME NEW i \in 1 .. n + 1
        PROVE  q[i] = q[i - 1] + Size(v[i])
    <3>1. CASE i = n + 1
      <4>1. q[i - 1] = l /\ v[i] = m
        BY <1>3, <1>5, <1>6, <1>8, <3>1
      <4>2. QED
        BY <1>3, <1>8, <3>1, <4>1
    <3>2. CASE i # n + 1
      <4>1. i \in 1 .. n /\ i \in 0 .. n /\ i - 1 \in 0 .. n
        BY <1>3, <3>2
      <4>2. q[i] = p[i] /\ q[i - 1] = p[i - 1] /\ v[i] = u[i]
        BY <1>5, <1>8, <4>1
      <4>3. QED
        BY <1>6, <4>1, <4>2
    <3>3. QED
      BY <3>1, <3>2
  <2>3. ASSUME NEW i \in 0 .. n + 1, NEW h \in i .. n + 1 PROVE q[i] <= q[h]
    <3>1. CASE h = n + 1
      <4>1. CASE i = n + 1
        BY <1>3, <1>8, <3>1, <4>1
      <4>2. CASE i # n + 1
        <5>1. i \in 0 .. n /\ n \in i .. n
          BY <1>3, <4>2
        <5>2. q[i] = p[i] /\ p[i] <= l /\ p[i] \in Nat
          BY <1>6, <1>8, <5>1
        <5>3. QED
          BY <1>3, <1>8, <3>1, <5>2
      <4>3. QED
        BY <4>1, <4>2
    <3>2. CASE h # n + 1
      <4>1. i \in 0 .. n /\ h \in i .. n /\ h \in 0 .. n
        BY <1>3, <3>2
      <4>2. QED
        BY <1>6, <1>8, <4>1
    <3>3. QED
      BY <3>1, <3>2
  <2>4. QED
    BY <1>5, <1>8, <2>1, <2>2, <2>3, Zenon DEF Ends
<1>10. Carries(t, v, q)
  <2>1. Len(t) <= q[n + 1]
    BY <1>3, <1>4, <1>8
  <2>2. ASSUME NEW i \in 1 .. n + 1, NEW j \in 1 .. Size(v[i]), q[i - 1] + j <= Len(t)
        PROVE  t[q[i - 1] + j] = Stream!Whole(v[i])[j]
    <3>1. CASE i = n + 1
      <4>1. q[i - 1] = l /\ v[i] = m
        BY <1>3, <1>5, <1>6, <1>8, <3>1
      <4>2. QED
        BY <1>2, <1>4, <4>1
    <3>2. CASE i # n + 1
      <4>1. i \in 1 .. n /\ i \in 0 .. n /\ i - 1 \in 0 .. n
        BY <1>3, <3>2
      <4>2. q[i - 1] = p[i - 1] /\ v[i] = u[i]
        BY <1>5, <1>8, <4>1
      <4>3. p[i] = p[i - 1] + Size(u[i]) /\ p[i] <= l /\ p[i] \in Nat /\ p[i - 1] \in Nat
        <5>1. n \in i .. n
          BY <1>3, <4>1
        <5>2. QED
          BY <1>6, <4>1, <5>1
      <4>4. Size(u[i]) \in Nat
        <5>1. u[i] \in Stream!Message
          BY <1>2, <4>1
        <5>2. QED
          BY <5>1, SizeType
      <4>5. j \in 1 .. Size(u[i])
        BY <4>2
      <4>6. p[i - 1] + j \in 1 .. l
        BY <1>3, <4>3, <4>4, <4>5
      <4>7. s[p[i - 1] + j] = Stream!Whole(u[i])[j]
        <5>1. p[i - 1] + j <= Len(s)
          BY <1>2, <4>6
        <5>2. QED
          BY <1>1, <1>2, <4>1, <4>5, <5>1, Zenon DEF Carries
      <4>8. QED
        BY <1>4, <4>2, <4>6, <4>7
    <3>3. QED
      BY <3>1, <3>2
  <2>3. QED
    BY <1>5, <2>1, <2>2, Zenon DEF Carries
<1>11. Len(t) = q[Len(v)]
  BY <1>4, <1>5, <1>8
<1>12. QED
  BY <1>9, <1>10, <1>11, Zenon DEF Traffic

(* An index with one below it and one above it.                            *)
LEMMA IndexBetween ==
  ASSUME NEW n \in Nat \ {0}, NEW i \in 1 .. n - 1
  PROVE  i \in 0 .. n - 1 /\ i - 1 \in 0 .. n - 1 /\ (i - 1) + 1 = i /\ (i + 1) - 1 = i /\ i + 1 \in 1 .. n
OBVIOUS

(* The first message is taken from the stream.                             *)
LEMMA TrafficTaken ==
  ASSUME NEW s, NEW u \in Seq(Stream!Message), NEW whole, Traffic(s, u, whole),
         u # <<>>, NEW z, z = Size(u[1]), Len(s) \in Nat,
         NEW t, Len(t) \in Nat, Len(s) = z + Len(t),
         \A i \in 1 .. Len(t) : t[i] = s[z + i],
         NEW v, v = Tail(u)
  PROVE  Traffic(t, v, whole)
<1>1. PICK p : /\ Ends(u, p) /\ Carries(s, u, p)
               /\ whole => Len(s) = p[Len(u)]
  BY DEF Traffic
<1>2. PICK n, l : n = Len(u) /\ l = Len(t)
  OBVIOUS
<1>3. /\ n \in Nat \ {0} /\ l \in Nat
      /\ \A i \in 1 .. n : u[i] \in Stream!Message
  BY <1>2
<1>4. /\ Len(v) = n - 1
      /\ \A i \in 1 .. n - 1 : v[i] = u[i + 1]
  BY <1>2, HeadTailProperties
<1>5. /\ p \in [0 .. n -> Nat] /\ p[0] = 0
      /\ \A i \in 1 .. n : p[i] = p[i - 1] + Size(u[i])
      /\ \A i \in 0 .. n : \A h \in i .. n : p[i] <= p[h]
  BY <1>1, <1>2, Zenon DEF Ends
<1>6. z \in Nat \ {0} /\ p[1] = z
  <2>1. 1 \in 1 .. n
    BY <1>3
  <2>2. p[1] = p[1 - 1] + Size(u[1]) /\ u[1] \in Stream!Message
    BY <1>3, <1>5, <2>1
  <2>3. Size(u[1]) \in Nat \ {0}
    BY <2>2, SizeType
  <2>4. QED
    BY <1>5, <2>2, <2>3
<1>7. \A i \in 0 .. n - 1 : p[i + 1] \in Nat /\ z <= p[i + 1]
  <2>1. SUFFICES ASSUME NEW i \in 0 .. n - 1 PROVE p[i + 1] \in Nat /\ z <= p[i + 1]
    OBVIOUS
  <2>2. 1 \in 0 .. n /\ i + 1 \in 1 .. n
    BY <1>3
  <2>3. p[1] <= p[i + 1] /\ p[i + 1] \in Nat
    BY <1>3, <1>5, <2>2
  <2>4. QED
    BY <1>6, <2>3
<1>8. PICK q : q = [i \in 0 .. n - 1 |-> p[i + 1] - z]
  OBVIOUS
<1>9. q \in [0 .. n - 1 -> Nat] /\ \A i \in 0 .. n - 1 : q[i] = p[i + 1] - z
  BY <1>6, <1>7, <1>8
<1>10. Ends(v, q)
  <2>1. q[0] = 0
    <3>1. 0 \in 0 .. n - 1 /\ 0 + 1 = 1
      BY <1>3
    <3>2. q[0] = p[1] - z
      BY <1>9, <3>1
    <3>3. QED
      BY <1>6, <3>2
  <2>2. ASSUME NEW i \in 1 .. n - 1 PROVE q[i] = q[i - 1] + Size(v[i])
    <3>1. i \in 0 .. n - 1 /\ i - 1 \in 0 .. n - 1 /\ (i - 1) + 1 = i /\ (i + 1) - 1 = i /\ i + 1 \in 1 .. n
      BY <1>3, IndexBetween
    <3>2. q[i] = p[i + 1] - z /\ q[i - 1] = p[i] - z
      BY <1>9, <3>1
    <3>3. p[i + 1] = p[i] + Size(u[i + 1])
      <4>1. p[i + 1] = p[(i + 1) - 1] + Size(u[i + 1])
        BY <1>5, <3>1, Zenon
      <4>2. QED
        BY <3>1, <4>1
    <3>4. v[i] = u[i + 1]
      BY <1>4
    <3>5. PICK y : y = Size(u[i + 1])
      OBVIOUS
    <3>6. y \in Nat
      <4>1. u[i + 1] \in Stream!Message
        BY <1>3, <3>1
      <4>2. QED
        BY <3>5, <4>1, SizeType
    <3>7. i \in 0 .. n
      BY <1>3
    <3>8. PICK b : b = p[i]
      OBVIOUS
    <3>9. b \in Nat
      BY <1>5, <3>7, <3>8
    <3>10. q[i] = (b + y) - z /\ q[i - 1] = b - z
      BY <3>2, <3>3, <3>5, <3>8
    <3>11. (b + y) - z = (b - z) + y
      BY <1>6, <3>6, <3>9
    <3>12. QED
      BY <3>4, <3>5, <3>10, <3>11
  <2>3. ASSUME NEW i \in 0 .. n - 1, NEW h \in i .. n - 1 PROVE q[i] <= q[h]
    <3>1. i + 1 \in 0 .. n /\ h + 1 \in i + 1 .. n /\ h \in 0 .. n - 1
      BY <1>3
    <3>2. p[i + 1] <= p[h + 1] /\ p[i + 1] \in Nat /\ p[h + 1] \in Nat
      BY <1>5, <1>7, <3>1
    <3>3. q[i] = p[i + 1] - z /\ q[h] = p[h + 1] - z
      BY <1>9, <3>1
    <3>4. QED
      BY <1>6, <3>2, <3>3, SMTT(30)
  <2>4. QED
    BY <1>4, <1>9, <2>1, <2>2, <2>3, Zenon DEF Ends
<1>11. Carries(t, v, q)
  <2>1. n - 1 \in 0 .. n - 1 /\ (n - 1) + 1 = n /\ 0 \in 0 .. n - 1
    BY <1>3
  <2>2. q[n - 1] = p[n] - z /\ p[n] \in Nat
    BY <1>5, <1>9, <2>1
  <2>3. Len(t) <= q[n - 1]
    <3>1. Len(s) <= p[n]
      BY <1>1, <1>2, Zenon DEF Carries
    <3>2. QED
      BY <1>6, <2>2, <3>1
  <2>4. ASSUME NEW i \in 1 .. n - 1, NEW j \in 1 .. Size(v[i]), q[i - 1] + j <= Len(t)
        PROVE  t[q[i - 1] + j] = Stream!Whole(v[i])[j]
    <3>1. i - 1 \in 0 .. n - 1 /\ (i - 1) + 1 = i /\ i + 1 \in 1 .. n /\ (i + 1) - 1 = i
      BY <1>3
    <3>2. q[i - 1] = p[i] - z /\ v[i] = u[i + 1] /\ p[i] \in Nat /\ z <= p[i]
      BY <1>4, <1>7, <1>9, <3>1
    <3>3. j \in Nat \ {0}
      <4>1. Size(v[i]) \in Nat
        BY <1>3, <3>1, <3>2, SizeType
      <4>2. QED
        BY <4>1
    <3>4. q[i - 1] + j \in 1 .. l /\ z + (q[i - 1] + j) = p[i] + j
      BY <1>2, <1>3, <1>6, <2>4, <3>2, <3>3, SMTT(30)
    <3>5. t[q[i - 1] + j] = s[p[i] + j]
      BY <1>2, <3>4
    <3>6. p[i] + j <= Len(s)
      BY <1>2, <1>3, <1>6, <3>2, <3>3, <3>4
    <3>7. s[p[(i + 1) - 1] + j] = Stream!Whole(u[i + 1])[j]
      <4>1. j \in 1 .. Size(u[i + 1]) /\ p[(i + 1) - 1] + j <= Len(s)
        BY <3>1, <3>2, <3>6
      <4>2. QED
        BY <1>1, <1>2, <3>1, <4>1, Zenon DEF Carries
    <3>8. QED
      BY <3>1, <3>2, <3>5, <3>7
  <2>5. QED
    BY <1>4, <2>3, <2>4, Zenon DEF Carries
<1>12. whole => Len(t) = q[Len(v)]
  <2>1. n - 1 \in 0 .. n - 1 /\ (n - 1) + 1 = n
    BY <1>3
  <2>2. q[n - 1] = p[n] - z
    BY <1>9, <2>1
  <2>3. QED
    BY <1>1, <1>2, <1>3, <1>4, <1>5, <1>6, <2>2, SMTT(30)
<1>13. QED
  BY <1>10, <1>11, <1>12, Zenon DEF Traffic
(* What a step of the stream leaves is as it should be.                    *)
LEMMA StreamGoesOn ==
  ASSUME StreamTypes', Reading', ~ up' => out' = <<>>,
         NEW t, t = Bytes', Traffic(t, undelivered', up')
  PROVE  StreamInv'
<1>1. Traffic(Bytes', undelivered', up')
  OBVIOUS
<1>2. Traffic(Bytes, undelivered, up)'
  BY <1>1, Zenon DEF Traffic, Ends, Carries
<1>3. QED
  BY <1>2, Zenon DEF StreamInv

(* A step that changes none of the bytes' places.                          *)
LEMMA SameBytes ==
  ASSUME StreamInv, StreamTypes', Reading', ~ up' => out' = <<>>,
         Bytes' = Bytes, undelivered' = undelivered, up' = up
  PROVE  StreamInv'
<1>1. Traffic(Bytes, undelivered, up)
  BY DEF StreamInv
<1>2. PICK t : t = Bytes'
  OBVIOUS
<1>3. Traffic(t, undelivered', up')
  BY <1>1, <1>2
<1>4. QED
  BY <1>2, <1>3, StreamGoesOn, Zenon

(* Bytes of four pieces: the middle two are one.                           *)
Regrouped(w, a, b, r) == (w \o a) \o (b \o r) = w \o ((a \o b) \o r)

(* How four pieces of the stream may be put together.                      *)
LEMMA FourPieces ==
  ASSUME NEW w \in Seq(Byte), NEW a \in Seq(Byte), NEW b \in Seq(Byte), NEW r \in Seq(Byte)
  PROVE  Regrouped(w, a, b, r)
<1>1. PICK c : c = b \o r
  OBVIOUS
<1>2. c \in Seq(Byte)
  BY <1>1, ConcatProperties
<1>3. Associates(w, a, c) /\ Associates(a, b, r)
  BY <1>2, Associative, Zenon
<1>4. QED
  BY <1>1, <1>3, Zenon DEF Regrouped, Associates

(* Sending a message puts it into the channel.                             *)
LEMMA MessageIsPut ==
  ASSUME StreamInv, Stream!InnerSend
  PROVE  /\ StreamInv'
         /\ \E m \in Stream!Message : Stream!Channel!Put(m)
<1>1. /\ up /\ out = <<>>
      /\ UNCHANGED <<up, wire, buf, total_expected, latest>>
      /\ \E m \in Stream!Message :
           /\ out' = <<Stream!Run(m, "MsgHeader", HEADER),
                       Stream!Run(m, "VisionMessageHeader", VISION_HEADER),
                       Stream!Run(m, "content", m.len)>>
           /\ undelivered' = Append(undelivered, m)
  BY Zenon DEF Stream!InnerSend
<1>2. PICK m \in Stream!Message :
           /\ out' = <<Stream!Run(m, "MsgHeader", HEADER),
                       Stream!Run(m, "VisionMessageHeader", VISION_HEADER),
                       Stream!Run(m, "content", m.len)>>
           /\ undelivered' = Append(undelivered, m)
  BY <1>1
<1>3. PICK runs, w, u, v, s, t :
        /\ runs = out' /\ w = Stream!Whole(m)
        /\ u = undelivered /\ v = undelivered' /\ s = Bytes /\ t = Bytes'
  OBVIOUS
<1>4. /\ w \in Seq(Byte) /\ runs \in Seq(Seq(Byte)) /\ Len(runs) = 3 /\ Rest(runs) = w
  <2>1. runs = <<Stream!Run(m, "MsgHeader", HEADER),
                 Stream!Run(m, "VisionMessageHeader", VISION_HEADER),
                 Stream!Run(m, "content", m.len)>>
    BY <1>2, <1>3, Zenon
  <2>2. QED
    BY <1>3, <2>1, WholeType, Zenon
<1>5. /\ buf \in Seq(Byte) /\ wire \in Seq(Byte) /\ u \in Seq(Stream!Message)
      /\ s \in Seq(Byte)
  BY <1>3, BytesType, Zenon DEF StreamInv, StreamTypes
<1>6. s = buf \o wire
  <2>1. Rest(out) = <<>>
    BY <1>1 DEF Rest
  <2>2. wire \o <<>> = wire
    BY <1>5, ConcatEmptySeq
  <2>3. QED
    BY <1>3, <2>1, <2>2, Zenon DEF Bytes
<1>7. t = buf \o (wire \o w)
  <2>1. Bytes' = buf' \o (wire' \o Rest(out'))
    BY Zenon DEF Bytes, Rest
  <2>2. QED
    BY <1>1, <1>3, <1>4, <2>1, Zenon
<1>8. t = s \o w
  <2>1. (buf \o wire) \o w = buf \o (wire \o w)
    <3>1. Associates(buf, wire, w)
      BY <1>4, <1>5, Associative, Zenon
    <3>2. QED
      BY <3>1, Zenon DEF Associates
  <2>2. QED
    BY <1>6, <1>7, <2>1
<1>9. Traffic(t, v, TRUE)
  <2>1. Traffic(s, u, TRUE)
    <3>1. Traffic(Bytes, undelivered, up) /\ up = TRUE
      BY <1>1 DEF StreamInv, StreamTypes
    <3>2. QED
      BY <1>3, <3>1, Zenon
  <2>2. v = Append(u, m)
    BY <1>2, <1>3, Zenon
  <2>3. t = s \o Stream!Whole(m)
    BY <1>3, <1>8, Zenon
  <2>4. QED
    BY <1>5, <2>1, <2>2, <2>3, MoreTraffic, Zenon
<1>10. StreamInv'
  <2>1. StreamTypes'
    <3>1. v \in Seq(Stream!Message)
      BY <1>2, <1>3, <1>5
    <3>2. out' \in Seq(Seq(Byte)) /\ Len(out') <= 3
      BY <1>3, <1>4
    <3>3. QED
      BY <1>1, <1>3, <1>5, <3>1, <3>2 DEF StreamTypes, StreamInv
  <2>2. Reading'
    BY <1>1, Zenon DEF StreamInv, Reading
  <2>3. Traffic(t, undelivered', up') /\ (~ up' => out' = <<>>)
    <3>1. up' = TRUE
      BY <1>1 DEF StreamInv, StreamTypes
    <3>2. QED
      BY <1>3, <1>9, <3>1, Zenon
  <2>4. QED
    BY <1>3, <2>1, <2>2, <2>3, StreamGoesOn, Zenon
<1>11. Stream!Channel!Put(m)
  BY <1>1, <1>2 DEF Stream!Channel!Put
<1>12. QED
  BY <1>10, <1>11
(* The smaller of two numbers.                                             *)
LEMMA MinOfPair ==
  ASSUME NEW a \in Int, NEW b \in Int
  PROVE  Stream!Min({a, b}) \in Int /\ Stream!Min({a, b}) <= a /\ Stream!Min({a, b}) <= b
<1>1. PICK x : x = IF a <= b THEN a ELSE b
  OBVIOUS
<1>2. x \in {a, b} /\ \A y \in {a, b} : x <= y
  BY <1>1
<1>3. PICK m : m = Stream!Min({a, b})
  OBVIOUS
<1>4. m \in {a, b} /\ \A y \in {a, b} : m <= y
  BY <1>2, <1>3, Zenon DEF Stream!Min
<1>5. QED
  BY <1>3, <1>4

(* Sending some bytes moves them from what is to be sent to the wire.      *)
LEMMA BytesAreSent ==
  ASSUME StreamInv, Stream!SendBytes
  PROVE  StreamInv' /\ UNCHANGED <<undelivered, latest>>
<1>1. /\ up /\ out # <<>>
      /\ \E n \in 1 .. Len(Head(out)) :
           /\ wire' = wire \o SubSeq(Head(out), 1, n)
           /\ out' = Stream!Unsent(Head(out), n) \o Tail(out)
      /\ UNCHANGED <<up, buf, total_expected, undelivered, latest>>
  BY Zenon DEF Stream!SendBytes
<1>2. PICK h, tail, runs, w : h = Head(out) /\ tail = Tail(out) /\ runs = out' /\ w = wire
  OBVIOUS
<1>3. PICK n \in 1 .. Len(h) : wire' = w \o SubSeq(h, 1, n) /\ runs = Stream!Unsent(h, n) \o tail
  BY <1>1, <1>2, Zenon
<1>4. PICK r : r = Rest(tail)
  OBVIOUS
<1>5. /\ h \in Seq(Byte) /\ tail \in Seq(Seq(Byte)) /\ Len(tail) <= 2
      /\ r \in Seq(Byte) /\ Rest(out) = h \o r
  BY <1>1, <1>2, <1>4, RestOfRuns DEF StreamInv, StreamTypes
<1>6. PICK a, b : a = SubSeq(h, 1, n) /\ b = SubSeq(h, n + 1, Len(h))
  OBVIOUS
<1>7. /\ a \in Seq(Byte) /\ b \in Seq(Byte) /\ a \o b = h
  <2>1. n \in 0 .. Len(h)
    BY <1>5
  <2>2. QED
    BY <1>5, <1>6, <2>1, Cut
<1>8. /\ runs \in Seq(Seq(Byte)) /\ Len(runs) <= 3 /\ Rest(runs) = b \o r
  <2>1. CASE n < Len(h)
    <3>1. Stream!Unsent(h, n) = <<b>>
      BY <1>6, <2>1, Zenon DEF Stream!Unsent
    <3>2. PICK B, one : B = Seq(Byte) /\ one = <<b>>
      OBVIOUS
    <3>3. one \in Seq(B) /\ Len(one) = 1 /\ one[1] = b /\ tail \in Seq(B)
      BY <1>5, <1>7, <3>2
    <3>4. runs = one \o tail
      BY <1>3, <3>1, <3>2
    <3>5. /\ runs \in Seq(B) /\ Len(runs) = 1 + Len(tail)
          /\ \A i \in 1 .. 1 + Len(tail) : runs[i] = IF i <= 1 THEN b ELSE tail[i - 1]
      <4>1. /\ one \o tail \in Seq(B)
            /\ Len(one \o tail) = Len(one) + Len(tail)
            /\ \A i \in 1 .. Len(one) + Len(tail) :
                 (one \o tail)[i] = IF i <= Len(one) THEN one[i] ELSE tail[i - Len(one)]
        BY <3>3, ConcatProperties
      <4>2. ASSUME NEW i \in 1 .. 1 + Len(tail) PROVE runs[i] = IF i <= 1 THEN b ELSE tail[i - 1]
        BY <3>3, <3>4, <4>1
      <4>3. QED
        BY <3>3, <3>4, <4>1, <4>2
    <3>6. /\ Len(tail) \in Nat /\ Len(runs) <= 3 /\ runs # <<>>
      BY <1>5, <3>5
    <3>7. Head(runs) = b
      <4>1. 1 \in 1 .. 1 + Len(tail)
        BY <3>6
      <4>2. runs[1] = b
        BY <3>5, <4>1
      <4>3. QED
        BY <3>5, <3>6, <4>2
    <3>8. Tail(runs) = tail
      <4>1. PICK rest : rest = Tail(runs)
        OBVIOUS
      <4>2. /\ rest \in Seq(B) /\ Len(rest) = Len(runs) - 1
            /\ \A i \in 1 .. Len(rest) : rest[i] = runs[i + 1]
        BY <3>5, <3>6, <4>1, HeadTailProperties, Zenon
      <4>3. Len(rest) = Len(tail)
        BY <3>5, <3>6, <4>2
      <4>4. ASSUME NEW i \in 1 .. Len(rest) PROVE rest[i] = tail[i]
        <5>1. i + 1 \in 1 .. 1 + Len(tail) /\ ~ (i + 1 <= 1) /\ (i + 1) - 1 = i
          BY <3>6, <4>3
        <5>2. runs[i + 1] = tail[(i + 1) - 1]
          BY <3>5, <5>1
        <5>3. QED
          BY <4>2, <5>1, <5>2
      <4>5. rest = tail
        BY <3>3, <4>2, <4>3, <4>4, SeqEqual
      <4>6. QED
        BY <4>1, <4>5
    <3>9. runs \in Seq(Seq(Byte))
      BY <3>2, <3>5
    <3>10. Rest(runs) = Head(runs) \o Rest(Tail(runs))
      BY <3>6, <3>9, RestOfRuns
    <3>11. QED
      BY <1>4, <3>6, <3>7, <3>8, <3>9, <3>10, Zenon
  <2>2. CASE ~ (n < Len(h))
    <3>1. n = Len(h) /\ Len(h) \in Nat
      BY <1>5, <2>2
    <3>2. Stream!Unsent(h, n) = <<>>
      BY <2>2, Zenon DEF Stream!Unsent
    <3>3. runs = tail
      <4>1. <<>> \o tail = tail
        BY <1>5, ConcatEmptySeq
      <4>2. QED
        BY <1>3, <3>2, <4>1, Zenon
    <3>4. b = <<>>
      <4>1. n + 1 \in Int /\ Len(h) \in Int /\ \A i \in n + 1 .. Len(h) : h[i] \in Byte
        BY <3>1
      <4>2. Len(SubSeq(h, n + 1, Len(h))) = IF n + 1 <= Len(h) THEN Len(h) - (n + 1) + 1 ELSE 0
        BY <4>1, SubSeqProperties
      <4>3. Len(b) = 0
        BY <1>6, <3>1, <4>2
      <4>4. QED
        BY <1>7, <4>3, EmptySeq
    <3>5. <<>> \o r = r
      BY <1>5, ConcatEmptySeq
    <3>6. Len(tail) <= 3
      BY <1>5
    <3>7. QED
      BY <1>4, <1>5, <3>3, <3>4, <3>5, <3>6, Zenon
  <2>3. QED
    BY <2>1, <2>2
<1>9. w \in Seq(Byte) /\ buf \in Seq(Byte)
  BY <1>2 DEF StreamInv, StreamTypes
<1>10. Bytes = buf \o (w \o (h \o r))
  BY <1>2, <1>5, Zenon DEF Bytes
<1>11. Bytes' = buf \o ((w \o a) \o (b \o r))
  <2>1. Bytes' = buf' \o (wire' \o Rest(out'))
    BY Zenon DEF Bytes, Rest
  <2>2. Rest(out') = b \o r /\ wire' = w \o a /\ buf' = buf
    BY <1>1, <1>2, <1>3, <1>6, <1>8, Zenon
  <2>3. QED
    BY <2>1, <2>2, Zenon
<1>12. Bytes' = Bytes
  <2>1. (w \o a) \o (b \o r) = w \o ((a \o b) \o r)
    <3>1. w \in Seq(Byte) /\ a \in Seq(Byte) /\ b \in Seq(Byte) /\ r \in Seq(Byte)
      BY <1>5, <1>7, <1>9, Zenon
    <3>2. Regrouped(w, a, b, r)
      BY <3>1, FourPieces, Zenon
    <3>3. QED
      BY <3>2, Zenon DEF Regrouped
  <2>2. QED
    BY <1>7, <1>10, <1>11, <2>1, Zenon
<1>13. StreamTypes'
  <2>1. wire' \in Seq(Byte)
    <3>1. w \o a \in Seq(Byte)
      BY <1>7, <1>9, ConcatProperties
    <3>2. QED
      BY <1>3, <1>6, <3>1, Zenon
  <2>2. out' \in Seq(Seq(Byte)) /\ Len(out') <= 3
    BY <1>2, <1>8, Zenon
  <2>3. QED
    BY <1>1, <2>1, <2>2, Zenon DEF StreamInv, StreamTypes
<1>14. Reading'
  BY <1>1, Zenon DEF StreamInv, Reading
<1>15. up' /\ undelivered' = undelivered /\ up' = up /\ latest' = latest
  BY <1>1, Zenon
<1>16. QED
  BY <1>12, <1>13, <1>14, <1>15, SameBytes, Zenon

(* Receiving some bytes moves them from the wire to the buffer.            *)
LEMMA BytesAreReceived ==
  ASSUME StreamInv, Stream!Receive
  PROVE  StreamInv' /\ UNCHANGED <<undelivered, latest>>
<1>1. /\ wire # <<>> /\ Len(buf) < total_expected
      /\ \E n \in 1 .. Stream!Min({total_expected - Len(buf), Len(wire)}) :
           /\ buf' = buf \o SubSeq(wire, 1, n)
           /\ wire' = SubSeq(wire, n + 1, Len(wire))
      /\ UNCHANGED <<up, out, total_expected, undelivered, latest>>
  BY Zenon DEF Stream!Receive, Stream!Wanted
<1>2. PICK w, c, r : w = wire /\ c = buf /\ r = Rest(out)
  OBVIOUS
<1>3. w \in Seq(Byte) /\ c \in Seq(Byte) /\ r \in Seq(Byte)
  BY <1>2, BytesType, Zenon DEF StreamInv, StreamTypes
<1>4. PICK n \in 1 .. Stream!Min({total_expected - Len(c), Len(w)}) :
        /\ buf' = c \o SubSeq(w, 1, n)
        /\ wire' = SubSeq(w, n + 1, Len(w))
  BY <1>1, <1>2, Zenon
<1>5. total_expected \in Int
  <2>1. CASE total_expected = HEADER
    BY <2>1, StreamAssumption
  <2>2. CASE Len(buf) >= HEADER /\ total_expected = Size(buf[1].of)
    <3>1. 1 \in 1 .. Len(buf)
      BY <1>2, <1>3, <2>2, StreamAssumption
    <3>2. buf[1] \in Byte
      BY <1>2, <1>3, <3>1
    <3>3. buf[1].of \in Stream!Message
      BY <3>2 DEF Byte
    <3>4. QED
      BY <2>2, <3>3, SizeType
  <2>3. QED
    BY <2>1, <2>2 DEF StreamInv, Reading
<1>6. n \in 1 .. Len(w) /\ Len(c) + n <= total_expected /\ Len(c) \in Nat /\ Len(w) \in Nat
  <2>1. PICK h, l, x : h = Len(c) /\ l = Len(w) /\ x = total_expected - h
    OBVIOUS
  <2>2. h \in Nat /\ l \in Nat /\ x \in Int
    BY <1>3, <1>5, <2>1
  <2>3. PICK m : m = Stream!Min({x, l})
    OBVIOUS
  <2>4. m \in Int /\ m <= x /\ m <= l
    <3>1. x \in Int /\ l \in Int
      BY <2>2
    <3>2. QED
      BY <2>3, <3>1, MinOfPair, Zenon
  <2>5. n \in 1 .. m
    BY <2>1, <2>3
  <2>6. QED
    BY <1>5, <2>1, <2>2, <2>4, <2>5
<1>7. PICK a, b : a = SubSeq(w, 1, n) /\ b = SubSeq(w, n + 1, Len(w))
  OBVIOUS
<1>8. a \in Seq(Byte) /\ b \in Seq(Byte) /\ Len(a) = n /\ a \o b = w
  <2>1. n \in 0 .. Len(w)
    BY <1>6
  <2>2. QED
    BY <1>3, <1>7, <2>1, Cut
<1>9. /\ c \o a \in Seq(Byte) /\ Len(c \o a) = Len(c) + n
      /\ Len(c) # 0 => (c \o a)[1] = c[1]
  <2>1. /\ c \o a \in Seq(Byte) /\ Len(c \o a) = Len(c) + Len(a)
        /\ \A i \in 1 .. Len(c) + Len(a) :
             (c \o a)[i] = IF i <= Len(c) THEN c[i] ELSE a[i - Len(c)]
    BY <1>3, <1>8, ConcatProperties
  <2>2. ASSUME Len(c) # 0 PROVE 1 \in 1 .. Len(c) + Len(a) /\ 1 <= Len(c)
    BY <1>6, <1>8, <2>2
  <2>3. ASSUME Len(c) # 0 PROVE (c \o a)[1] = c[1]
    BY <2>1, <2>2, <2>3
  <2>4. QED
    BY <1>8, <2>1, <2>3
<1>10. Bytes' = Bytes
  <2>1. Bytes = c \o ((a \o b) \o r)
    BY <1>2, <1>8, Zenon DEF Bytes
  <2>2. Bytes' = (c \o a) \o (b \o r)
    <3>1. Bytes' = buf' \o (wire' \o Rest(out'))
      BY Zenon DEF Bytes, Rest
    <3>2. QED
      BY <1>1, <1>2, <1>4, <1>7, <3>1, Zenon
  <2>3. (c \o a) \o (b \o r) = c \o ((a \o b) \o r)
    <3>1. c \in Seq(Byte) /\ a \in Seq(Byte) /\ b \in Seq(Byte) /\ r \in Seq(Byte)
      BY <1>3, <1>8, Zenon
    <3>2. Regrouped(c, a, b, r)
      BY <3>1, FourPieces, Zenon
    <3>3. QED
      BY <3>2, Zenon DEF Regrouped
  <2>4. QED
    BY <2>1, <2>2, <2>3, Zenon
<1>11. buf' = c \o a /\ wire' = b
  BY <1>4, <1>7, Zenon
<1>12. StreamTypes'
  BY <1>1, <1>8, <1>9, <1>11, Zenon DEF StreamInv, StreamTypes
<1>13. Reading'
  <2>1. PICK d : d = buf'
    OBVIOUS
  <2>2. d = c \o a
    BY <1>11, <2>1
  <2>3. Len(d) = Len(c) + n /\ (Len(c) # 0 => d[1] = c[1])
    BY <1>9, <2>2
  <2>4. Len(d) <= total_expected
    BY <1>6, <2>3
  <2>5. total_expected = HEADER \/ (Len(d) >= HEADER /\ total_expected = Size(d[1].of))
    <3>1. CASE Len(c) >= HEADER /\ total_expected = Size(c[1].of)
      <4>1. Len(c) # 0 /\ Len(d) >= HEADER
        BY <1>6, <2>3, <3>1, StreamAssumption
      <4>2. d[1] = c[1]
        BY <2>3, <4>1
      <4>3. QED
        BY <3>1, <4>1, <4>2
    <3>2. QED
      BY <1>2, <3>1 DEF StreamInv, Reading
  <2>6. QED
    BY <1>1, <2>1, <2>4, <2>5, Zenon DEF Reading, Size
<1>14. (~ up' => out' = <<>>) /\ undelivered' = undelivered /\ up' = up /\ latest' = latest
  BY <1>1, Zenon DEF StreamInv
<1>15. QED
  BY <1>10, <1>12, <1>13, <1>14, SameBytes, Zenon
(* What has been received begins the stream.                               *)
LEMMA FirstByte ==
  ASSUME StreamInv, Len(buf) # 0
  PROVE  /\ undelivered # <<>>
         /\ buf[1].of = Head(undelivered)
         /\ Head(undelivered) \in Stream!Message
         /\ Len(buf) \in Nat
<1>1. PICK s, u, c : s = Bytes /\ u = undelivered /\ c = buf
  OBVIOUS
<1>2. /\ s \in Seq(Byte) /\ u \in Seq(Stream!Message) /\ c \in Seq(Byte)
      /\ Len(c) \in Nat /\ Len(c) <= Len(s)
      /\ \A i \in 1 .. Len(c) : s[i] = c[i]
  <2>1. StreamTypes
    BY DEF StreamInv
  <2>2. PICK x, y : x = Len(wire \o Rest(out)) /\ y = Len(buf)
    OBVIOUS
  <2>3. /\ s \in Seq(Byte) /\ Len(s) = y + x /\ y \in Nat /\ x \in Nat
        /\ \A i \in 1 .. y : s[i] = c[i]
    BY <1>1, <2>1, <2>2, BytesType, Zenon
  <2>4. y <= Len(s)
    BY <2>3
  <2>5. QED
    BY <1>1, <2>1, <2>2, <2>3, <2>4, Zenon DEF StreamTypes
<1>3. PICK p : Ends(u, p) /\ Carries(s, u, p)
  <2>1. Traffic(s, u, up)
    BY <1>1, Zenon DEF StreamInv
  <2>2. QED
    BY <2>1 DEF Traffic
<1>4. PICK n : n = Len(u)
  OBVIOUS
<1>5. n \in Nat /\ p[0] = 0 /\ Len(s) <= p[n]
  BY <1>2, <1>3, <1>4 DEF Ends, Carries
<1>6. Len(c) # 0
  BY <1>1
<1>7. n # 0
  BY <1>2, <1>5, <1>6
<1>8. u # <<>> /\ Head(u) = u[1] /\ u[1] \in Stream!Message
  BY <1>2, <1>4, <1>5, <1>7
<1>9. PICK m : m = u[1]
  OBVIOUS
<1>10. Size(m) \in Nat \ {0} /\ m \in Stream!Message
  BY <1>8, <1>9, SizeType
<1>11. s[1] = Stream!Whole(m)[1]
  <2>1. 1 \in 1 .. n /\ 1 \in 1 .. Size(m) /\ 1 - 1 = 0 /\ p[1 - 1] + 1 = 1 /\ 1 <= Len(s)
    BY <1>2, <1>5, <1>6, <1>7, <1>10
  <2>2. s[p[1 - 1] + 1] = Stream!Whole(u[1])[1]
    BY <1>3, <1>4, <1>9, <2>1, Zenon DEF Carries
  <2>3. QED
    BY <1>9, <2>1, <2>2
<1>12. Stream!Whole(m)[1].of = m
  <2>1. PICK runs : runs = <<Stream!Run(m, "MsgHeader", HEADER),
                             Stream!Run(m, "VisionMessageHeader", VISION_HEADER),
                             Stream!Run(m, "content", m.len)>>
    OBVIOUS
  <2>2. QED
    BY <1>10, <2>1, WholeType, Zenon
<1>13. s[1] = c[1]
  <2>1. 1 \in 1 .. Len(c)
    BY <1>2, <1>6
  <2>2. QED
    BY <1>2, <2>1
<1>14. QED
  BY <1>1, <1>2, <1>8, <1>9, <1>10, <1>11, <1>12, <1>13, Zenon

(* When the header is there it is known how much to wait for.              *)
LEMMA HeaderIsTaken ==
  ASSUME StreamInv, Stream!ReadHeader
  PROVE  StreamInv' /\ UNCHANGED <<undelivered, latest>>
<1>1. /\ Len(buf) >= HEADER /\ ~ (total_expected > HEADER)
      /\ total_expected' = HEADER + VISION_HEADER + buf[1].of.len
      /\ UNCHANGED <<up, out, wire, buf, undelivered, latest>>
  BY Zenon DEF Stream!ReadHeader, Stream!HeaderIsRead
<1>2. Len(buf) \in Nat
  BY LenProperties DEF StreamInv, StreamTypes
<1>3. Len(buf) # 0
  BY <1>1, <1>2, StreamAssumption
<1>4. PICK m : m = buf[1].of
  OBVIOUS
<1>5. m \in Stream!Message
  BY <1>3, <1>4, FirstByte
<1>6. total_expected' = Size(m)
  BY <1>1, <1>4 DEF Size
<1>7. PICK l, z : l = m.len /\ z = Size(m)
  OBVIOUS
<1>8. l \in Nat /\ z = HEADER + VISION_HEADER + l /\ z \in Nat
  BY <1>5, <1>7, SizeType DEF Size
<1>9. Len(buf) <= HEADER
  BY <1>1, <1>4, <1>7, <1>8, StreamAssumption DEF StreamInv, Reading
<1>10. Len(buf) <= z
  BY <1>2, <1>8, <1>9, StreamAssumption
<1>11. Reading'
  <2>1. Len(buf') <= total_expected' /\ Len(buf') >= HEADER /\ total_expected' = Size(buf'[1].of)
    BY <1>1, <1>4, <1>6, <1>7, <1>10, Zenon
  <2>2. QED
    BY <2>1, Zenon DEF Reading, Size
<1>12. StreamTypes' /\ Bytes' = Bytes
  BY <1>1, Zenon DEF StreamTypes, StreamInv, Bytes, Rest
<1>13. (~ up' => out' = <<>>) /\ undelivered' = undelivered /\ up' = up /\ latest' = latest
  BY <1>1, Zenon DEF StreamInv
<1>14. QED
  BY <1>11, <1>12, <1>13, SameBytes, Zenon

(* What is complete is the first message, and is got from the channel.     *)
LEMMA MessageIsGot ==
  ASSUME StreamInv, Stream!Dispatch
  PROVE  StreamInv' /\ Stream!Channel!Get
<1>1. /\ total_expected > HEADER /\ Len(buf) >= total_expected
      /\ latest' = buf[1].of
      /\ undelivered' = IF undelivered # <<>> /\ buf = Stream!Whole(Head(undelivered))
                          THEN Tail(undelivered) ELSE undelivered
      /\ buf' = <<>> /\ total_expected' = HEADER
      /\ UNCHANGED <<up, out, wire>>
  BY Zenon DEF Stream!Dispatch, Stream!HeaderIsRead
<1>2. PICK c, u, r, s : c = buf /\ u = undelivered /\ r = wire \o Rest(out) /\ s = Bytes
  OBVIOUS
<1>3. /\ c \in Seq(Byte) /\ u \in Seq(Stream!Message) /\ r \in Seq(Byte) /\ s \in Seq(Byte)
      /\ s = c \o r
      /\ Len(s) = Len(c) + Len(r) /\ Len(c) \in Nat /\ Len(r) \in Nat
      /\ \A i \in 1 .. Len(c) : s[i] = c[i]
      /\ \A i \in 1 .. Len(r) : s[Len(c) + i] = r[i]
  <2>1. StreamTypes
    BY DEF StreamInv
  <2>2. s = c \o r
    BY <1>2, Zenon DEF Bytes
  <2>3. QED
    BY <1>2, <2>1, <2>2, BytesType, Zenon DEF StreamTypes
<1>4. Len(c) # 0
  BY <1>1, <1>2, <1>3, StreamAssumption DEF StreamInv, Reading
<1>5. PICK m : m = Head(u)
  OBVIOUS
<1>6. u # <<>> /\ c[1].of = m /\ m \in Stream!Message
  BY <1>2, <1>4, <1>5, FirstByte, Zenon
<1>7. m = u[1] /\ Len(u) \in Nat \ {0}
  BY <1>3, <1>5, <1>6
<1>8. PICK z : z = Size(m)
  OBVIOUS
<1>9. z \in Nat \ {0}
  BY <1>6, <1>8, SizeType
<1>10. Len(c) = z
  <2>1. total_expected = z
    <3>1. total_expected # HEADER
      BY <1>1, StreamAssumption
    <3>2. total_expected = Size(buf[1].of)
      BY <3>1 DEF StreamInv, Reading
    <3>3. QED
      BY <1>2, <1>6, <1>8, <3>2, Zenon
  <2>2. Len(c) <= total_expected /\ Len(c) >= total_expected
    BY <1>1, <1>2 DEF StreamInv, Reading
  <2>3. QED
    BY <1>3, <1>9, <2>1, <2>2
<1>11. PICK w : w = Stream!Whole(m)
  OBVIOUS
<1>12. w \in Seq(Byte) /\ Len(w) = z
  <2>1. PICK runs : runs = <<Stream!Run(m, "MsgHeader", HEADER),
                             Stream!Run(m, "VisionMessageHeader", VISION_HEADER),
                             Stream!Run(m, "content", m.len)>>
    OBVIOUS
  <2>2. QED
    BY <1>6, <1>8, <1>11, <2>1, WholeType, Zenon
<1>13. Traffic(s, u, up)
  BY <1>2, Zenon DEF StreamInv
<1>14. PICK p : Ends(u, p) /\ Carries(s, u, p)
  BY <1>13 DEF Traffic
<1>15. c = w
  <2>1. p[0] = 0
    BY <1>14, Zenon DEF Ends
  <2>2. ASSUME NEW j \in 1 .. z PROVE c[j] = w[j]
    <3>1. 1 \in 1 .. Len(u) /\ 1 - 1 = 0 /\ p[1 - 1] + j = j /\ j \in 1 .. Len(c) /\ j <= Len(s)
      BY <1>3, <1>7, <1>9, <1>10, <2>1
    <3>2. s[p[1 - 1] + j] = Stream!Whole(u[1])[j]
      <4>1. j \in 1 .. Size(u[1]) /\ p[1 - 1] + j <= Len(s)
        BY <1>7, <1>8, <3>1
      <4>2. QED
        BY <1>14, <3>1, <4>1, Zenon DEF Carries
    <3>3. QED
      BY <1>3, <1>7, <1>11, <3>1, <3>2
  <2>3. QED
    BY <1>3, <1>10, <1>12, <2>2, SeqEqual
<1>16. undelivered' = Tail(u) /\ latest' = Head(u)
  BY <1>1, <1>2, <1>5, <1>6, <1>11, <1>15, Zenon
<1>17. Stream!Channel!Get
  BY <1>2, <1>6, <1>16, Zenon DEF Stream!Channel!Get
<1>18. Bytes' = r
  <2>1. Bytes' = buf' \o (wire' \o Rest(out'))
    BY Zenon DEF Bytes, Rest
  <2>2. Bytes' = <<>> \o r
    BY <1>1, <1>2, <2>1, Zenon
  <2>3. <<>> \o r = r
    BY <1>3, ConcatEmptySeq
  <2>4. QED
    BY <2>2, <2>3, Zenon
<1>19. Traffic(r, undelivered', up')
  <2>1. Len(s) = z + Len(r) /\ \A i \in 1 .. Len(r) : r[i] = s[z + i]
    BY <1>3, <1>10
  <2>2. Len(s) \in Nat
    BY <1>3
  <2>3. PICK v : v = Tail(u)
    OBVIOUS
  <2>4. Traffic(r, v, up)
    <3>1. z = Size(u[1]) /\ Len(r) \in Nat /\ u \in Seq(Stream!Message) /\ u # <<>>
      BY <1>3, <1>6, <1>7, <1>8, Zenon
    <3>2. QED
      BY <1>13, <2>1, <2>2, <2>3, <3>1, TrafficTaken, Zenon
  <2>5. QED
    BY <1>1, <1>16, <2>3, <2>4, Zenon
<1>20. StreamTypes'
  <2>1. Tail(u) \in Seq(Stream!Message)
    BY <1>3, <1>6
  <2>2. <<>> \in Seq(Byte)
    OBVIOUS
  <2>3. QED
    BY <1>1, <1>16, <2>1, <2>2, Zenon DEF StreamInv, StreamTypes
<1>21. Reading'
  <2>1. Len(<<>>) <= HEADER
    BY StreamAssumption
  <2>2. QED
    BY <1>1, <2>1, Zenon DEF Reading
<1>22. ~ up' => out' = <<>>
  BY <1>1, Zenon DEF StreamInv
<1>23. QED
  BY <1>17, <1>18, <1>19, <1>20, <1>21, <1>22, StreamGoesOn, Zenon

(* When the connection breaks, or the server is at the end of what it can  *)
(* get, the bytes end early.                                               *)
LEMMA BytesEndEarly ==
  ASSUME StreamInv, Stream!ConnectionBreaks \/ Stream!Terminated
  PROVE  StreamInv' /\ UNCHANGED <<undelivered, latest>>
<1>1. /\ ~ up' /\ out' = <<>>
      /\ UNCHANGED <<wire, undelivered, latest>>
      /\ \/ UNCHANGED <<buf, total_expected>>
         \/ buf' = <<>> /\ wire = <<>> /\ total_expected' = HEADER
      /\ up' \in BOOLEAN
  <2>1. up \in BOOLEAN /\ (~ up => out = <<>>)
    BY Zenon DEF StreamInv, StreamTypes
  <2>2. CASE Stream!ConnectionBreaks
    <3>1. up' = FALSE /\ out' = <<>> /\ UNCHANGED <<wire, undelivered, latest, buf, total_expected>>
      BY <2>2, Zenon DEF Stream!ConnectionBreaks
    <3>2. QED
      BY <3>1
  <2>3. CASE Stream!Terminated
    <3>1. /\ ~ up /\ wire = <<>> /\ buf' = <<>> /\ total_expected' = HEADER
          /\ up' = up /\ out' = out /\ UNCHANGED <<wire, undelivered, latest>>
      BY <2>3, Zenon DEF Stream!Terminated
    <3>2. QED
      BY <2>1, <3>1
  <2>4. QED
    BY <2>2, <2>3, Zenon
<1>2. PICK s, t, u : s = Bytes /\ t = Bytes' /\ u = undelivered
  OBVIOUS
<1>3. StreamTypes
  BY DEF StreamInv
<1>4. wire \in Seq(Byte) /\ wire \o <<>> = wire
  BY <1>3, ConcatEmptySeq DEF StreamTypes
<1>5. t = buf' \o wire
  <2>1. Bytes' = buf' \o (wire' \o Rest(out'))
    BY Zenon DEF Bytes, Rest
  <2>2. Rest(out') = <<>>
    BY <1>1, Zenon DEF Rest
  <2>3. QED
    BY <1>1, <1>2, <1>4, <2>1, <2>2, Zenon
<1>6. PICK x, r : r = Rest(out) /\ x = Len(wire \o Rest(out))
  OBVIOUS
<1>7. /\ s \in Seq(Byte) /\ Len(s) = Len(buf) + x /\ Len(buf) \in Nat /\ x \in Nat
      /\ r \in Seq(Byte)
      /\ s = buf \o (wire \o r)
  BY <1>2, <1>3, <1>6, BytesType, Zenon DEF Bytes
<1>8. Len(t) \in 0 .. Len(s) /\ \A i \in 1 .. Len(t) : t[i] = s[i]
  <2>1. CASE buf' = <<>> /\ wire = <<>>
    <3>1. t = <<>>
      <4>1. <<>> \o <<>> = <<>>
        BY <1>4, <2>1
      <4>2. QED
        BY <1>5, <2>1, <4>1, Zenon
    <3>2. Len(t) = 0
      BY <3>1
    <3>3. QED
      BY <1>7, <3>2
  <2>2. CASE buf' = buf
    <3>1. PICK c, w : c = buf /\ w = wire
      OBVIOUS
    <3>2. c \in Seq(Byte) /\ w \in Seq(Byte)
      BY <1>3, <3>1 DEF StreamTypes
    <3>3. t = c \o w /\ s = c \o (w \o r)
      BY <1>5, <1>7, <2>2, <3>1, Zenon
    <3>4. s = t \o r
      <4>1. (c \o w) \o r = c \o (w \o r)
        <5>1. c \in Seq(Byte) /\ w \in Seq(Byte) /\ r \in Seq(Byte)
          BY <1>7, <3>2, Zenon
        <5>2. Associates(c, w, r)
          BY <5>1, Associative, Zenon
        <5>3. QED
          BY <5>2, Zenon DEF Associates
      <4>2. QED
        BY <3>3, <4>1, Zenon
    <3>5. t \in Seq(Byte)
      <4>1. c \o w \in Seq(Byte)
        BY <3>2, ConcatProperties
      <4>2. QED
        BY <3>3, <4>1
    <3>6. /\ Len(t \o r) = Len(t) + Len(r)
          /\ \A i \in 1 .. Len(t) + Len(r) : (t \o r)[i] = IF i <= Len(t) THEN t[i] ELSE r[i - Len(t)]
      BY <1>7, <3>5, ConcatProperties
    <3>7. Len(t) \in Nat /\ Len(r) \in Nat
      BY <1>7, <3>5, LenProperties
    <3>8. Len(t) \in 0 .. Len(s)
      BY <3>4, <3>6, <3>7
    <3>9. ASSUME NEW i \in 1 .. Len(t) PROVE t[i] = s[i]
      <4>1. i \in 1 .. Len(t) + Len(r) /\ i <= Len(t)
        BY <3>7
      <4>2. QED
        BY <3>4, <3>6, <4>1
    <3>10. QED
      BY <3>8, <3>9
  <2>3. QED
    BY <1>1, <2>1, <2>2
<1>9. Traffic(t, undelivered', up')
  <2>1. Traffic(s, u, up) /\ u \in Seq(Stream!Message)
    BY <1>2, <1>3, Zenon DEF StreamInv, StreamTypes
  <2>2. Len(s) \in Nat
    BY <1>7
  <2>3. PICK still : still = FALSE
    OBVIOUS
  <2>4. Traffic(t, u, FALSE)
    BY <1>8, <2>1, <2>2, LessTraffic
  <2>5. up' = FALSE /\ undelivered' = u
    BY <1>1, <1>2, Zenon
  <2>6. QED
    BY <2>4, <2>5, Zenon
<1>10. StreamTypes'
  <2>1. <<>> \in Seq(Byte) /\ <<>> \in Seq(Seq(Byte)) /\ Len(<<>>) <= 3
    OBVIOUS
  <2>2. QED
    BY <1>1, <1>3, <2>1, Zenon DEF StreamTypes
<1>11. Reading'
  <2>1. Len(<<>>) <= HEADER
    BY StreamAssumption
  <2>2. QED
    BY <1>1, <2>1, Zenon DEF Reading, StreamInv
<1>12. QED
  BY <1>1, <1>2, <1>9, <1>10, <1>11, StreamGoesOn, Zenon
(* Nothing is on the way at first.                                         *)
LEMMA StreamBegins ==
  ASSUME Stream!Init
  PROVE  StreamInv /\ Stream!Channel!Init
<1>1. /\ up = TRUE /\ out = <<>> /\ wire = <<>> /\ buf = <<>>
      /\ total_expected = HEADER /\ undelivered = <<>>
      /\ latest \in [frame : {0}, len : ContentLength]
  BY Zenon DEF Stream!Init
<1>2. /\ <<>> \in Seq(Byte) /\ <<>> \in Seq(Seq(Byte)) /\ <<>> \in Seq(Stream!Message)
      /\ Len(<<>>) = 0 /\ Len(<<>>) <= 3 /\ Len(<<>>) <= HEADER
  BY StreamAssumption
<1>3. StreamTypes
  BY <1>1, <1>2, Zenon DEF StreamTypes
<1>4. Reading
  BY <1>1, <1>2, Zenon DEF Reading
<1>5. Bytes = <<>>
  <2>1. <<>> \o <<>> = <<>>
    BY <1>2, ConcatEmptySeq
  <2>2. QED
    BY <1>1, <2>1, Zenon DEF Bytes, Rest
<1>6. Traffic(<<>>, <<>>, TRUE)
  <2>1. PICK p : p = [i \in 0 .. 0 |-> 0]
    OBVIOUS
  <2>2. p \in [0 .. 0 -> Nat] /\ p[0] = 0
    BY <2>1
  <2>3. Ends(<<>>, p)
    BY <1>2, <2>2 DEF Ends
  <2>4. Carries(<<>>, <<>>, p)
    BY <1>2, <2>2 DEF Carries
  <2>5. Len(<<>>) = p[Len(<<>>)]
    BY <1>2, <2>2
  <2>6. QED
    BY <2>3, <2>4, <2>5, Zenon DEF Traffic
<1>7. Traffic(Bytes, undelivered, up) /\ (~ up => out = <<>>)
  BY <1>1, <1>5, <1>6, Zenon
<1>8. latest \in Stream!Message
  BY <1>1, StreamAssumption DEF Stream!Message
<1>9. QED
  BY <1>1, <1>3, <1>4, <1>7, <1>8, Zenon DEF StreamInv, Stream!Channel!Init

(* A step of the service or of the server is one of the channel, or none.  *)
LEMMA StreamNext ==
  ASSUME StreamInv, Stream!Next
  PROVE  StreamInv' /\ [Stream!Channel!Next]_<<undelivered, latest>>
<1>1. \/ Stream!InnerSend \/ Stream!SendBytes \/ Stream!Receive \/ Stream!ReadHeader
      \/ Stream!Dispatch \/ (Stream!ConnectionBreaks \/ Stream!Terminated)
  BY Zenon DEF Stream!Next, Stream!Service, Stream!readDataFrom
<1>2. CASE Stream!InnerSend
  BY <1>2, MessageIsPut, Zenon DEF Stream!Channel!Next
<1>3. CASE Stream!SendBytes
  BY <1>3, BytesAreSent, Zenon
<1>4. CASE Stream!Receive
  BY <1>4, BytesAreReceived, Zenon
<1>5. CASE Stream!ReadHeader
  BY <1>5, HeaderIsTaken, Zenon
<1>6. CASE Stream!Dispatch
  BY <1>6, MessageIsGot, Zenon DEF Stream!Channel!Next
<1>7. CASE Stream!ConnectionBreaks \/ Stream!Terminated
  BY <1>7, BytesEndEarly, Zenon
<1>8. QED
  BY <1>1, <1>2, <1>3, <1>4, <1>5, <1>6, <1>7, Zenon

(* The messages inner_send cuts into runs of bytes, sendBytes into what    *)
(* the socket takes and recv into what it has, come out whole, in order    *)
(* and each once, wherever the connection breaks.                          *)
THEOREM StreamIsChannel == SurroundingsSpec => ImplementsChannel
<1> DEFINE all == <<machine, vars, configuration, postFilter, replay, sceneView, stream>>
           here == <<undelivered, latest>>
<1>1. SurroundingsInit => StreamInv /\ Stream!Channel!Init
  BY StreamBegins, Zenon DEF SurroundingsInit
<1>2. StreamInv /\ [SurroundingsNext]_all => StreamInv' /\ [Stream!Channel!Next]_here
  <2> SUFFICES ASSUME StreamInv, [SurroundingsNext]_all
               PROVE  StreamInv' /\ [Stream!Channel!Next]_here
    OBVIOUS
  <2>1. Stream!Next \/ UNCHANGED stream
    BY Zenon DEF SurroundingsNext, RunMixture, RunConfiguration, RunPostFilter, RunReplay, RunWindow,
           RunStream
  <2>2. CASE UNCHANGED stream
    <3>1. UNCHANGED <<up, out, wire, buf, total_expected, undelivered, latest>>
      BY <2>2, Zenon DEF stream
    <3>2. StreamTypes' /\ Reading' /\ Bytes' = Bytes /\ (~ up' => out' = <<>>)
      BY <3>1, Zenon DEF StreamInv, StreamTypes, Reading, Bytes, Rest
    <3>3. QED
      BY <3>1, <3>2, SameBytes, Zenon
  <2>3. QED
    BY <2>1, <2>2, StreamNext, Zenon
<1>3. QED
  BY <1>1, <1>2, PTL
     DEF SurroundingsSpec, ImplementsChannel, Stream!ImplementsChannel, Stream!Channel!Spec

-----------------------------------------------------------------------------
(* The low-pass filter of points.                                          *)

(* What a value has risen to after r frames in a row with a point, or has  *)
(* faded to after -r without one.                                          *)
Least(r) ==
  IF r = 1 THEN 100 ELSE IF r = 2 THEN 190 ELSE IF r = 3 THEN 271
  ELSE IF r = 4 THEN 343 ELSE 408

Most(r) ==
  IF r = -1 THEN 900 ELSE IF r = -2 THEN 810 ELSE IF r = -3 THEN 729
  ELSE IF r = -4 THEN 656 ELSE IF r = -5 THEN 590 ELSE IF r = -6 THEN 531
  ELSE IF r = -7 THEN 477 ELSE IF r = -8 THEN 429 ELSE 386

Follows(v, r) ==
  /\ v \in 0 .. 1000 /\ r \in (-9 .. 9) \ {0}
  /\ r > 0 => Least(r) <= v
  /\ r < 0 => v <= Most(r)

(* The value that is kept for a cell, and that of a cell unknown.          *)
ValueOf(c) == IF c \in Pt1!Known THEN all_points[c] ELSE 0

LowPassInv ==
  machine = "pt1" =>
    /\ kind = "pt1"
    /\ DOMAIN run = Pt1Cell
    /\ \A c \in Pt1Cell :
         /\ Follows(ValueOf(c), run[c])
         /\ c \in filtered <=> ValueOf(c) >= 400

(* A value fades by a tenth, rounded down, which a point makes up for.     *)
Fades(v, y) ==
  /\ y \in Nat
  /\ 10 * y <= 9 * v /\ 9 * v < 10 * y + 10
  /\ v <= y + 100 /\ y + 100 <= 1000

(* What a value that fades becomes, in whole numbers.                      *)
LEMMA FadedBounds ==
  ASSUME NEW v, v \in 0 .. 1000, NEW y, y = Pt1!Faded(v)
  PROVE  Fades(v, y)
<1>1. y = (9 * v) \div 10
  BY DEF Pt1!Faded
<1>2. y \in Nat /\ 10 * y <= 9 * v /\ 9 * v < 10 * y + 10
  BY <1>1
<1>3. QED
  BY <1>2 DEF Fades

(* What points make of a value: at least what one does.                    *)
Risen(v, w) == w \in (Pt1!Faded(v) + 100) .. 1000

(* Every point raises it, none above 1000.                                 *)
LEMMA RaisedBounds ==
  ASSUME NEW v \in 0 .. 1000, NEW n \in Nat, n > 0
  PROVE  Risen(v, Pt1!Raised(v, n))
<1> DEFINE V        == 0 .. 1000
           advance     == [e \in (1 .. n) \X V |-> Pt1!Faded(e[2]) + 100]
           After(f) == f = [i \in 0 .. n |-> IF i = 0 THEN v ELSE Pt1!Faded(f[i - 1]) + 100]
<1>1. advance \in [(1 .. n) \X V -> V]
  <2>1. \A x \in V : Pt1!Faded(x) + 100 \in V
    <3>1. SUFFICES ASSUME NEW x \in 0 .. 1000 PROVE Pt1!Faded(x) + 100 \in 0 .. 1000
      OBVIOUS
    <3>2. PICK y : y = Pt1!Faded(x)
      OBVIOUS
    <3>3. y \in Nat /\ y + 100 <= 1000
      <4>1. Fades(x, y)
        BY <3>1, <3>2, FadedBounds, ZenonT(40)
      <4>2. QED
        BY <4>1, ZenonT(40) DEF Fades
    <3>4. QED
      BY <3>2, <3>3
  <2> HIDE DEF V
  <2>2. QED
    BY <2>1
<1>2. PICK g : /\ g \in [0 .. n -> V]
               /\ g[0] = v
               /\ \A i \in 1 .. n : g[i] = advance[<<i, g[i - 1]>>]
  <2>1. Recursive(v, advance, n, V)
    BY <1>1 DEF Recursive
  <2> HIDE DEF advance, V
  <2>2. \E g : Computes(g, v, advance, n, V)
    BY <2>1, Recursion
  <2>3. QED
    BY <2>2 DEF Computes
<1>3. ASSUME NEW i \in 1 .. n PROVE g[i] = Pt1!Faded(g[i - 1]) + 100 /\ g[i - 1] \in V
  <2>1. g[i - 1] \in V /\ g[i] = advance[<<i, g[i - 1]>>]
    <3> HIDE DEF advance, V
    <3>1. i - 1 \in 0 .. n
      OBVIOUS
    <3>2. QED
      BY <1>2, <3>1
  <2> DEFINE b == g[i - 1]
  <2>2. <<i, b>> \in (1 .. n) \X V /\ <<i, b>>[2] = b
    BY <2>1
  <2> HIDE DEF b
  <2>3. advance[<<i, b>>] = Pt1!Faded(b) + 100
    BY <2>2, ZenonT(40)
  <2>4. QED
    BY <2>1, <2>3 DEF b
<1>4. After(g)
  <2> HIDE DEF advance, V
  <2>1. g = [i \in 0 .. n |-> g[i]]
    BY <1>2
  <2>2. \A i \in 0 .. n : g[i] = IF i = 0 THEN v ELSE Pt1!Faded(g[i - 1]) + 100
    BY <1>2, <1>3
  <2>3. QED
    BY <2>1, <2>2, Zenon
<1>5. ASSUME NEW f, After(f) PROVE f[n] \in (Pt1!Faded(v) + 100) .. 1000
  <2>1. DOMAIN f = 0 .. n /\ \A i \in 0 .. n : f[i] = IF i = 0 THEN v ELSE Pt1!Faded(f[i - 1]) + 100
    BY <1>5, Zenon
  <2>2. f[0] = v /\ \A i \in 1 .. n : f[i] = Pt1!Faded(f[i - 1]) + 100
    BY <2>1
  <2> DEFINE Bad == {i \in 1 .. n : f[i] \notin (Pt1!Faded(v) + 100) .. 1000}
  <2>3. Bad = {}
    <3>1. SUFFICES ASSUME Bad # {} PROVE FALSE
      OBVIOUS
    <3>2. PICK i \in Bad : \A j \in Bad : i <= j
      <4>1. Bad \in SUBSET Nat
        OBVIOUS
      <4> HIDE DEF Bad
      <4>2. QED
        BY <3>1, <4>1, NatHasMin
    <3>3. i \in 1 .. n /\ f[i] \notin (Pt1!Faded(v) + 100) .. 1000
      BY <3>2
    <3>4. PICK low, x : low = Pt1!Faded(v) + 100 /\ x = f[i - 1]
      OBVIOUS
    <3>5. low \in Nat /\ low <= 1000
      <4>1. PICK y : y = Pt1!Faded(v)
        OBVIOUS
      <4>2. y \in Nat /\ y + 100 <= 1000
        <5>1. Fades(v, y)
          BY <4>1, FadedBounds, Zenon
        <5>2. QED
          BY <5>1, ZenonT(40) DEF Fades
      <4>3. QED
        BY <3>4, <4>1, <4>2
    <3>6. CASE i = 1
      <4>1. f[i] = low
        BY <2>2, <3>3, <3>4, <3>6
      <4>2. QED
        BY <3>3, <3>4, <3>5, <4>1
    <3>7. CASE i # 1
      <4>1. i - 1 \in 1 .. n /\ i - 1 \notin Bad
        BY <3>2, <3>3, <3>7
      <4>2. x \in low .. 1000
        BY <3>4, <4>1
      <4>3. PICK y : y = Pt1!Faded(x)
        OBVIOUS
      <4>4. f[i] = y + 100
        BY <2>2, <3>3, <3>4, <4>3
      <4>5. f[i] \in low .. 1000
        <5>1. x \in 0 .. 1000
          BY <3>5, <4>2
        <5>2. y \in Nat /\ x <= y + 100 /\ y + 100 <= 1000
          <6>1. Fades(x, y)
            BY <4>3, <5>1, FadedBounds, ZenonT(40)
          <6>2. QED
            BY <6>1, Zenon DEF Fades
        <5>3. QED
          BY <3>5, <4>2, <4>4, <5>1, <5>2
      <4>6. QED
        BY <3>3, <3>4, <4>5
    <3>8. QED
      BY <3>6, <3>7
  <2>4. n \in 1 .. n /\ n \notin Bad
    BY <2>3
  <2>5. QED
    BY <2>4
<1>6. After(CHOOSE f : After(f))
  BY <1>4, Zenon
<1>7. Pt1!Raised(v, n) = (CHOOSE f : After(f))[n]
  BY Zenon DEF Pt1!Raised
<1> HIDE DEF After
<1>8. PICK h : h = CHOOSE f : After(f)
  OBVIOUS
<1>9. After(h) /\ Pt1!Raised(v, n) = h[n]
  BY <1>6, <1>7, <1>8, Zenon
<1>10. h[n] \in (Pt1!Faded(v) + 100) .. 1000
  BY <1>5, <1>9, Zenon
<1>11. QED
  BY <1>9, <1>10, ZenonT(40) DEF Risen

(* What a further frame with a point makes of a value.                     *)
LEMMA RisesOn ==
  ASSUME NEW v, NEW r, Follows(v, r), NEW w, Risen(v, w),
         NEW q, q = IF r < 0 THEN 1 ELSE IF r < 9 THEN r + 1 ELSE 9
  PROVE  Follows(w, q)
<1>1. PICK y : y = Pt1!Faded(v)
  OBVIOUS
<1>2. v \in 0 .. 1000 /\ r \in (-9 .. 9) \ {0}
  BY DEF Follows
<1>3. y \in Nat /\ 9 * v < 10 * y + 10 /\ w \in (y + 100) .. 1000
  <2>1. Fades(v, y)
    BY <1>1, <1>2, FadedBounds, Zenon
  <2>2. QED
    BY <1>1, <2>1, Zenon DEF Risen, Fades
<1>4. w \in 0 .. 1000 /\ w >= 100
  BY <1>3
<1>5. CASE r < 0
  BY <1>4, <1>5 DEF Follows, Least
<1>6. CASE r = 1
  BY <1>2, <1>3, <1>4, <1>6 DEF Follows, Least
<1>7. CASE r = 2
  BY <1>2, <1>3, <1>4, <1>7 DEF Follows, Least
<1>8. CASE r = 3
  BY <1>2, <1>3, <1>4, <1>8 DEF Follows, Least
<1>9. CASE r = 4
  BY <1>2, <1>3, <1>4, <1>9 DEF Follows, Least
<1>10. CASE r > 4
  BY <1>2, <1>3, <1>4, <1>10 DEF Follows, Least
<1>11. QED
  BY <1>2, <1>5, <1>6, <1>7, <1>8, <1>9, <1>10

(* And what one without a point makes of it.                               *)
LEMMA FadesOn ==
  ASSUME NEW v, NEW r, Follows(v, r), NEW w, w = Pt1!Faded(v),
         NEW q, q = IF r > 0 THEN -1 ELSE IF r > -9 THEN r - 1 ELSE -9
  PROVE  Follows(w, q)
<1>1. PICK y : y = w
  OBVIOUS
<1>2. v \in 0 .. 1000 /\ r \in (-9 .. 9) \ {0}
  BY DEF Follows
<1>3. y \in Nat /\ 10 * y <= 9 * v
  <2>1. Fades(v, y)
    BY <1>1, <1>2, FadedBounds, Zenon
  <2>2. QED
    BY <2>1, Zenon DEF Fades
<1>4. y \in 0 .. 1000 /\ y <= 900
  BY <1>2, <1>3, SMTT(30)
<1>5. CASE r > 0
  <2>1. Follows(y, -1)
    BY <1>4 DEF Follows, Most
  <2>2. QED
    BY <1>1, <1>5, <2>1
<1>6. ASSUME r < 0 PROVE v <= Most(r)
  BY <1>6 DEF Follows
<1>7. CASE r < 0
  <2>1. r \in -9 .. -1
    BY <1>2, <1>7
  <2>2. q = IF r > -9 THEN r - 1 ELSE -9
    BY <2>1
  <2>3. q \in -9 .. -2 /\ y <= Most(q)
    <3>1. CASE r = -1
      BY <1>2, <1>3, <1>6, <1>7, <2>2, <3>1 DEF Most
    <3>2. CASE r = -2
      BY <1>2, <1>3, <1>6, <1>7, <2>2, <3>2 DEF Most
    <3>3. CASE r = -3
      BY <1>2, <1>3, <1>6, <1>7, <2>2, <3>3 DEF Most
    <3>4. CASE r = -4
      BY <1>2, <1>3, <1>6, <1>7, <2>2, <3>4 DEF Most
    <3>5. CASE r = -5
      BY <1>2, <1>3, <1>6, <1>7, <2>2, <3>5 DEF Most
    <3>6. CASE r = -6
      BY <1>2, <1>3, <1>6, <1>7, <2>2, <3>6 DEF Most
    <3>7. CASE r = -7
      BY <1>2, <1>3, <1>6, <1>7, <2>2, <3>7 DEF Most
    <3>8. CASE r = -8
      BY <1>2, <1>3, <1>6, <1>7, <2>2, <3>8 DEF Most
    <3>9. CASE r = -9
      BY <1>2, <1>3, <1>6, <1>7, <2>2, <3>9 DEF Most
    <3>10. QED
      BY <2>1, <3>1, <3>2, <3>3, <3>4, <3>5, <3>6, <3>7, <3>8, <3>9
  <2>4. q \in (-9 .. 9) \ {0} /\ ~ (q > 0)
    BY <2>3
  <2>5. Follows(y, q)
    BY <1>4, <2>3, <2>4 DEF Follows
  <2>6. QED
    BY <1>1, <1>7, <2>1, <2>2, <2>5
<1>8. QED
  BY <1>2, <1>5, <1>7
(* The frames in a row are counted, up to RUN of them.                     *)
LEMMA RunCount ==
  ASSUME NEW r \in (-9 .. 9) \ {0}
  PROVE  /\ (IF r < 0 THEN 1 ELSE Pt1!Min({r + 1, Pt1!RUN}))
              = (IF r < 0 THEN 1 ELSE IF r < 9 THEN r + 1 ELSE 9)
         /\ (IF r > 0 THEN -1 ELSE Pt1!Max({r - 1, - Pt1!RUN}))
              = (IF r > 0 THEN -1 ELSE IF r > -9 THEN r - 1 ELSE -9)
<1>1. PICK x, y : x = r + 1 /\ y = r - 1
  OBVIOUS
<1>2. x \in Int /\ y \in Int /\ Pt1!RUN = 9
  BY <1>1 DEF Pt1!RUN
<1>3. Pt1!Min({x, 9}) = IF x <= 9 THEN x ELSE 9
  <2>1. PICK m : m = IF x <= 9 THEN x ELSE 9
    OBVIOUS
  <2>2. m \in {x, 9} /\ \A z \in {x, 9} : m <= z
    BY <1>2, <2>1
  <2>3. PICK n : n = Pt1!Min({x, 9})
    OBVIOUS
  <2>4. n \in {x, 9} /\ \A z \in {x, 9} : n <= z
    BY <2>2, <2>3, Zenon DEF Pt1!Min
  <2>5. QED
    BY <1>2, <2>3, <2>4
<1>4. Pt1!Max({y, -9}) = IF y >= -9 THEN y ELSE -9
  <2>1. PICK h : h = -9
    OBVIOUS
  <2>2. PICK m : m = IF y >= h THEN y ELSE h
    OBVIOUS
  <2>3. m \in {y, h} /\ \A z \in {y, h} : m >= z
    BY <1>2, <2>1, <2>2
  <2>4. PICK n : n = Pt1!Max({y, h})
    OBVIOUS
  <2>5. n \in {y, h} /\ \A z \in {y, h} : n >= z
    BY <2>3, <2>4, Zenon DEF Pt1!Max
  <2>6. QED
    BY <1>2, <2>1, <2>4, <2>5
<1>5. CASE r < 0
  <2>1. ~ (r > 0) /\ (r > -9 <=> y >= -9) /\ (r = -9 \/ r > -9)
    BY <1>1, <1>5
  <2>2. PICK q : q = Pt1!Max({y, -9})
    OBVIOUS
  <2>3. q = IF r > -9 THEN y ELSE -9
    BY <1>4, <2>1, <2>2
  <2>4. Pt1!Max({r - 1, - Pt1!RUN}) = q
    BY <1>1, <1>2, <2>2, Zenon
  <2>5. QED
    BY <1>1, <1>5, <2>1, <2>3, <2>4
<1>6. CASE r > 0
  <2>1. ~ (r < 0) /\ (r < 9 <=> x <= 9)
    BY <1>1, <1>6
  <2>2. PICK q : q = Pt1!Min({x, 9})
    OBVIOUS
  <2>3. q = IF r < 9 THEN x ELSE 9
    BY <1>3, <2>1, <2>2
  <2>4. Pt1!Min({r + 1, Pt1!RUN}) = q
    BY <1>1, <1>2, <2>2, Zenon
  <2>5. QED
    BY <1>1, <1>6, <2>1, <2>3, <2>4
<1>7. QED
  BY <1>5, <1>6

(* A frame of the filtered source: a value rises in it or fades.           *)
LEMMA FilterNext ==
  ASSUME LowPassInv, machine = "pt1", machine' = machine, Pt1!Next
  PROVE  LowPassInv'
<1>1. /\ kind = "pt1" /\ DOMAIN run = Pt1Cell
      /\ \A c \in Pt1Cell : Follows(ValueOf(c), run[c])
  BY DEF LowPassInv
<1>2. PICK frame_1 \in [Pt1Cell -> 0 .. MaxPoints], posed \in BOOLEAN :
        /\ Pt1!ProbFrame(Pt1!Passing(frame_1, posed)) \/ Pt1!Pt1Frame(Pt1!Passing(frame_1, posed))
        /\ kind' = kind
  BY Zenon DEF Pt1!Next, Pt1!UpdateFrame, Pt1!Frames
<1>3. PICK f : f = Pt1!Passing(frame_1, posed)
  OBVIOUS
<1>4. \A c \in Pt1Cell : f[c] \in Int /\ (f[c] > 0 => f[c] \in Nat)
  <2>1. f = [c \in Pt1Cell |-> IF posed THEN frame_1[c] ELSE 0]
    BY <1>3, Zenon DEF Pt1!Passing
  <2>2. QED
    BY <1>2, <2>1
<1>5. PICK K : K = Pt1!Known
  OBVIOUS
<1>6. PICK keys : keys = K \cup Pt1!ThisFrame(f)
  OBVIOUS
<1>7. /\ all_points' = [c \in keys |-> Pt1!Value(f, c)]
      /\ filtered' = {c \in keys : Pt1!Value(f, c) >= 400}
      /\ run' = [c \in Pt1Cell |->
           IF f[c] > 0 THEN (IF run[c] < 0 THEN 1 ELSE Pt1!Min({run[c] + 1, Pt1!RUN}))
           ELSE (IF run[c] > 0 THEN -1 ELSE Pt1!Max({run[c] - 1, - Pt1!RUN}))]
  <2>1. Pt1!Pt1Frame(f)
    <3>1. ~ Pt1!ProbFrame(f)
      BY <1>1 DEF Pt1!ProbFrame
    <3>2. QED
      BY <1>2, <1>3, <3>1, Zenon
  <2>2. QED
    BY <1>5, <1>6, <2>1, Zenon DEF Pt1!Pt1Frame
<1>8. ASSUME NEW c \in Pt1Cell
      PROVE  /\ Follows(ValueOf(c)', run'[c])
             /\ c \in filtered' <=> ValueOf(c)' >= 400
  <2>1. PICK v, r, w, q : v = ValueOf(c) /\ r = run[c] /\ w = ValueOf(c)' /\ q = run'[c]
    OBVIOUS
  <2>2. Follows(v, r) /\ v \in 0 .. 1000 /\ r \in (-9 .. 9) \ {0}
    BY <1>1, <2>1 DEF Follows
  <2>3. q = IF f[c] > 0 THEN (IF r < 0 THEN 1 ELSE Pt1!Min({r + 1, Pt1!RUN}))
            ELSE (IF r > 0 THEN -1 ELSE Pt1!Max({r - 1, - Pt1!RUN}))
    BY <1>7, <2>1, Zenon
  <2>4. w = IF c \in keys THEN Pt1!Value(f, c) ELSE 0
    BY <1>7, <2>1, Zenon DEF ValueOf, Pt1!Known
  <2>5. c \in keys => Pt1!Value(f, c) = IF f[c] > 0 THEN Pt1!Raised(v, f[c]) ELSE Pt1!Faded(v)
    BY <1>5, <2>1, Zenon DEF Pt1!Value, ValueOf
  <2>6. c \in keys <=> c \in K \/ f[c] > 0
    BY <1>6, Zenon DEF Pt1!ThisFrame
  <2>7. CASE f[c] > 0
    <3>1. f[c] \in Nat
      BY <1>4, <2>7
    <3>2. w = Pt1!Raised(v, f[c])
      BY <2>4, <2>5, <2>6, <2>7, Zenon
    <3>3. Risen(v, w)
      <4>1. PICK n : n = f[c]
        OBVIOUS
      <4>2. n \in Nat /\ n > 0 /\ w = Pt1!Raised(v, n)
        BY <2>7, <3>1, <3>2, <4>1
      <4>3. Risen(v, Pt1!Raised(v, n))
        BY <2>2, <4>2, RaisedBounds
      <4>4. QED
        BY <4>2, <4>3, Zenon
    <3>4. q = IF r < 0 THEN 1 ELSE IF r < 9 THEN r + 1 ELSE 9
      BY <2>2, <2>3, <2>7, RunCount, Zenon
    <3>5. Follows(w, q)
      BY <2>2, <3>3, <3>4, RisesOn, Zenon
    <3>6. c \in filtered' <=> w >= 400
      BY <1>7, <2>4, <2>6, <2>7, Zenon
    <3>7. QED
      BY <2>1, <3>5, <3>6, Zenon
  <2>8. CASE ~ (f[c] > 0)
    <3>1. w = Pt1!Faded(v)
      <4>1. CASE c \in K
        BY <2>4, <2>5, <2>6, <2>8, <4>1, Zenon
      <4>2. CASE c \notin K
        <5>1. v = 0 /\ w = 0
          BY <1>5, <2>1, <2>4, <2>6, <2>8, <4>2, Zenon DEF ValueOf
        <5>2. QED
          BY <5>1 DEF Pt1!Faded
      <4>3. QED
        BY <4>1, <4>2
    <3>2. q = IF r > 0 THEN -1 ELSE IF r > -9 THEN r - 1 ELSE -9
      BY <2>2, <2>3, <2>8, RunCount, Zenon
    <3>3. Follows(w, q)
      BY <2>2, <3>1, <3>2, FadesOn, Zenon
    <3>4. c \in filtered' <=> w >= 400
      <4>1. CASE c \in keys
        BY <1>7, <2>4, <4>1, Zenon
      <4>2. CASE c \notin keys
        <5>1. w = 0 /\ c \notin filtered'
          BY <1>7, <2>4, <4>2, Zenon
        <5>2. QED
          BY <5>1
      <4>3. QED
        BY <4>1, <4>2
    <3>5. QED
      BY <2>1, <3>3, <3>4, Zenon
  <2>9. QED
    BY <2>7, <2>8
<1>9. DOMAIN run' = Pt1Cell /\ kind' = "pt1"
  BY <1>1, <1>2, <1>7, Zenon
<1>10. QED
  BY <1>8, <1>9, Zenon DEF LowPassInv

(* A cell that has points is included in the fifth frame in a row at the   *)
(* latest, and one that has none is dropped in the ninth: after k frames   *)
(* the value has risen above, or faded below, what is enough.              *)
THEOREM FilterFollows == SurroundingsSpec => []LowPassFollows
<1> DEFINE all == <<machine, vars, configuration, postFilter, replay, sceneView, stream>>
<1>1. SurroundingsInit => LowPassInv
  <2> SUFFICES ASSUME SurroundingsInit, machine = "pt1" PROVE LowPassInv
    BY DEF LowPassInv
  <2>1. Pt1!Init
    BY Zenon DEF SurroundingsInit
  <2>2. /\ kind \in {"pt1"} /\ all_points = [c \in {} |-> 0] /\ filtered = {}
        /\ run = [c \in Pt1Cell |-> - Pt1!RUN]
    BY <2>1, Zenon DEF Pt1!Init
  <2>3. DOMAIN run = Pt1Cell /\ \A c \in Pt1Cell : run[c] = -9
    BY <2>2 DEF Pt1!RUN
  <2>4. ASSUME NEW c \in Pt1Cell PROVE ValueOf(c) = 0
    BY <2>2 DEF ValueOf, Pt1!Known
  <2>5. Follows(0, -9)
    BY DEF Follows, Most
  <2>6. \A c \in Pt1Cell : Follows(ValueOf(c), run[c])
    BY <2>3, <2>4, <2>5, Zenon
  <2>7. \A c \in Pt1Cell : c \in filtered <=> ValueOf(c) >= 400
    BY <2>2, <2>4
  <2>8. QED
    BY <2>2, <2>3, <2>6, <2>7 DEF LowPassInv
<1>2. LowPassInv /\ [SurroundingsNext]_all => LowPassInv'
  <2> SUFFICES ASSUME LowPassInv, [SurroundingsNext]_all PROVE LowPassInv'
    OBVIOUS
  <2>1. \/ machine = "pt1" /\ machine' = machine /\ Pt1!Next
        \/ machine # "pt1" /\ machine' = machine
        \/ UNCHANGED <<machine, postFilter>>
    BY DEF SurroundingsNext, RunMixture, RunConfiguration, RunPostFilter, RunReplay, RunWindow,
           RunStream
  <2>2. CASE machine = "pt1" /\ machine' = machine /\ Pt1!Next
    BY <2>2, FilterNext
  <2>3. CASE machine # "pt1" /\ machine' = machine
    BY <2>3 DEF LowPassInv
  <2>4. CASE UNCHANGED <<machine, postFilter>>
    <3>1. UNCHANGED <<machine, kind, all_points, filtered, run>>
      BY <2>4, Zenon DEF postFilter
    <3>2. \A c : ValueOf(c)' = ValueOf(c)
      BY <3>1, Zenon DEF ValueOf, Pt1!Known
    <3>3. QED
      BY <3>1, <3>2 DEF LowPassInv
  <2>5. QED
    BY <2>1, <2>2, <2>3, <2>4
<1>3. LowPassInv => LowPassFollows
  <2> SUFFICES ASSUME LowPassInv, machine = "pt1", NEW c \in Pt1Cell
               PROVE  /\ run[c] >= 5 => c \in filtered
                      /\ run[c] <= - Pt1!RUN => c \notin filtered
    BY Zenon DEF LowPassFollows, Pt1!LowPassFollows
  <2>1. PICK v, r : v = ValueOf(c) /\ r = run[c]
    OBVIOUS
  <2>2. Follows(v, r) /\ (c \in filtered <=> v >= 400)
    BY <2>1, Zenon DEF LowPassInv
  <2>3. v \in 0 .. 1000 /\ r \in (-9 .. 9) \ {0}
    BY <2>2 DEF Follows
  <2>4. ASSUME r >= 5 PROVE v >= 408
    BY <2>2, <2>3, <2>4 DEF Follows, Least
  <2>5. ASSUME r <= -9 PROVE v <= 386
    <3>1. r = -9
      BY <2>3, <2>5
    <3>2. QED
      BY <2>2, <3>1 DEF Follows, Most
  <2>6. QED
    BY <2>1, <2>2, <2>3, <2>4, <2>5 DEF Pt1!RUN
<1>4. QED
  BY <1>1, <1>2, <1>3, PTL DEF SurroundingsSpec

-----------------------------------------------------------------------------
(* The points of the last frames, and the words that remember them.        *)

(* The bits of a word below a place.                                       *)
Lower(h, j) == {i \in h : i < j}

(* A word has, below every place, at least as many bits as another.        *)
Dominates(h, s) ==
  \A j \in 0 .. WIDTH : Cardinality(Lower(s, j)) <= Cardinality(Lower(h, j))

(* And for every bit of it the other has one that is as low.               *)
Covers(h, s) == \A i \in h : \E l \in s : l <= i

(* A history that follows what was seen in the last frames.                *)
Tells(h, s) ==
  /\ h \in SUBSET (0 .. WIDTH - 1) /\ s \in SUBSET (0 .. WIDTH - 1)
  /\ Dominates(h, s) /\ Covers(h, s)

(* The words that a history is a set of bits of are finite.                *)
LEMMA LowerIsFinite ==
  ASSUME NEW h \in SUBSET (0 .. WIDTH - 1), NEW j
  PROVE  /\ IsFiniteSet(h) /\ IsFiniteSet(Lower(h, j))
         /\ Cardinality(h) \in Nat /\ Cardinality(Lower(h, j)) \in Nat
<1>1. IsFiniteSet(0 .. WIDTH - 1)
  BY FilterAssumption, FS_Interval
<1>2. IsFiniteSet(h)
  BY <1>1, FS_Subset
<1>3. IsFiniteSet(Lower(h, j))
  <2>1. Lower(h, j) \subseteq h
    BY Zenon DEF Lower
  <2>2. QED
    BY <1>2, <2>1, FS_Subset
<1>4. QED
  BY <1>2, <1>3, FS_CardinalityType

(* No bit is below the first place.                                       *)
LEMMA NoneBelow == ASSUME NEW h \in SUBSET (0 .. WIDTH - 1) PROVE Lower(h, 0) = {}
<1>1. \A i \in h : ~ (i < 0)
  BY FilterAssumption
<1>2. QED
  BY <1>1 DEF Lower

(* The bits below a place are those that were below the one before it, and *)
(* perhaps the lowest.                                                     *)
LEMMA LowerOfShifted ==
  ASSUME NEW h \in SUBSET (0 .. WIDTH - 1), NEW low \in BOOLEAN, NEW j \in 1 .. WIDTH
  PROVE  Cardinality(Lower(Prob!Shifted(h, low), j))
           = Cardinality(Lower(h, j - 1)) + IF low THEN 1 ELSE 0
<1> DEFINE A    == Lower(h, j - 1)
           Up   == {i + 1 : i \in A}
           next == [i \in A |-> i + 1]
<1>1. A \in SUBSET (0 .. WIDTH - 1) /\ A \in SUBSET (0 .. j - 2) /\ IsFiniteSet(A)
  <2>1. IsFiniteSet(A)
    BY LowerIsFinite
  <2>2. \A i \in A : i \in h /\ i < j - 1
    BY DEF Lower
  <2>3. \A i \in 0 .. WIDTH - 1 : i < j - 1 => i \in 0 .. j - 2
    BY FilterAssumption
  <2> HIDE DEF A
  <2>4. QED
    BY <2>1, <2>2, <2>3
<1>2. Cardinality(Up) = Cardinality(A) /\ IsFiniteSet(Up)
  <2>1. next \in Bijection(A, Up)
    <3>1. next \in [A -> Up]
      OBVIOUS
    <3>2. \A a, b \in A : next[a] = next[b] => a = b
      <4> HIDE DEF A
      <4>1. SUFFICES ASSUME NEW a \in A, NEW b \in A, a + 1 = b + 1 PROVE a = b
        OBVIOUS
      <4>2. a \in Int /\ b \in Int
        BY <1>1
      <4>3. QED
        BY <4>1, <4>2
    <3>3. \A c \in Up : \E a \in A : next[a] = c
      OBVIOUS
    <3> HIDE DEF A, Up, next
    <3>4. next \in Injection(A, Up)
      BY <3>1, <3>2, Zenon DEF Injection, IsInjective
    <3>5. next \in Surjection(A, Up)
      BY <3>1, <3>3, Zenon DEF Surjection
    <3>6. QED
      BY <3>4, <3>5, Zenon DEF Bijection
  <2>2. ExistsBijection(A, Up)
    BY <2>1, Zenon DEF ExistsBijection
  <2>3. QED
    BY <1>1, <2>2, FS_Bijection, Zenon
<1>3. 0 \notin Up
  BY <1>1
<1>4. Lower(Prob!Shifted(h, low), j) = IF low THEN Up \cup {0} ELSE Up
  <2>1. ASSUME NEW x \in Lower(Prob!Shifted(h, low), j) PROVE x \in IF low THEN Up \cup {0} ELSE Up
    <3>1. x \in 0 .. WIDTH - 1 /\ x < j /\ IF x = 0 THEN low ELSE x - 1 \in h
      BY <2>1, Zenon DEF Lower, Prob!Shifted
    <3>2. CASE x = 0
      BY <3>1, <3>2
    <3>3. CASE x # 0
      <4>1. x - 1 \in A /\ x = (x - 1) + 1
        BY FilterAssumption, <3>1, <3>3 DEF Lower
      <4> HIDE DEF A
      <4>2. x \in Up
        BY <4>1
      <4>3. QED
        BY <4>2
    <3>4. QED
      BY <3>2, <3>3
  <2>2. ASSUME NEW x, x \in IF low THEN Up \cup {0} ELSE Up
        PROVE  x \in Lower(Prob!Shifted(h, low), j)
    <3>1. CASE x \in Up
      <4>1. PICK i \in A : x = i + 1
        BY <3>1
      <4>2. i \in h /\ i \in 0 .. j - 2
        BY <1>1, <4>1 DEF Lower
      <4>3. x \in 0 .. WIDTH - 1 /\ x < j /\ x # 0 /\ x - 1 \in h
        BY FilterAssumption, <4>1, <4>2
      <4>4. QED
        BY <4>3, Zenon DEF Lower, Prob!Shifted
    <3>2. CASE low /\ x = 0
      <4>1. 0 \in 0 .. WIDTH - 1 /\ 0 < j
        BY FilterAssumption
      <4>2. QED
        BY <3>2, <4>1, Zenon DEF Lower, Prob!Shifted
    <3>3. QED
      BY <2>2, <3>1, <3>2
  <2> HIDE DEF Up
  <2>3. QED
    BY <2>1, <2>2
<1> HIDE DEF Up
<1>5. Cardinality(Up \cup {0}) = Cardinality(Up) + 1
  BY <1>2, <1>3, FS_AddElement, Zenon
<1>6. Cardinality(A) \in Nat
  BY <1>1, FS_CardinalityType
<1> HIDE DEF A
<1>7. CASE low
  BY <1>2, <1>4, <1>5, <1>6, <1>7 DEF A
<1>8. CASE ~ low
  BY <1>2, <1>4, <1>6, <1>8 DEF A
<1>9. QED
  BY <1>7, <1>8

(* A frame that is entered in both words keeps the history telling.        *)
LEMMA BothShifted ==
  ASSUME NEW h, NEW s, Tells(h, s), NEW low \in BOOLEAN
  PROVE  Tells(Prob!Shifted(h, low), Prob!Shifted(s, low))
<1>1. PICK g, t : g = Prob!Shifted(h, low) /\ t = Prob!Shifted(s, low)
  OBVIOUS
<1>2. h \in SUBSET (0 .. WIDTH - 1) /\ s \in SUBSET (0 .. WIDTH - 1)
  BY Zenon DEF Tells
<1>3. g \in SUBSET (0 .. WIDTH - 1) /\ t \in SUBSET (0 .. WIDTH - 1)
  BY <1>1, Zenon DEF Prob!Shifted
<1>4. ASSUME NEW j \in 0 .. WIDTH PROVE Cardinality(Lower(t, j)) <= Cardinality(Lower(g, j))
  <2>1. CASE j = 0
    <3>1. Lower(t, j) = {} /\ Lower(g, j) = {}
      BY <1>3, <2>1, NoneBelow, Zenon
    <3>2. Cardinality({}) \in Nat
      BY FS_EmptySet
    <3>3. QED
      BY <3>1, <3>2
  <2>2. CASE j # 0
    <3>1. j \in 1 .. WIDTH /\ j - 1 \in 0 .. WIDTH
      BY FilterAssumption, <2>2
    <3>2. PICK a, b : a = Cardinality(Lower(h, j - 1)) /\ b = Cardinality(Lower(s, j - 1))
      OBVIOUS
    <3>3. b <= a /\ a \in Nat /\ b \in Nat
      <4>1. b <= a
        BY <3>1, <3>2, Zenon DEF Tells, Dominates
      <4>2. QED
        BY <1>2, <3>2, <4>1, LowerIsFinite, Zenon
    <3>4. PICK d : d = IF low THEN 1 ELSE 0
      OBVIOUS
    <3>5. Cardinality(Lower(g, j)) = a + d /\ Cardinality(Lower(t, j)) = b + d
      BY <1>1, <1>2, <3>1, <3>2, <3>4, LowerOfShifted, Zenon
    <3>6. QED
      BY <3>3, <3>4, <3>5
  <2>3. QED
    BY <2>1, <2>2
<1>5. ASSUME NEW i \in g PROVE \E l \in t : l <= i
  <2>1. i \in 0 .. WIDTH - 1 /\ IF i = 0 THEN low ELSE i - 1 \in h
    BY <1>1, <1>5, Zenon DEF Prob!Shifted
  <2>2. CASE i = 0
    <3>1. i \in t /\ i <= i
      BY <1>1, <2>1, <2>2 DEF Prob!Shifted
    <3>2. QED
      BY <3>1
  <2>3. CASE i # 0
    <3>1. i - 1 \in h
      BY <2>1, <2>3
    <3>2. PICK l \in s : l <= i - 1
      BY <3>1, Zenon DEF Tells, Covers
    <3>3. PICK m : m = l + 1
      OBVIOUS
    <3>4. m \in 0 .. WIDTH - 1 /\ m # 0 /\ m - 1 = l /\ m <= i
      BY FilterAssumption, <1>2, <2>1, <3>2, <3>3
    <3>5. m \in t
      BY <1>1, <3>2, <3>4, Zenon DEF Prob!Shifted
    <3>6. QED
      BY <3>4, <3>5
  <2>4. QED
    BY <2>2, <2>3
<1>6. Dominates(g, t)
  BY <1>4, Zenon DEF Dominates
<1>7. Covers(g, t)
  BY <1>5, Zenon DEF Covers
<1>8. QED
  BY <1>1, <1>3, <1>6, <1>7, Zenon DEF Tells

(* A further point shifts out at most the bit that it sets.                *)
LEMMA PointAgain ==
  ASSUME NEW h, NEW s, Tells(h, s), 0 \in s
  PROVE  Tells(Prob!Shifted(h, TRUE), s)
<1>1. PICK g : g = Prob!Shifted(h, TRUE)
  OBVIOUS
<1>2. h \in SUBSET (0 .. WIDTH - 1) /\ s \in SUBSET (0 .. WIDTH - 1)
  BY Zenon DEF Tells
<1>3. g \in SUBSET (0 .. WIDTH - 1)
  BY <1>1, Zenon DEF Prob!Shifted
<1>4. ASSUME NEW j \in 0 .. WIDTH PROVE Cardinality(Lower(s, j)) <= Cardinality(Lower(g, j))
  <2>1. CASE j = 0
    <3>1. Lower(s, j) = {} /\ Lower(g, j) = {}
      BY <1>2, <1>3, <2>1, NoneBelow, Zenon
    <3>2. Cardinality({}) \in Nat
      BY FS_EmptySet
    <3>3. QED
      BY <3>1, <3>2
  <2>2. CASE j # 0
    <3>1. j \in 1 .. WIDTH
      BY FilterAssumption, <2>2
    <3>2. PICK i : i = j - 1
      OBVIOUS
    <3>3. i \in Int /\ j = i + 1 /\ ~ (i < i)
      BY <3>1, <3>2
    <3>4. PICK a, b, c : /\ a = Cardinality(Lower(h, i)) /\ b = Cardinality(Lower(s, j))
                         /\ c = Cardinality(Lower(h, j))
      OBVIOUS
    <3>5. b <= c /\ a \in Nat /\ b \in Nat /\ c \in Nat
      <4>1. b <= c
        BY <3>4, Zenon DEF Tells, Dominates
      <4>2. QED
        BY <1>2, <3>4, <4>1, LowerIsFinite, Zenon
    <3>6. c <= a + 1
      <4>1. Lower(h, j) \subseteq Lower(h, i) \cup {i}
        <5>1. \A l \in h : l < i + 1 => l < i \/ l = i
          BY FilterAssumption, <1>2, <3>3
        <5>2. QED
          BY <3>3, <5>1, Zenon DEF Lower
      <4>2. IsFiniteSet(Lower(h, i)) /\ i \notin Lower(h, i)
        BY <1>2, <3>3, LowerIsFinite, Zenon DEF Lower
      <4>3. /\ IsFiniteSet(Lower(h, i) \cup {i})
            /\ Cardinality(Lower(h, i) \cup {i}) = a + 1
        BY <3>4, <4>2, FS_AddElement, Zenon
      <4>4. Cardinality(Lower(h, j)) <= Cardinality(Lower(h, i) \cup {i})
        BY <4>1, <4>3, FS_Subset, Zenon
      <4>5. QED
        BY <3>4, <4>3, <4>4
    <3>7. Cardinality(Lower(g, j)) = a + 1
      <4>1. Cardinality(Lower(Prob!Shifted(h, TRUE), j))
              = Cardinality(Lower(h, j - 1)) + IF TRUE THEN 1 ELSE 0
        BY <1>2, <3>1, LowerOfShifted, Zenon
      <4>2. QED
        BY <1>1, <3>2, <3>4, <4>1
    <3>8. QED
      BY <3>4, <3>5, <3>6, <3>7
  <2>3. QED
    BY <2>1, <2>2
<1>5. \A i \in g : 0 <= i
  BY <1>3
<1>6. Dominates(g, s)
  BY <1>4, Zenon DEF Dominates
<1>7. Covers(g, s)
  BY <1>5, Zenon DEF Covers
<1>8. QED
  BY <1>1, <1>2, <1>3, <1>6, <1>7, Zenon DEF Tells

(* The points of a frame after the first leave the history telling.        *)
LEMMA PointsTell ==
  ASSUME NEW h, NEW s, Tells(h, s), NEW n \in Nat, n > 0
  PROVE  Tells(Prob!NewPoints(h, n), Prob!Shifted(s, TRUE))
<1> DEFINE W        == SUBSET (0 .. WIDTH - 1)
           advance  == [e \in (1 .. n) \X W |-> Prob!Shifted(e[2], TRUE)]
           After(f) == f = [i \in 0 .. n |-> IF i = 0 THEN h ELSE Prob!Shifted(f[i - 1], TRUE)]
<1>1. advance \in [(1 .. n) \X W -> W]
  <2>1. \A x \in W : Prob!Shifted(x, TRUE) \in W
    BY Zenon DEF Prob!Shifted
  <2> HIDE DEF W
  <2>2. QED
    BY <2>1
<1>2. PICK g : /\ g \in [0 .. n -> W]
               /\ g[0] = h
               /\ \A i \in 1 .. n : g[i] = advance[<<i, g[i - 1]>>]
  <2>1. Recursive(h, advance, n, W)
    <3>1. h \in W
      BY DEF Tells
    <3> HIDE DEF W, advance
    <3>2. QED
      BY <1>1, <3>1 DEF Recursive
  <2> HIDE DEF advance, W
  <2>2. \E g : Computes(g, h, advance, n, W)
    BY <2>1, Recursion
  <2>3. QED
    BY <2>2 DEF Computes
<1>3. ASSUME NEW i \in 1 .. n PROVE g[i] = Prob!Shifted(g[i - 1], TRUE)
  <2>1. g[i - 1] \in W /\ g[i] = advance[<<i, g[i - 1]>>]
    <3> HIDE DEF advance, W
    <3>1. i - 1 \in 0 .. n
      OBVIOUS
    <3>2. QED
      BY <1>2, <3>1
  <2> DEFINE b == g[i - 1]
  <2> HIDE DEF W
  <2>2. <<i, b>> \in (1 .. n) \X W /\ <<i, b>>[2] = b
    BY <2>1
  <2> HIDE DEF b
  <2>3. advance[<<i, b>>] = Prob!Shifted(b, TRUE)
    BY <2>2, Zenon
  <2>4. QED
    BY <2>1, <2>3 DEF b
<1>4. After(g)
  <2> HIDE DEF advance, W
  <2>1. g = [i \in 0 .. n |-> g[i]]
    BY <1>2
  <2>2. \A i \in 0 .. n : g[i] = IF i = 0 THEN h ELSE Prob!Shifted(g[i - 1], TRUE)
    <3>1. g[0] = h /\ \A i \in 0 .. n : i = 0 \/ i \in 1 .. n
      BY <1>2
    <3>2. QED
      BY <1>3, <3>1, Zenon
  <2>3. QED
    BY <2>1, <2>2, Zenon
<1>5. ASSUME NEW f, After(f) PROVE Tells(f[n], Prob!Shifted(s, TRUE))
  <2>1. DOMAIN f = 0 .. n
        /\ \A i \in 0 .. n : f[i] = IF i = 0 THEN h ELSE Prob!Shifted(f[i - 1], TRUE)
    BY <1>5, Zenon
  <2>2. f[0] = h /\ \A i \in 1 .. n : f[i] = Prob!Shifted(f[i - 1], TRUE)
    <3> DEFINE Sh(x) == Prob!Shifted(x, TRUE)
    <3>1. \A i \in 0 .. n : f[i] = IF i = 0 THEN h ELSE Sh(f[i - 1])
      BY <2>1
    <3> HIDE DEF Sh
    <3>2. f[0] = h /\ \A i \in 1 .. n : f[i] = Sh(f[i - 1])
      BY <3>1
    <3>3. QED
      BY <3>2, Zenon DEF Sh
  <2>3. PICK t : t = Prob!Shifted(s, TRUE)
    OBVIOUS
  <2> DEFINE Bad == {i \in 1 .. n : ~ Tells(f[i], t)}
  <2>4. Tells(f[1], t)
    <3>1. f[1] = Prob!Shifted(h, TRUE)
      <4>1. 1 \in 1 .. n /\ 1 - 1 = 0
        OBVIOUS
      <4>2. QED
        BY <2>2, <4>1, Zenon
    <3>2. QED
      BY <2>3, <3>1, BothShifted, Zenon
  <2>5. 0 \in t
    <3>1. 0 \in 0 .. WIDTH - 1
      BY FilterAssumption
    <3>2. QED
      BY <2>3, <3>1, Zenon DEF Prob!Shifted
  <2>6. Bad = {}
    <3>1. SUFFICES ASSUME Bad # {} PROVE FALSE
      OBVIOUS
    <3>2. PICK i \in Bad : \A j \in Bad : i <= j
      <4>1. Bad \in SUBSET Nat
        OBVIOUS
      <4> HIDE DEF Bad
      <4>2. QED
        BY <3>1, <4>1, NatHasMin
    <3>3. i \in 1 .. n /\ ~ Tells(f[i], t)
      BY <3>2
    <3>4. i - 1 \in 1 .. n /\ i - 1 \notin Bad
      <4>1. i # 1
        BY <2>4, <3>3
      <4>2. i - 1 \in 1 .. n /\ ~ (i <= i - 1)
        BY <3>3, <4>1
      <4> HIDE DEF Bad
      <4>3. QED
        BY <3>2, <4>2
    <3>5. Tells(f[i - 1], t)
      BY <3>4
    <3>6. Tells(Prob!Shifted(f[i - 1], TRUE), t)
      BY <2>5, <3>5, PointAgain, Zenon
    <3>7. QED
      BY <2>2, <3>3, <3>6, Zenon
  <2>7. n \in 1 .. n /\ n \notin Bad
    BY <2>6
  <2>8. QED
    BY <2>3, <2>7
<1>6. After(CHOOSE f : After(f))
  BY <1>4, Zenon
<1>7. Prob!NewPoints(h, n) = (CHOOSE f : After(f))[n]
  BY Zenon DEF Prob!NewPoints
<1> HIDE DEF After
<1>8. PICK r : r = CHOOSE f : After(f)
  OBVIOUS
<1>9. After(r) /\ Prob!NewPoints(h, n) = r[n]
  BY <1>6, <1>7, <1>8, Zenon
<1>10. Tells(r[n], Prob!Shifted(s, TRUE))
  BY <1>5, <1>9, Zenon
<1>11. QED
  BY <1>9, <1>10, Zenon

(* The histories of the known cells tell what was seen.                    *)
SightInv ==
  /\ machine = "pt1" => kind = "pt1"
  /\ kind = "prob" =>
    /\ Prob!Known \subseteq ProbCell
    /\ DOMAIN seenIn = ProbCell
    /\ \A c \in Prob!Known : Tells(all_points[c], seenIn[c])
    /\ \A c \in ProbCell : Cardinality(seenIn[c]) >= THRESHOLD => c \in filtered
    /\ \A c \in filtered : seenIn[c] # {}

(* The words of a cell that is not known are alike.                        *)
LEMMA EmptyTells == Tells({}, {})
<1>1. \A j : Lower({}, j) = {}
  BY Zenon DEF Lower
<1>2. Cardinality({}) = 0
  BY FS_EmptySet
<1>3. Dominates({}, {})
  BY <1>1, <1>2 DEF Dominates
<1>4. QED
  BY <1>3, Zenon DEF Covers, Tells

(* A history that tells has enough bits when enough frames were seen, and  *)
(* then some were.                                                         *)
LEMMA TellsEnough ==
  ASSUME NEW h, NEW s, Tells(h, s)
  PROVE  /\ Cardinality(s) >= THRESHOLD => Cardinality(h) >= THRESHOLD
         /\ Cardinality(h) >= THRESHOLD => s # {}
<1>1. h \in SUBSET (0 .. WIDTH - 1) /\ s \in SUBSET (0 .. WIDTH - 1)
  BY Zenon DEF Tells
<1>2. Lower(h, WIDTH) = h /\ Lower(s, WIDTH) = s
  <2>1. \A i \in 0 .. WIDTH - 1 : i < WIDTH
    BY FilterAssumption
  <2>2. QED
    BY <1>1, <2>1 DEF Lower
<1>3. PICK a, b : a = Cardinality(h) /\ b = Cardinality(s)
  OBVIOUS
<1>4. a \in Nat /\ b \in Nat
  BY <1>1, <1>3, LowerIsFinite, Zenon
<1>5. b <= a
  <2>1. WIDTH \in 0 .. WIDTH
    BY FilterAssumption
  <2>2. QED
    BY <1>2, <1>3, <2>1, Zenon DEF Tells, Dominates
<1>6. a >= THRESHOLD => s # {}
  <2>1. SUFFICES ASSUME a >= THRESHOLD PROVE s # {}
    OBVIOUS
  <2>2. h # {}
    BY <1>3, <1>4, <2>1, FilterAssumption, FS_EmptySet
  <2>3. QED
    BY <2>2, Zenon DEF Tells, Covers
<1>7. QED
  BY <1>3, <1>4, <1>5, <1>6, FilterAssumption

(* The filter counts bits as sets are counted.                             *)
LEMMA BitsCounted == \A h : Prob!Cardinality(h) = Cardinality(h)
  BY Zenon DEF Prob!Cardinality, Cardinality

(* A frame of the filtered source with this filter: of every cell that is  *)
(* known the history goes on telling what was seen.                        *)
LEMMA SightNext ==
  ASSUME SightInv, kind = "prob", machine = "prob", machine' = machine, Prob!Next
  PROVE  SightInv'
<1>1. /\ kind = "prob" /\ Prob!Known \subseteq ProbCell
      /\ DOMAIN seenIn = ProbCell
      /\ \A c \in Prob!Known : Tells(all_points[c], seenIn[c])
  BY DEF SightInv
<1>2. PICK frame_1 \in [ProbCell -> 0 .. MaxPoints], posed \in BOOLEAN :
        /\ \/ Prob!ProbFrame(Prob!Passing(frame_1, posed))
           \/ Prob!Pt1Frame(Prob!Passing(frame_1, posed))
        /\ kind' = kind
  BY Zenon DEF Prob!Next, Prob!UpdateFrame, Prob!Frames
<1>3. PICK f : f = Prob!Passing(frame_1, posed)
  OBVIOUS
<1>4. \A c \in ProbCell : f[c] \in Int /\ (f[c] > 0 => f[c] \in Nat)
  <2>1. f = [c \in ProbCell |-> IF posed THEN frame_1[c] ELSE 0]
    BY <1>3, Zenon DEF Prob!Passing
  <2>2. QED
    BY <1>2, <2>1
<1>5. PICK K : K = Prob!Known
  OBVIOUS
<1>6. PICK keys : keys = K \cup Prob!ThisFrame(f)
  OBVIOUS
<1>7. PICK rank :
        /\ all_points' = [c \in keys \ Prob!OutOfBox(f, rank) |-> Prob!History(f, c)]
        /\ filtered' = {c \in keys : Cardinality(Prob!History(f, c)) >= THRESHOLD}
        /\ seenIn' = [c \in ProbCell |->
             Prob!Shifted(IF c \in K THEN seenIn[c] ELSE {}, f[c] > 0)]
  <2>1. Prob!ProbFrame(f)
    <3>1. ~ Prob!Pt1Frame(f)
      BY <1>1 DEF Prob!Pt1Frame
    <3>2. QED
      BY <1>2, <1>3, <3>1, Zenon
  <2>2. \E rank :
          /\ all_points' = [c \in keys \ Prob!OutOfBox(f, rank) |-> Prob!History(f, c)]
          /\ filtered' = {c \in keys : Prob!Cardinality(Prob!History(f, c)) >= THRESHOLD}
          /\ seenIn' = [c \in ProbCell |->
               Prob!Shifted(IF c \in K THEN seenIn[c] ELSE {}, f[c] > 0)]
    BY <1>5, <1>6, <2>1, Zenon DEF Prob!ProbFrame
  <2>3. {c \in keys : Prob!Cardinality(Prob!History(f, c)) >= THRESHOLD}
          = {c \in keys : Cardinality(Prob!History(f, c)) >= THRESHOLD}
    BY BitsCounted, Zenon
  <2>4. QED
    BY <2>2, <2>3, Zenon
<1>8. keys \subseteq ProbCell
  BY <1>1, <1>5, <1>6, Zenon DEF Prob!ThisFrame
<1>9. ASSUME NEW c \in keys PROVE Tells(Prob!History(f, c), seenIn'[c])
  <2>1. PICK h, s : h = (IF c \in K THEN all_points[c] ELSE {})
                    /\ s = (IF c \in K THEN seenIn[c] ELSE {})
    OBVIOUS
  <2>2. Tells(h, s)
    BY <1>1, <1>5, <2>1, EmptyTells, Zenon
  <2>3. seenIn'[c] = Prob!Shifted(s, f[c] > 0)
    BY <1>7, <1>8, <2>1, Zenon
  <2>4. Prob!History(f, c)
          = IF f[c] > 0 THEN Prob!NewPoints(h, f[c]) ELSE Prob!Shifted(h, FALSE)
    BY <1>5, <2>1, Zenon DEF Prob!History
  <2>5. CASE f[c] > 0
    <3>1. f[c] \in Nat
      BY <1>4, <1>8, <2>5
    <3>2. (f[c] > 0) = TRUE
      BY <2>5
    <3>3. Tells(Prob!NewPoints(h, f[c]), Prob!Shifted(s, TRUE))
      BY <2>2, <2>5, <3>1, PointsTell, Zenon
    <3>4. QED
      BY <2>3, <2>4, <2>5, <3>2, <3>3, Zenon
  <2>6. CASE ~ (f[c] > 0)
    <3>1. (f[c] > 0) = FALSE
      <4>1. f[c] \in Int
        BY <1>4, <1>8
      <4>2. QED
        BY <2>6, <4>1
    <3>2. Tells(Prob!Shifted(h, FALSE), Prob!Shifted(s, FALSE))
      BY <2>2, BothShifted, Zenon
    <3>3. QED
      BY <2>3, <2>4, <2>6, <3>1, <3>2, Zenon
  <2>7. QED
    BY <2>5, <2>6
<1>10. ASSUME NEW c \in ProbCell, Cardinality(seenIn'[c]) >= THRESHOLD PROVE c \in filtered'
  <2>1. CASE c \in keys
    BY <1>7, <1>9, <1>10, <2>1, TellsEnough, Zenon
  <2>2. CASE c \notin keys
    <3>1. c \notin K /\ ~ (f[c] > 0)
      BY <1>6, <2>2, Zenon DEF Prob!ThisFrame
    <3>2. (f[c] > 0) = FALSE
      <4>1. f[c] \in Int
        BY <1>4
      <4>2. QED
        BY <3>1, <4>1
    <3>3. seenIn'[c] = {}
      <4>1. seenIn'[c] = Prob!Shifted({}, FALSE)
        BY <1>7, <3>1, <3>2, Zenon
      <4>2. QED
        BY <4>1, Zenon DEF Prob!Shifted
    <3>4. ~ (0 >= THRESHOLD)
      BY FilterAssumption
    <3>5. QED
      BY <1>10, <3>3, <3>4, FS_EmptySet, Zenon
  <2>3. QED
    BY <2>1, <2>2
<1>11. ASSUME NEW c \in filtered' PROVE seenIn'[c] # {}
  <2>1. c \in keys /\ Cardinality(Prob!History(f, c)) >= THRESHOLD
    BY <1>7, Zenon
  <2>2. QED
    BY <1>9, <2>1, TellsEnough, Zenon
<1>12. \A c \in Prob!Known' : c \in keys /\ all_points'[c] = Prob!History(f, c)
  BY <1>7, Zenon DEF Prob!Known
<1>13. /\ kind' = "prob" /\ machine' = "prob" /\ Prob!Known' \subseteq ProbCell
       /\ DOMAIN seenIn' = ProbCell
       /\ \A c \in Prob!Known' : Tells(all_points'[c], seenIn'[c])
  BY <1>1, <1>2, <1>7, <1>8, <1>9, <1>12, Zenon
<1>14. QED
  BY <1>10, <1>11, <1>13, Zenon DEF SightInv

(* However many points a cell has in its frames, one that was seen in      *)
(* enough of the last ones is included, and one seen in none is not: the   *)
(* bits that its points shift out never outnumber those they set.          *)
THEOREM SightingsCounted == SurroundingsSpec => []SightingsCount
<1> DEFINE all == <<machine, vars, configuration, postFilter, replay, sceneView, stream>>
<1>1. SurroundingsInit => SightInv
  <2> SUFFICES ASSUME SurroundingsInit PROVE SightInv
    OBVIOUS
  <2>1. IF machine = "pt1" THEN Pt1!Init ELSE Prob!Init
    BY Zenon DEF SurroundingsInit
  <2>2. CASE machine = "pt1"
    <3>1. kind \in {"pt1"}
      BY <2>1, <2>2, Zenon DEF Pt1!Init
    <3>2. QED
      BY <3>1 DEF SightInv
  <2>3. CASE machine # "pt1"
    <3>1. /\ all_points = [c \in {} |-> 0] /\ filtered = {}
          /\ seenIn = [c \in ProbCell |-> {}]
      BY <2>1, <2>3, Zenon DEF Prob!Init
    <3>2. Prob!Known = {}
      BY <3>1 DEF Prob!Known
    <3>3. DOMAIN seenIn = ProbCell /\ \A c \in ProbCell : seenIn[c] = {}
      BY <3>1
    <3>4. ~ (Cardinality({}) >= THRESHOLD)
      BY FilterAssumption, FS_EmptySet
    <3>5. \A c \in ProbCell : ~ (Cardinality(seenIn[c]) >= THRESHOLD)
      BY <3>3, <3>4, Zenon
    <3>6. QED
      BY <2>3, <3>1, <3>2, <3>3, <3>5, Zenon DEF SightInv
  <2>4. QED
    BY <2>2, <2>3
<1>2. SightInv /\ [SurroundingsNext]_all => SightInv'
  <2> SUFFICES ASSUME SightInv, [SurroundingsNext]_all PROVE SightInv'
    OBVIOUS
  <2>1. \/ machine = "prob" /\ machine' = machine /\ Prob!Next
        \/ machine = "pt1" /\ machine' = machine /\ Pt1!Next
        \/ UNCHANGED <<machine, postFilter>>
    BY DEF SurroundingsNext, RunMixture, RunConfiguration, RunPostFilter, RunReplay, RunWindow,
           RunStream
  <2>2. CASE machine = "prob" /\ machine' = machine /\ Prob!Next
    <3>1. kind' = kind
      BY <2>2, Zenon DEF Prob!Next, Prob!UpdateFrame
    <3>2. CASE kind = "prob"
      BY <2>2, <3>2, SightNext
    <3>3. CASE kind # "prob"
      BY <2>2, <3>1, <3>3 DEF SightInv
    <3>4. QED
      BY <3>2, <3>3
  <2>3. CASE machine = "pt1" /\ machine' = machine /\ Pt1!Next
    <3>1. kind' = kind
      BY <2>3, Zenon DEF Pt1!Next, Pt1!UpdateFrame
    <3>2. kind = "pt1"
      BY <2>3, Zenon DEF SightInv
    <3>3. QED
      BY <2>3, <3>1, <3>2 DEF SightInv
  <2>4. CASE UNCHANGED <<machine, postFilter>>
    <3>1. UNCHANGED <<machine, kind, all_points, filtered, seenIn>>
      BY <2>4, Zenon DEF postFilter
    <3>2. Prob!Known' = Prob!Known
      BY <3>1, Zenon DEF Prob!Known
    <3>3. QED
      BY <3>1, <3>2 DEF SightInv
  <2>5. QED
    BY <2>1, <2>2, <2>3, <2>4
<1>3. SightInv => SightingsCount
  BY BitsCounted, Zenon DEF SightInv, SightingsCount, Prob!SightingsCount
<1>4. QED
  BY <1>1, <1>2, <1>3, PTL DEF SurroundingsSpec

-----------------------------------------------------------------------------
(* The drawings in the window.                                             *)

(* What a part of an obstacle is told by.                                  *)
Parts == Clusters \X (1 .. MaxParts)

(* The window counts as sets are counted.                                  *)
LEMMA DrawingsCounted == \A S : Window!Cardinality(S) = Cardinality(S)
  BY Zenon DEF Window!Cardinality, Cardinality

(* There are more handles than a frame needs, the surfaces of the frame    *)
(* before included.                                                        *)
LEMMA HandlesCounted ==
  /\ IsFiniteSet(Window!Handle) /\ Window!Handle \subseteq Nat
  /\ IsFiniteSet(Parts) /\ Cardinality(Parts) \in Nat
  /\ Cardinality(Surface) \in Nat
  /\ Cardinality(Window!Handle) \in Nat
  /\ Cardinality(Parts) + 2 * Cardinality(Surface) + MaxClouds <= Cardinality(Window!Handle)
<1>1. PICK c, o, s : c = Cardinality(Clusters) /\ o = Cardinality(Obstacle) /\ s = Cardinality(Surface)
  OBVIOUS
<1>2. c \in Nat /\ o \in Nat /\ s \in Nat
  BY <1>1, SceneAssumption, FS_CardinalityType, Zenon
<1>3. IsFiniteSet(1 .. MaxParts) /\ Cardinality(1 .. MaxParts) = MaxParts
  <2>1. IsFiniteSet(1 .. MaxParts) /\ Cardinality(1 .. MaxParts) = IF 1 > MaxParts THEN 0 ELSE MaxParts - 1 + 1
    BY SceneAssumption, FS_Interval
  <2>2. QED
    BY <2>1, SceneAssumption
<1>4. IsFiniteSet(Parts) /\ Cardinality(Parts) = c * MaxParts
  BY <1>1, <1>3, SceneAssumption, FS_Product, Zenon DEF Parts
<1>5. PICK x, y : x = c * MaxParts /\ y = o * MaxParts
  OBVIOUS
<1>6. x \in Nat /\ y \in Nat
  BY <1>2, <1>5, SceneAssumption
<1>7. PICK n : n = x + y + 2 * s + MaxClouds
  OBVIOUS
<1>8. n \in Nat
  BY <1>2, <1>6, <1>7, SceneAssumption
<1>9. Window!Handle = 1 .. n
  BY <1>1, <1>5, <1>7, DrawingsCounted, Zenon DEF Window!Handle
<1>10. IsFiniteSet(1 .. n) /\ Cardinality(1 .. n) = n
  <2>1. IsFiniteSet(1 .. n) /\ Cardinality(1 .. n) = IF 1 > n THEN 0 ELSE n - 1 + 1
    BY <1>8, FS_Interval
  <2>2. QED
    BY <2>1, <1>8
<1>11. Cardinality(Window!Handle) = n /\ IsFiniteSet(Window!Handle)
  BY <1>9, <1>10, Zenon
<1>12. Cardinality(Parts) = x /\ Cardinality(Surface) = s
  BY <1>1, <1>4, <1>5, Zenon
<1>13. x + 2 * s + MaxClouds <= n
  BY <1>2, <1>6, <1>7, SceneAssumption
<1>14. 1 .. n \subseteq Nat
  BY <1>8
<1>15. QED
  BY <1>2, <1>4, <1>6, <1>8, <1>9, <1>11, <1>12, <1>13, <1>14, Zenon

(* A handle is free while there are fewer drawings than handles.           *)
LEMMA HandleIsFree ==
  ASSUME NEW taken, IsFiniteSet(taken), Cardinality(taken) < Cardinality(Window!Handle)
  PROVE  Window!FreeHandle(taken) \in Window!Handle \ taken
<1>1. Window!Handle \ taken # {}
  <2>1. SUFFICES ASSUME Window!Handle \subseteq taken PROVE FALSE
    OBVIOUS
  <2>2. Cardinality(Window!Handle) <= Cardinality(taken)
    BY <2>1, FS_Subset, Zenon
  <2>3. QED
    BY <2>2, HandlesCounted, FS_CardinalityType
<1>2. PICK h \in Window!Handle \ taken : \A g \in Window!Handle \ taken : h <= g
  <2>1. Window!Handle \ taken \in SUBSET Nat
    BY HandlesCounted, Zenon
  <2>2. QED
    BY <1>1, <2>1, NatHasMin
<1>3. QED
  BY <1>2, Zenon DEF Window!FreeHandle

(* Parts, surfaces of this frame and of the one before, and clouds leave a *)
(* handle while there is less of one of them than there may be.            *)
Fits(A, B, C, D) ==
  /\ IsFiniteSet(A) /\ IsFiniteSet(B) /\ IsFiniteSet(C) /\ IsFiniteSet(D)
  /\ Cardinality(A) <= Cardinality(Parts)
  /\ Cardinality(B) <= Cardinality(Surface) /\ Cardinality(C) <= Cardinality(Surface)
  /\ Cardinality(D) <= MaxClouds
  /\ \/ Cardinality(A) < Cardinality(Parts)
     \/ Cardinality(C) < Cardinality(Surface)
     \/ Cardinality(D) < MaxClouds

(* When there is room left, the next handle is one that is free.           *)
LEMMA RoomLeft ==
  ASSUME NEW A, NEW B, NEW C, NEW D, Fits(A, B, C, D)
  PROVE  Window!FreeHandle(A \cup B \cup C \cup D)
           \in Window!Handle \ (A \cup B \cup C \cup D)
<1>1. /\ IsFiniteSet(A) /\ IsFiniteSet(B) /\ IsFiniteSet(C) /\ IsFiniteSet(D)
  BY Zenon DEF Fits
<1>2. PICK a, b, c, d : /\ a = Cardinality(A) /\ b = Cardinality(B)
                        /\ c = Cardinality(C) /\ d = Cardinality(D)
  OBVIOUS
<1>3. a \in Nat /\ b \in Nat /\ c \in Nat /\ d \in Nat
  BY <1>1, <1>2, FS_CardinalityType, Zenon
<1>4. \A X, Y : IsFiniteSet(X) /\ IsFiniteSet(Y) =>
        IsFiniteSet(X \cup Y) /\ Cardinality(X \cup Y) \in Nat
          /\ Cardinality(X \cup Y) <= Cardinality(X) + Cardinality(Y)
  <2>1. SUFFICES ASSUME NEW X, NEW Y, IsFiniteSet(X), IsFiniteSet(Y)
                 PROVE  IsFiniteSet(X \cup Y) /\ Cardinality(X \cup Y) \in Nat
                          /\ Cardinality(X \cup Y) <= Cardinality(X) + Cardinality(Y)
    OBVIOUS
  <2>2. IsFiniteSet(X \cup Y)
        /\ Cardinality(X \cup Y) = Cardinality(X) + Cardinality(Y) - Cardinality(X \cap Y)
    BY <2>1, FS_Union, Zenon
  <2>3. IsFiniteSet(X \cap Y)
    BY <2>1, FS_Intersection, Zenon
  <2>4. Cardinality(X) \in Nat /\ Cardinality(Y) \in Nat /\ Cardinality(X \cap Y) \in Nat
        /\ Cardinality(X \cup Y) \in Nat
    BY <2>1, <2>2, <2>3, FS_CardinalityType, Zenon
  <2>5. QED
    BY <2>2, <2>4
<1>5. /\ IsFiniteSet(A \cup B) /\ Cardinality(A \cup B) \in Nat
      /\ Cardinality(A \cup B) <= a + b
  BY <1>1, <1>2, <1>4, Zenon
<1>6. /\ IsFiniteSet(A \cup B \cup C) /\ Cardinality(A \cup B \cup C) \in Nat
      /\ Cardinality(A \cup B \cup C) <= Cardinality(A \cup B) + c
  BY <1>1, <1>2, <1>4, <1>5, Zenon
<1>7. /\ IsFiniteSet(A \cup B \cup C \cup D) /\ Cardinality(A \cup B \cup C \cup D) \in Nat
      /\ Cardinality(A \cup B \cup C \cup D) <= Cardinality(A \cup B \cup C) + d
  BY <1>1, <1>2, <1>4, <1>6, Zenon
<1>8. Cardinality(A \cup B \cup C \cup D) < Cardinality(Window!Handle)
  <2>1. PICK p, q, n, x, y, z :
          /\ p = Cardinality(Parts) /\ q = Cardinality(Surface) /\ n = Cardinality(Window!Handle)
          /\ x = Cardinality(A \cup B) /\ y = Cardinality(A \cup B \cup C)
          /\ z = Cardinality(A \cup B \cup C \cup D)
    OBVIOUS
  <2>2. /\ p \in Nat /\ q \in Nat /\ n \in Nat
        /\ p + 2 * q + MaxClouds <= n
    BY <2>1, HandlesCounted, Zenon
  <2>3. /\ a <= p /\ b <= q /\ c <= q /\ d <= MaxClouds
        /\ a < p \/ c < q \/ d < MaxClouds
    BY <1>2, <2>1, Zenon DEF Fits
  <2>4. /\ x \in Nat /\ y \in Nat /\ z \in Nat
        /\ x <= a + b /\ y <= x + c /\ z <= y + d
    BY <1>5, <1>6, <1>7, <2>1, Zenon
  <2>5. z < n
    BY <1>3, <2>2, <2>3, <2>4, SceneAssumption
  <2>6. QED
    BY <2>1, <2>5, Zenon
<1>9. QED
  BY <1>7, <1>8, HandleIsFree, Zenon

(* What the choice of a handle yields when none is free, which never       *)
(* happens.                                                                *)
Lost == CHOOSE h \in {} : \A g \in {} : h <= g

(* The next handle is one of the window's, or the one that is no handle.   *)
LEMMA HandleOrLost == \A taken : Window!FreeHandle(taken) \in Window!Handle \cup {Lost}
<1>1. SUFFICES ASSUME NEW taken PROVE Window!FreeHandle(taken) \in Window!Handle \cup {Lost}
  OBVIOUS
<1>2. PICK S : S = Window!Handle \ taken
  OBVIOUS
<1>3. Window!FreeHandle(taken) = CHOOSE h \in S : \A g \in S : h <= g
  BY <1>2, Zenon DEF Window!FreeHandle
<1>4. CASE S = {}
  BY <1>3, <1>4, Zenon DEF Lost
<1>5. CASE S # {}
  <2>1. S \in SUBSET Nat
    BY <1>2, HandlesCounted, Zenon
  <2>2. PICK h \in S : \A g \in S : h <= g
    BY <1>5, <2>1, NatHasMin
  <2>3. Window!FreeHandle(taken) \in S
    BY <1>3, <2>2, Zenon
  <2>4. QED
    BY <1>2, <2>3, Zenon
<1>6. QED
  BY <1>4, <1>5

AnyHandle == Window!Handle \cup {Lost}

(* Drawing parts one after another.                                        *)
Drawings == [data : UNION {[D -> AnyHandle] : D \in SUBSET Parts}, scene : SUBSET AnyHandle]

(* Visiting a part leaves drawings of parts.                               *)
LEMMA VisitType ==
  ASSUME NEW s \in Drawings, NEW p \in Parts
  PROVE  Window!Visit(s, p) \in Drawings
<1>1. CASE p \in DOMAIN s.data
  BY <1>1, Zenon DEF Window!Visit
<1>2. CASE p \notin DOMAIN s.data
  <2>1. PICK h : h = Window!FreeHandle(s.scene)
    OBVIOUS
  <2>2. h \in AnyHandle
    BY <2>1, HandleOrLost, Zenon DEF AnyHandle
  <2>3. PICK D \in SUBSET Parts : s.data \in [D -> AnyHandle] /\ s.scene \in SUBSET AnyHandle
    BY DEF Drawings
  <2>4. PICK f : f = [r \in DOMAIN s.data \cup {p} |-> IF r = p THEN h ELSE s.data[r]]
    OBVIOUS
  <2>5. Window!Visit(s, p) = [data |-> f, scene |-> s.scene \cup {h}]
    BY <1>2, <2>1, <2>4, Zenon DEF Window!Visit
  <2>6. f \in [D \cup {p} -> AnyHandle] /\ D \cup {p} \in SUBSET Parts
    <3> HIDE DEF Parts, AnyHandle
    <3>1. DOMAIN s.data = D
      BY <2>3
    <3>2. \A r \in D \cup {p} : (IF r = p THEN h ELSE s.data[r]) \in AnyHandle
      BY <2>2, <2>3
    <3>3. f = [r \in D \cup {p} |-> IF r = p THEN h ELSE s.data[r]]
      BY <2>4, <3>1
    <3>4. QED
      BY <3>2, <3>3
  <2>7. f \in UNION {[E -> AnyHandle] : E \in SUBSET Parts}
    BY <2>6, Zenon
  <2>8. s.scene \cup {h} \in SUBSET AnyHandle
    BY <2>2, <2>3, Zenon
  <2>9. QED
    BY <2>5, <2>7, <2>8 DEF Drawings
<1>3. QED
  BY <1>1, <1>2

(* The greatest element is that of the other proofs.                       *)
LEMMA WindowMax == \A S : Window!Max(S) = Max(S)
  BY Zenon DEF Window!Max, Max

(* The drawings after each of the parts.                                   *)
InTurn(g, b, q, n) ==
  /\ g[0] = b
  /\ \A i \in 1 .. n : g[i] = Window!Visit(g[i - 1], q[i])
  /\ g[n] = Window!FoldLeft(Window!Visit, b, q)

(* There are such drawings for any sequence of parts.                      *)
LEMMA VisitsInTurn ==
  ASSUME NEW b \in Drawings, NEW n \in Nat, NEW q \in [1 .. n -> Parts]
  PROVE  \E g : InTurn(g, b, q, n)
<1> DEFINE Sets  == SUBSET (1 .. n)
           on    == [e \in (1 .. n) \X Drawings |-> Window!Visit(e[2], q[e[1]])]
           Is(r) == r = [s \in Sets |-> IF s = {} THEN b
                                        ELSE Window!Visit(r[s \ {Max(s)}], q[Max(s)])]
<1>1. SetRecursive(b, on, n, Drawings)
  <2>1. \A e \in (1 .. n) \X Drawings : Window!Visit(e[2], q[e[1]]) \in Drawings
    <3>1. SUFFICES ASSUME NEW i \in 1 .. n, NEW s \in Drawings
                   PROVE  Window!Visit(s, q[i]) \in Drawings
      BY Zenon
    <3>2. q[i] \in Parts
      OBVIOUS
    <3>3. QED
      BY <3>2, VisitType, Zenon
  <2>2. on \in [(1 .. n) \X Drawings -> Drawings]
    BY <2>1, Zenon
  <2>3. QED
    BY <2>2, Zenon DEF SetRecursive
<1>2. PICK f : SetComputes(f, b, on, n, Drawings)
  <2> HIDE DEF on
  <2>1. QED
    BY <1>1, SetRecursion, Zenon
<1>3. Is(f)
  <2>1. f \in [Sets -> Drawings]
        /\ \A s \in Sets : f[s] = IF s = {} THEN b ELSE on[<<Max(s), f[s \ {Max(s)}]>>]
    <3> HIDE DEF on
    <3>1. QED
      BY <1>2, Zenon DEF SetComputes
  <2>2. ASSUME NEW s \in Sets
        PROVE  f[s] = IF s = {} THEN b ELSE Window!Visit(f[s \ {Max(s)}], q[Max(s)])
    <3>1. CASE s = {}
      BY <2>1, <3>1, Zenon
    <3>2. CASE s # {}
      <4>1. PICK m : m = Max(s)
        OBVIOUS
      <4>2. m \in 1 .. n /\ s \ {m} \in Sets
        BY <3>2, <4>1, WithoutMax, Zenon
      <4>3. f[s \ {m}] \in Drawings
        BY <2>1, <4>2, Zenon
      <4>4. on[<<m, f[s \ {m}]>>] = Window!Visit(f[s \ {m}], q[m])
        BY <4>2, <4>3, Zenon
      <4>5. QED
        BY <2>1, <3>2, <4>1, <4>4, Zenon
    <3>3. QED
      BY <3>1, <3>2
  <2> HIDE DEF Sets, on
  <2>3. QED
    BY <2>1, <2>2, Zenon
<1>4. PICK R : Is(R) /\ R[1 .. n] = Window!FoldLeft(Window!Visit, b, q)
  <2>1. DOMAIN q = 1 .. n
    OBVIOUS
  <2>2. Window!FoldLeft(Window!Visit, b, q) =
          (CHOOSE r : r = [s \in SUBSET DOMAIN q |-> IF s = {} THEN b
             ELSE Window!Visit(r[s \ {Window!Max(s)}], q[Window!Max(s)])])[DOMAIN q]
    BY Zenon DEF Window!FoldLeft, Window!MapThenFoldSet
  <2>3. Window!FoldLeft(Window!Visit, b, q) = (CHOOSE r : Is(r))[1 .. n]
    BY <2>1, <2>2, WindowMax, Zenon
  <2> HIDE DEF Is
  <2>4. QED
    BY <1>3, <2>3, Zenon
<1> DEFINE g == [i \in 0 .. n |-> R[1 .. i]]
<1>5. \A s \in Sets : R[s] = IF s = {} THEN b ELSE Window!Visit(R[s \ {Max(s)}], q[Max(s)])
  <2> HIDE DEF Sets
  <2>1. QED
    BY <1>4, Zenon
<1>6. g[0] = b
  <2>1. g[0] = R[1 .. 0]
    OBVIOUS
  <2>2. 1 .. 0 = {}
    OBVIOUS
  <2>3. R[{}] = b
    BY <1>5, Zenon
  <2> HIDE DEF g
  <2>4. QED
    BY <2>1, <2>2, <2>3
<1>7. ASSUME NEW i \in 1 .. n PROVE g[i] = Window!Visit(g[i - 1], q[i])
  <2>1. i \in 0 .. n /\ i - 1 \in 0 .. n
    OBVIOUS
  <2>2. g[i] = R[1 .. i] /\ g[i - 1] = R[1 .. i - 1]
    BY <2>1, Zenon
  <2>3. 1 .. i \in Sets /\ 1 .. i # {} /\ Max(1 .. i) = i /\ (1 .. i) \ {i} = 1 .. i - 1
    BY Segments, Zenon
  <2> HIDE DEF g
  <2>4. R[1 .. i] = Window!Visit(R[1 .. i - 1], q[i])
    BY <1>5, <2>3, Zenon
  <2>5. QED
    BY <2>2, <2>4, Zenon
<1>8. g[n] = R[1 .. n]
  <2>1. n \in 0 .. n
    OBVIOUS
  <2>2. QED
    BY <2>1, Zenon
<1> HIDE DEF g
<1>9. InTurn(g, b, q, n)
  BY <1>4, <1>6, <1>7, <1>8, Zenon DEF InTurn
<1>10. QED
  BY <1>9, Zenon

(* The values of a function, which are as many as its arguments when no    *)
(* two of them are one.                                                    *)
RangeOf(f) == {f[x] : x \in DOMAIN f}
OneToOne(f) == \A x, y \in DOMAIN f : f[x] = f[y] => x = y

(* There are at most as many values as arguments, and as many when no two  *)
(* arguments share one.                                                    *)
LEMMA RangeSize ==
  ASSUME NEW f, f \in [DOMAIN f -> RangeOf(f)], IsFiniteSet(DOMAIN f)
  PROVE  /\ IsFiniteSet(RangeOf(f)) /\ Cardinality(DOMAIN f) \in Nat
         /\ Cardinality(RangeOf(f)) \in Nat
         /\ Cardinality(RangeOf(f)) <= Cardinality(DOMAIN f)
         /\ OneToOne(f) => Cardinality(RangeOf(f)) = Cardinality(DOMAIN f)
<1>1. f \in Surjection(DOMAIN f, RangeOf(f))
  BY Zenon DEF Surjection, RangeOf
<1>2. /\ IsFiniteSet(RangeOf(f))
      /\ Cardinality(RangeOf(f)) <= Cardinality(DOMAIN f)
      /\ Cardinality(RangeOf(f)) = Cardinality(DOMAIN f) <=> f \in Injection(DOMAIN f, RangeOf(f))
  BY <1>1, FS_Surjection, Zenon
<1>3. OneToOne(f) => f \in Injection(DOMAIN f, RangeOf(f))
  BY Zenon DEF OneToOne, Injection, IsInjective
<1>4. QED
  BY <1>2, <1>3, FS_CardinalityType, Zenon

(* The drawings of parts, beside those of surfaces and clouds.             *)
Beside(B, D) ==
  /\ IsFiniteSet(B) /\ IsFiniteSet(D)
  /\ Cardinality(B) <= Cardinality(Surface) /\ Cardinality(D) <= MaxClouds

Drawn(s, B, D) ==
  /\ DOMAIN s.data \subseteq Parts
  /\ s.data \in [DOMAIN s.data -> Window!Handle]
  /\ OneToOne(s.data)
  /\ RangeOf(s.data) \cap (B \cup D) = {}
  /\ s.scene = RangeOf(s.data) \cup B \cup D

(* A part that is visited has a drawing of its own from then on.           *)
LEMMA VisitDraws ==
  ASSUME NEW s, NEW B, NEW D, Drawn(s, B, D), Beside(B, D), NEW p \in Parts,
         NEW t, t = Window!Visit(s, p)
  PROVE  Drawn(t, B, D) /\ DOMAIN t.data = DOMAIN s.data \cup {p}
<1>1. CASE p \in DOMAIN s.data
  <2>1. t = s
    BY <1>1, Zenon DEF Window!Visit
  <2>2. DOMAIN s.data = DOMAIN s.data \cup {p}
    BY <1>1
  <2>3. QED
    BY <2>1, <2>2, Zenon
<1>2. CASE p \notin DOMAIN s.data
  <2>1. PICK h : h = Window!FreeHandle(s.scene)
    OBVIOUS
  <2>2. PICK d, f : d = s.data /\ f = [r \in DOMAIN d \cup {p} |-> IF r = p THEN h ELSE d[r]]
    OBVIOUS
  <2>3. t = [data |-> f, scene |-> s.scene \cup {h}]
    BY <1>2, <2>1, <2>2, Zenon DEF Window!Visit
  <2>4. /\ DOMAIN d \subseteq Parts /\ d \in [DOMAIN d -> Window!Handle] /\ OneToOne(d)
        /\ RangeOf(d) \cap (B \cup D) = {} /\ s.scene = RangeOf(d) \cup B \cup D
    BY <2>2, Zenon DEF Drawn
  <2>5. h \in Window!Handle /\ h \notin RangeOf(d) /\ h \notin B \cup D
    <3>1. IsFiniteSet(DOMAIN d) /\ Cardinality(DOMAIN d) < Cardinality(Parts)
      <4>1. IsFiniteSet(DOMAIN d) /\ Cardinality(DOMAIN d) <= Cardinality(Parts)
            /\ (Cardinality(Parts) = Cardinality(DOMAIN d) => Parts = DOMAIN d)
        BY <2>4, HandlesCounted, FS_Subset, Zenon
      <4>2. Cardinality(DOMAIN d) # Cardinality(Parts)
        BY <1>2, <2>2, <4>1, Zenon
      <4>3. Cardinality(DOMAIN d) \in Nat /\ Cardinality(Parts) \in Nat
        BY <4>1, HandlesCounted, FS_CardinalityType, Zenon
      <4>4. QED
        BY <4>1, <4>2, <4>3
    <3>2. IsFiniteSet(RangeOf(d)) /\ Cardinality(RangeOf(d)) = Cardinality(DOMAIN d)
      <4>1. d \in [DOMAIN d -> RangeOf(d)]
        BY <2>4 DEF RangeOf
      <4>2. QED
        BY <2>4, <3>1, <4>1, RangeSize, Zenon
    <3>3. Fits(RangeOf(d), B, {}, D)
      <4>1. Cardinality({}) = 0 /\ IsFiniteSet({}) /\ 0 <= Cardinality(Surface)
        BY FS_EmptySet, HandlesCounted
      <4>2. Cardinality(RangeOf(d)) <= Cardinality(Parts)
        <5>1. Cardinality(DOMAIN d) \in Nat /\ Cardinality(Parts) \in Nat
          BY <3>1, HandlesCounted, FS_CardinalityType, Zenon
        <5>2. QED
          BY <3>1, <3>2, <5>1
      <4>3. QED
        BY <3>1, <3>2, <4>1, <4>2, Zenon DEF Fits, Beside
    <3>4. PICK S : S = RangeOf(d) \cup B \cup {} \cup D
      OBVIOUS
    <3>5. S = s.scene
      BY <2>4, <3>4
    <3>6. h \in Window!Handle \ S
      <4>1. Window!FreeHandle(RangeOf(d) \cup B \cup {} \cup D)
              \in Window!Handle \ (RangeOf(d) \cup B \cup {} \cup D)
        BY <3>3, RoomLeft
      <4>2. h = Window!FreeHandle(S)
        BY <2>1, <3>5, Zenon
      <4>3. QED
        BY <3>4, <4>1, <4>2, Zenon
    <3>7. QED
      BY <3>4, <3>6
  <2>6. DOMAIN f = DOMAIN d \cup {p} /\ f[p] = h /\ \A r \in DOMAIN d : f[r] = d[r]
    BY <1>2, <2>2
  <2>7. RangeOf(f) = RangeOf(d) \cup {h}
    BY <2>6, Zenon DEF RangeOf
  <2>8. OneToOne(f)
    BY <1>2, <2>2, <2>4, <2>5, <2>6 DEF OneToOne, RangeOf
  <2>9. f \in [DOMAIN f -> Window!Handle]
    <3>1. \A r \in DOMAIN d : d[r] \in Window!Handle
      BY <2>4
    <3>2. \A r \in DOMAIN d \cup {p} : (IF r = p THEN h ELSE d[r]) \in Window!Handle
      BY <2>5, <3>1, Zenon
    <3>3. QED
      BY <2>2, <3>2, Zenon
  <2>10. t.data = f /\ t.scene = s.scene \cup {h}
    BY <2>3
  <2>11. t.scene = RangeOf(f) \cup B \cup D
    BY <2>4, <2>7, <2>10
  <2>12. RangeOf(f) \cap (B \cup D) = {}
    BY <2>4, <2>5, <2>7
  <2>13. DOMAIN f \subseteq Parts
    BY <2>4, <2>6
  <2>14. QED
    BY <2>2, <2>6, <2>8, <2>9, <2>10, <2>11, <2>12, <2>13, Zenon DEF Drawn
<1>3. QED
  BY <1>1, <1>2

(* So do all parts that are visited.                                       *)
LEMMA VisitsDraw ==
  ASSUME NEW b \in Drawings, NEW n \in Nat, NEW q \in [1 .. n -> Parts],
         NEW B, NEW D, Drawn(b, B, D), Beside(B, D),
         NEW t, t = Window!FoldLeft(Window!Visit, b, q)
  PROVE  Drawn(t, B, D) /\ DOMAIN t.data = DOMAIN b.data \cup RangeOf(q)
<1>1. PICK g : InTurn(g, b, q, n)
  BY VisitsInTurn, Zenon
<1>2. /\ g[0] = b
      /\ \A i \in 1 .. n : g[i] = Window!Visit(g[i - 1], q[i])
      /\ g[n] = t
  BY <1>1, Zenon DEF InTurn
<1> DEFINE Until(i) == DOMAIN b.data \cup {q[j] : j \in 1 .. i}
           Fine(i)  == Drawn(g[i], B, D) /\ DOMAIN g[i].data = Until(i)
           Bad      == {i \in 0 .. n : ~ Fine(i)}
<1>3. Bad = {}
  <2>1. SUFFICES ASSUME Bad # {} PROVE FALSE
    OBVIOUS
  <2>2. PICK i \in Bad : \A j \in Bad : i <= j
    <3>1. Bad \in SUBSET Nat
      OBVIOUS
    <3> HIDE DEF Bad
    <3>2. QED
      BY <2>1, <3>1, NatHasMin
  <2>3. i \in 0 .. n /\ ~ Fine(i)
    BY <2>2
  <2>4. CASE i = 0
    <3>1. Until(0) = DOMAIN b.data
      OBVIOUS
    <3>2. QED
      BY <1>2, <2>3, <2>4, <3>1, Zenon
  <2>5. CASE i # 0
    <3>1. i \in 1 .. n /\ i - 1 \in 0 .. n /\ ~ (i <= i - 1)
      BY <2>3, <2>5
    <3>2. Fine(i - 1)
      <4>1. i - 1 \notin Bad
        <5> HIDE DEF Bad
        <5>1. QED
          BY <2>2, <3>1
      <4> HIDE DEF Fine
      <4>2. QED
        BY <3>1, <4>1
    <3>3. q[i] \in Parts /\ g[i] = Window!Visit(g[i - 1], q[i])
      BY <1>2, <3>1
    <3>4. Drawn(g[i], B, D) /\ DOMAIN g[i].data = DOMAIN g[i - 1].data \cup {q[i]}
      BY <3>2, <3>3, VisitDraws, Zenon
    <3>5. Until(i) = Until(i - 1) \cup {q[i]}
      <4>1. 1 .. i = (1 .. i - 1) \cup {i}
        BY <3>1
      <4>2. QED
        BY <4>1, Zenon
    <3>6. QED
      BY <2>3, <3>2, <3>4, <3>5, Zenon
  <2>6. QED
    BY <2>4, <2>5
<1>4. Fine(n)
  <2>1. n \in 0 .. n /\ n \notin Bad
    BY <1>3
  <2> HIDE DEF Fine
  <2>2. QED
    BY <2>1
<1>5. Until(n) = DOMAIN b.data \cup RangeOf(q)
  <2>1. DOMAIN q = 1 .. n
    OBVIOUS
  <2>2. QED
    BY <2>1, Zenon DEF RangeOf
<1>6. QED
  BY <1>2, <1>4, <1>5, Zenon

(* Removing the drawings of some leaves those of the others.               *)
LEMMA GoneRemoved ==
  ASSUME NEW s, NEW B, NEW D, Drawn(s, B, D), NEW gone \in SUBSET DOMAIN s.data,
         NEW t, t = Window!RemoveGone(s, gone)
  PROVE  Drawn(t, B, D) /\ DOMAIN t.data = DOMAIN s.data \ gone
<1>1. PICK d, f : d = s.data /\ f = [p \in DOMAIN d \ gone |-> d[p]]
  OBVIOUS
<1>2. t.data = f /\ t.scene = s.scene \ {d[p] : p \in gone}
  BY <1>1, Zenon DEF Window!RemoveGone
<1>3. /\ DOMAIN d \subseteq Parts /\ d \in [DOMAIN d -> Window!Handle] /\ OneToOne(d)
      /\ RangeOf(d) \cap (B \cup D) = {} /\ s.scene = RangeOf(d) \cup B \cup D
  BY <1>1, Zenon DEF Drawn
<1>4. DOMAIN f = DOMAIN d \ gone /\ \A p \in DOMAIN f : f[p] = d[p] /\ p \in DOMAIN d
  BY <1>1
<1>5. RangeOf(f) \subseteq RangeOf(d)
  BY <1>4, Zenon DEF RangeOf
<1>6. {d[p] : p \in gone} \subseteq RangeOf(d)
  BY <1>1, Zenon DEF RangeOf
<1>7. RangeOf(f) = RangeOf(d) \ {d[p] : p \in gone}
  <2>1. ASSUME NEW h \in RangeOf(f) PROVE h \notin {d[p] : p \in gone}
    <3>1. PICK r \in DOMAIN f : h = d[r] /\ r \in DOMAIN d \ gone
      BY <1>4, Zenon DEF RangeOf
    <3>2. ASSUME NEW p \in gone, h = d[p] PROVE FALSE
      <4>1. p \in DOMAIN d /\ r \in DOMAIN d /\ d[r] = d[p]
        BY <1>1, <3>1, <3>2, Zenon
      <4>2. r = p
        BY <1>3, <4>1, Zenon DEF OneToOne
      <4>3. QED
        BY <3>1, <4>2, Zenon
    <3>3. QED
      BY <3>2, Zenon
  <2>2. ASSUME NEW h \in RangeOf(d), h \notin {d[p] : p \in gone} PROVE h \in RangeOf(f)
    <3>1. PICK r \in DOMAIN d : h = d[r]
      BY Zenon DEF RangeOf
    <3>2. r \in DOMAIN f
      BY <1>4, <2>2, <3>1, Zenon
    <3>3. QED
      BY <1>4, <3>1, <3>2, Zenon DEF RangeOf
  <2>3. QED
    BY <1>5, <2>1, <2>2, Zenon
<1>8. t.scene = RangeOf(f) \cup B \cup D
  BY <1>2, <1>3, <1>6, <1>7
<1>9. f \in [DOMAIN f -> Window!Handle] /\ OneToOne(f) /\ DOMAIN f \subseteq Parts
  <2>1. OneToOne(f)
    BY <1>3, <1>4, Zenon DEF OneToOne
  <2>2. \A p \in DOMAIN d \ gone : d[p] \in Window!Handle
    BY <1>3
  <2>3. f \in [DOMAIN f -> Window!Handle]
    BY <1>1, <1>4, <2>2, Zenon
  <2>4. QED
    BY <1>3, <1>4, <2>1, <2>3, Zenon
<1>10. RangeOf(f) \cap (B \cup D) = {}
  BY <1>3, <1>5
<1>11. QED
  BY <1>1, <1>2, <1>4, <1>8, <1>9, <1>10, Zenon DEF Drawn

(* Drawing surfaces one after another.                                     *)
Marked == AnyHandle \cup {-1}
MeshDrawings(S) == [mesh : [S -> Marked], scene : SUBSET Marked, visible : SUBSET Marked]

(* Visiting a surface leaves drawings of the same surfaces.                *)
LEMMA VisitSurfaceType ==
  ASSUME NEW S, NEW s \in MeshDrawings(S), NEW x \in S
  PROVE  Window!VisitSurface(s, x) \in MeshDrawings(S)
<1>1. PICK h : h = Window!FreeHandle(s.scene)
  OBVIOUS
<1>2. h \in Marked
  BY <1>1, HandleOrLost, Zenon DEF AnyHandle, Marked
<1>3. s.mesh \in [S -> Marked] /\ s.scene \in SUBSET Marked /\ s.visible \in SUBSET Marked
  BY DEF MeshDrawings
<1>4. CASE s.mesh[x] = -1
  <2>1. Window!VisitSurface(s, x) = [mesh |-> [s.mesh EXCEPT ![x] = h],
          scene |-> s.scene \cup {h}, visible |-> s.visible \cup {h}]
    BY <1>1, <1>4, Zenon DEF Window!VisitSurface
  <2> HIDE DEF Marked
  <2>2. [s.mesh EXCEPT ![x] = h] \in [S -> Marked]
    BY <1>2, <1>3
  <2>3. s.scene \cup {h} \in SUBSET Marked /\ s.visible \cup {h} \in SUBSET Marked
    BY <1>2, <1>3
  <2>4. QED
    BY <2>1, <2>2, <2>3 DEF MeshDrawings
<1>5. CASE s.mesh[x] # -1
  <2>1. Window!VisitSurface(s, x) = [s EXCEPT !.visible = @ \cup {s.mesh[x]}]
    BY <1>5, Zenon DEF Window!VisitSurface
  <2> HIDE DEF Marked
  <2>2. s.mesh[x] \in Marked
    BY <1>3
  <2>3. s.visible \cup {s.mesh[x]} \in SUBSET Marked
    BY <1>3, <2>2
  <2>4. QED
    BY <2>1, <2>3 DEF MeshDrawings
<1>6. QED
  BY <1>4, <1>5

(* The drawings after each of the surfaces.                                *)
SurfacesInTurn(g, b, q, n) ==
  /\ g[0] = b
  /\ \A i \in 1 .. n : g[i] = Window!VisitSurface(g[i - 1], q[i])
  /\ g[n] = Window!FoldLeft(Window!VisitSurface, b, q)

(* There are such drawings for any sequence of surfaces.                   *)
LEMMA SurfacesVisitedInTurn ==
  ASSUME NEW S, NEW b \in MeshDrawings(S), NEW n \in Nat, NEW q \in [1 .. n -> S]
  PROVE  \E g : SurfacesInTurn(g, b, q, n)
<1> DEFINE Sets  == SUBSET (1 .. n)
           on    == [e \in (1 .. n) \X MeshDrawings(S) |-> Window!VisitSurface(e[2], q[e[1]])]
           Is(r) == r = [s \in Sets |-> IF s = {} THEN b
                                        ELSE Window!VisitSurface(r[s \ {Max(s)}], q[Max(s)])]
<1>1. SetRecursive(b, on, n, MeshDrawings(S))
  <2>1. \A e \in (1 .. n) \X MeshDrawings(S) : Window!VisitSurface(e[2], q[e[1]]) \in MeshDrawings(S)
    <3>1. SUFFICES ASSUME NEW i \in 1 .. n, NEW s \in MeshDrawings(S)
                   PROVE  Window!VisitSurface(s, q[i]) \in MeshDrawings(S)
      BY Zenon
    <3>2. q[i] \in S
      OBVIOUS
    <3>3. QED
      BY <3>2, VisitSurfaceType, Zenon
  <2>2. on \in [(1 .. n) \X MeshDrawings(S) -> MeshDrawings(S)]
    BY <2>1, Zenon
  <2>3. QED
    BY <2>2, Zenon DEF SetRecursive
<1>2. PICK f : SetComputes(f, b, on, n, MeshDrawings(S))
  <2> HIDE DEF on
  <2>1. QED
    BY <1>1, SetRecursion, Zenon
<1>3. Is(f)
  <2>1. f \in [Sets -> MeshDrawings(S)]
        /\ \A s \in Sets : f[s] = IF s = {} THEN b ELSE on[<<Max(s), f[s \ {Max(s)}]>>]
    <3> HIDE DEF on
    <3>1. QED
      BY <1>2, Zenon DEF SetComputes
  <2>2. ASSUME NEW s \in Sets
        PROVE  f[s] = IF s = {} THEN b ELSE Window!VisitSurface(f[s \ {Max(s)}], q[Max(s)])
    <3>1. CASE s = {}
      BY <2>1, <3>1, Zenon
    <3>2. CASE s # {}
      <4>1. PICK m : m = Max(s)
        OBVIOUS
      <4>2. m \in 1 .. n /\ s \ {m} \in Sets
        BY <3>2, <4>1, WithoutMax, Zenon
      <4>3. f[s \ {m}] \in MeshDrawings(S)
        BY <2>1, <4>2, Zenon
      <4>4. on[<<m, f[s \ {m}]>>] = Window!VisitSurface(f[s \ {m}], q[m])
        BY <4>2, <4>3, Zenon
      <4>5. QED
        BY <2>1, <3>2, <4>1, <4>4, Zenon
    <3>3. QED
      BY <3>1, <3>2
  <2> HIDE DEF Sets, on
  <2>3. QED
    BY <2>1, <2>2, Zenon
<1>4. PICK R : Is(R) /\ R[1 .. n] = Window!FoldLeft(Window!VisitSurface, b, q)
  <2>1. DOMAIN q = 1 .. n
    OBVIOUS
  <2>2. Window!FoldLeft(Window!VisitSurface, b, q) =
          (CHOOSE r : r = [s \in SUBSET DOMAIN q |-> IF s = {} THEN b
             ELSE Window!VisitSurface(r[s \ {Window!Max(s)}], q[Window!Max(s)])])[DOMAIN q]
    BY Zenon DEF Window!FoldLeft, Window!MapThenFoldSet
  <2>3. Window!FoldLeft(Window!VisitSurface, b, q) = (CHOOSE r : Is(r))[1 .. n]
    BY <2>1, <2>2, WindowMax, Zenon
  <2> HIDE DEF Is
  <2>4. QED
    BY <1>3, <2>3, Zenon
<1> DEFINE g == [i \in 0 .. n |-> R[1 .. i]]
<1>5. \A s \in Sets : R[s] = IF s = {} THEN b ELSE Window!VisitSurface(R[s \ {Max(s)}], q[Max(s)])
  <2> HIDE DEF Sets
  <2>1. QED
    BY <1>4, Zenon
<1>6. g[0] = b
  <2>1. g[0] = R[1 .. 0]
    OBVIOUS
  <2>2. 1 .. 0 = {}
    OBVIOUS
  <2>3. R[{}] = b
    BY <1>5, Zenon
  <2> HIDE DEF g
  <2>4. QED
    BY <2>1, <2>2, <2>3
<1>7. ASSUME NEW i \in 1 .. n PROVE g[i] = Window!VisitSurface(g[i - 1], q[i])
  <2>1. i \in 0 .. n /\ i - 1 \in 0 .. n
    OBVIOUS
  <2>2. g[i] = R[1 .. i] /\ g[i - 1] = R[1 .. i - 1]
    BY <2>1, Zenon
  <2>3. 1 .. i \in Sets /\ 1 .. i # {} /\ Max(1 .. i) = i /\ (1 .. i) \ {i} = 1 .. i - 1
    BY Segments, Zenon
  <2> HIDE DEF g
  <2>4. R[1 .. i] = Window!VisitSurface(R[1 .. i - 1], q[i])
    BY <1>5, <2>3, Zenon
  <2>5. QED
    BY <2>2, <2>4, Zenon
<1>8. g[n] = R[1 .. n]
  <2>1. n \in 0 .. n
    OBVIOUS
  <2>2. QED
    BY <2>1, Zenon
<1> HIDE DEF g
<1>9. SurfacesInTurn(g, b, q, n)
  BY <1>4, <1>6, <1>7, <1>8, Zenon DEF SurfacesInTurn
<1>10. QED
  BY <1>9, Zenon

(* Of the surfaces those that are done have handles, those of this frame;  *)
(* the others have what they came with.                                    *)
Meshed(S, m, c, v, meshes, done, A, B, D) ==
  /\ m \in [S -> Window!Handle \cup {-1}]
  /\ \A x, y \in S : m[x] = m[y] /\ m[x] # -1 => x = y
  /\ \A x \in S :
       /\ m[x] # -1 => m[x] \notin A \cup D /\ m[x] \in c
       /\ x \in done => m[x] # -1
       /\ x \notin done => m[x] = meshes[x]
  /\ v = {m[x] : x \in done}
  /\ c = A \cup B \cup v \cup D

SurfacesDrawn(s, meshes, done, A, B, D) ==
  /\ DOMAIN s = {"mesh", "scene", "visible"}
  /\ Meshed(DOMAIN meshes, s.mesh, s.scene, s.visible, meshes, done, A, B, D)

(* What is beside the surfaces.                                            *)
Around(meshes, A, B, D) ==
  /\ Beside(B, D) /\ IsFiniteSet(A) /\ Cardinality(A) <= Cardinality(Parts)
  /\ DOMAIN meshes \subseteq Surface

(* A surface that is visited has a drawing of its own, that is shown.      *)
LEMMA SurfaceIsDrawn ==
  ASSUME NEW s, NEW meshes, NEW done \in SUBSET DOMAIN meshes, NEW A, NEW B, NEW D,
         SurfacesDrawn(s, meshes, done, A, B, D), Around(meshes, A, B, D),
         NEW x \in DOMAIN meshes \ done, NEW t, t = Window!VisitSurface(s, x)
  PROVE  SurfacesDrawn(t, meshes, done \cup {x}, A, B, D)
<1>1. PICK S, m, c, v : S = DOMAIN meshes /\ m = s.mesh /\ c = s.scene /\ v = s.visible
  OBVIOUS
<1>2. /\ m \in [S -> Window!Handle \cup {-1}]
      /\ \A y, z \in S : m[y] = m[z] /\ m[y] # -1 => y = z
      /\ \A y \in S : /\ m[y] # -1 => m[y] \notin A \cup D /\ m[y] \in c
                      /\ y \in done => m[y] # -1
                      /\ y \notin done => m[y] = meshes[y]
      /\ v = {m[y] : y \in done}
      /\ c = A \cup B \cup v \cup D
  <2>1. Meshed(S, m, c, v, meshes, done, A, B, D)
    BY <1>1, Zenon DEF SurfacesDrawn
  <2>2. QED
    BY <2>1, Zenon DEF Meshed
<1>3. x \in S /\ x \notin done /\ done \subseteq S
  BY <1>1
<1>4. CASE m[x] # -1
  <2>1. t = [s EXCEPT !.visible = @ \cup {s.mesh[x]}]
    BY <1>1, <1>4, Zenon DEF Window!VisitSurface
  <2>2. t.mesh = m /\ t.scene = c /\ t.visible = v \cup {m[x]}
        /\ DOMAIN t = {"mesh", "scene", "visible"}
    <3>1. DOMAIN s = {"mesh", "scene", "visible"}
      BY Zenon DEF SurfacesDrawn
    <3>2. QED
      BY <1>1, <2>1, <3>1
  <2>3. v \cup {m[x]} = {m[y] : y \in done \cup {x}}
    BY <1>2
  <2>4. c = A \cup B \cup (v \cup {m[x]}) \cup D
    <3>1. m[x] \in c
      BY <1>2, <1>3, <1>4
    <3>2. QED
      BY <1>2, <3>1
  <2>5. \A y \in S : /\ y \in done \cup {x} => m[y] # -1
                     /\ y \notin done \cup {x} => m[y] = meshes[y]
    BY <1>2, <1>4
  <2>6. Meshed(S, m, c, v \cup {m[x]}, meshes, done \cup {x}, A, B, D)
    BY <1>2, <2>3, <2>4, <2>5, Zenon DEF Meshed
  <2>7. QED
    BY <1>1, <2>2, <2>6, Zenon DEF SurfacesDrawn
<1>5. CASE m[x] = -1
  <2>1. PICK h : h = Window!FreeHandle(c)
    OBVIOUS
  <2>2. PICK n : n = [m EXCEPT ![x] = h]
    OBVIOUS
  <2>3. t = [mesh |-> n, scene |-> c \cup {h}, visible |-> v \cup {h}]
    BY <1>1, <1>5, <2>1, <2>2, Zenon DEF Window!VisitSurface
  <2>4. t.mesh = n /\ t.scene = c \cup {h} /\ t.visible = v \cup {h}
        /\ DOMAIN t = {"mesh", "scene", "visible"}
    BY <2>3
  <2>5. IsFiniteSet(v) /\ Cardinality(v) < Cardinality(Surface)
    <3>1. done \in SUBSET Surface /\ x \in Surface
      BY <1>1, <1>3, Zenon DEF Around
    <3>2. IsFiniteSet(done) /\ Cardinality(done) <= Cardinality(Surface)
          /\ (Cardinality(Surface) = Cardinality(done) => Surface = done)
      BY <3>1, SceneAssumption, FS_Subset, Zenon
    <3>3. Cardinality(done) # Cardinality(Surface)
      BY <1>3, <3>1, <3>2, Zenon
    <3>4. PICK f : f = [y \in done |-> m[y]]
      OBVIOUS
    <3>5. DOMAIN f = done /\ RangeOf(f) = v /\ f \in [DOMAIN f -> RangeOf(f)]
      BY <1>2, <3>4 DEF RangeOf
    <3>6. IsFiniteSet(v) /\ Cardinality(v) \in Nat /\ Cardinality(done) \in Nat
          /\ Cardinality(v) <= Cardinality(done)
      BY <3>2, <3>5, RangeSize, Zenon
    <3>7. Cardinality(Surface) \in Nat
      BY HandlesCounted
    <3>8. QED
      BY <3>2, <3>3, <3>6, <3>7
  <2>6. h \in Window!Handle /\ h \notin c
    <3>1. Cardinality(v) <= Cardinality(Surface)
      <4>1. Cardinality(v) \in Nat /\ Cardinality(Surface) \in Nat
        BY <2>5, HandlesCounted, FS_CardinalityType, Zenon
      <4>2. QED
        BY <2>5, <4>1
    <3>2. Fits(A, B, v, D)
      BY <2>5, <3>1, Zenon DEF Fits, Around, Beside
    <3>3. PICK R : R = A \cup B \cup v \cup D
      OBVIOUS
    <3>4. Window!FreeHandle(R) \in Window!Handle \ R
      BY <3>2, <3>3, RoomLeft, Zenon
    <3>5. QED
      BY <1>2, <2>1, <3>3, <3>4, Zenon
  <2>7. h # -1
    BY <2>6, HandlesCounted
  <2>8. n[x] = h /\ (\A y \in S : y # x => n[y] = m[y])
        /\ n \in [S -> Window!Handle \cup {-1}]
    BY <1>2, <1>3, <2>2, <2>6
  <2>9. \A y \in S : m[y] # h
    BY <1>2, <2>6, <2>7
  <2>10. h \notin A \cup D
    BY <1>2, <2>6
  <2>11. \A y, z \in S : n[y] = n[z] /\ n[y] # -1 => y = z
    BY <1>2, <2>8, <2>9, Zenon
  <2>12. \A y \in S : /\ n[y] # -1 => n[y] \notin A \cup D /\ n[y] \in c \cup {h}
                      /\ y \in done \cup {x} => n[y] # -1
                      /\ y \notin done \cup {x} => n[y] = meshes[y]
    BY <1>2, <1>3, <2>7, <2>8, <2>10
  <2>13. v \cup {h} = {n[y] : y \in done \cup {x}}
    <3>1. \A y \in done : n[y] = m[y]
      BY <1>3, <2>8
    <3>2. QED
      BY <1>2, <2>8, <3>1
  <2>14. c \cup {h} = A \cup B \cup (v \cup {h}) \cup D
    BY <1>2
  <2>15. Meshed(S, n, c \cup {h}, v \cup {h}, meshes, done \cup {x}, A, B, D)
    BY <2>8, <2>11, <2>12, <2>13, <2>14, Zenon DEF Meshed
  <2>16. QED
    BY <1>1, <2>4, <2>15, Zenon DEF SurfacesDrawn
<1>6. QED
  BY <1>4, <1>5

(* So do all surfaces, when each of them is visited once.                  *)
LEMMA SurfacesAreDrawn ==
  ASSUME NEW meshes, NEW b \in MeshDrawings(DOMAIN meshes), NEW n \in Nat,
         NEW q \in [1 .. n -> DOMAIN meshes], OneToOne(q), RangeOf(q) = DOMAIN meshes,
         NEW A, NEW B, NEW D, SurfacesDrawn(b, meshes, {}, A, B, D), Around(meshes, A, B, D),
         NEW t, t = Window!FoldLeft(Window!VisitSurface, b, q)
  PROVE  SurfacesDrawn(t, meshes, DOMAIN meshes, A, B, D)
<1>1. PICK g : SurfacesInTurn(g, b, q, n)
  BY SurfacesVisitedInTurn, Zenon
<1>2. /\ g[0] = b
      /\ \A i \in 1 .. n : g[i] = Window!VisitSurface(g[i - 1], q[i])
      /\ g[n] = t
  BY <1>1, Zenon DEF SurfacesInTurn
<1> DEFINE Until(i) == {q[j] : j \in 1 .. i}
           Fine(i)  == SurfacesDrawn(g[i], meshes, Until(i), A, B, D)
           Bad      == {i \in 0 .. n : ~ Fine(i)}
<1>3. Bad = {}
  <2>1. SUFFICES ASSUME Bad # {} PROVE FALSE
    OBVIOUS
  <2>2. PICK i \in Bad : \A j \in Bad : i <= j
    <3>1. Bad \in SUBSET Nat
      OBVIOUS
    <3> HIDE DEF Bad
    <3>2. QED
      BY <2>1, <3>1, NatHasMin
  <2>3. i \in 0 .. n /\ ~ Fine(i)
    BY <2>2
  <2>4. CASE i = 0
    <3>1. Until(0) = {}
      OBVIOUS
    <3>2. QED
      BY <1>2, <2>3, <2>4, <3>1, Zenon
  <2>5. CASE i # 0
    <3>1. i \in 1 .. n /\ i - 1 \in 0 .. n /\ ~ (i <= i - 1)
      BY <2>3, <2>5
    <3>2. Fine(i - 1)
      <4>1. i - 1 \notin Bad
        <5> HIDE DEF Bad
        <5>1. QED
          BY <2>2, <3>1
      <4> HIDE DEF Fine
      <4>2. QED
        BY <3>1, <4>1
    <3>3. q[i] \in DOMAIN meshes /\ g[i] = Window!VisitSurface(g[i - 1], q[i])
      BY <1>2, <3>1
    <3>4. Until(i - 1) \subseteq DOMAIN meshes /\ q[i] \notin Until(i - 1)
      <4>1. \A j \in 1 .. i - 1 : j \in 1 .. n /\ j # i
        BY <3>1
      <4>2. DOMAIN q = 1 .. n
        OBVIOUS
      <4>3. \A j \in 1 .. i - 1 : q[j] \in DOMAIN meshes /\ q[j] # q[i]
        BY <3>1, <4>1, <4>2 DEF OneToOne
      <4>4. QED
        BY <4>3, Zenon
    <3>5. SurfacesDrawn(g[i], meshes, Until(i - 1) \cup {q[i]}, A, B, D)
      <4> HIDE DEF Until
      <4>1. QED
        BY <3>2, <3>3, <3>4, SurfaceIsDrawn, Zenon
    <3>6. Until(i) = Until(i - 1) \cup {q[i]}
      <4>1. 1 .. i = (1 .. i - 1) \cup {i}
        BY <3>1
      <4>2. QED
        BY <4>1, Zenon
    <3>7. QED
      BY <2>3, <3>5, <3>6, Zenon
  <2>6. QED
    BY <2>4, <2>5
<1>4. Fine(n)
  <2>1. n \in 0 .. n
    OBVIOUS
  <2>2. n \notin Bad
    BY <1>3, Zenon
  <2> HIDE DEF Fine
  <2>3. QED
    BY <2>1, <2>2
<1>5. Until(n) = DOMAIN meshes
  <2>1. DOMAIN q = 1 .. n
    OBVIOUS
  <2>2. QED
    BY <2>1, Zenon DEF RangeOf
<1>6. QED
  BY <1>2, <1>4, <1>5, Zenon

(* Drawing clouds one after another, with the handles there are.           *)
CloudDrawings == [handles : Seq(AnyHandle), scene : SUBSET AnyHandle]

AddCloud(old, keep, s, i) ==
  LET h == IF i \in keep THEN old[i] ELSE Window!FreeHandle(s.scene)
  IN  [handles |-> Append(s.handles, h), scene |-> s.scene \cup {h}]

(* Adding a cloud leaves drawings of clouds.                               *)
LEMMA AddCloudType ==
  ASSUME NEW old, NEW keep, \A i \in keep : old[i] \in Window!Handle,
         NEW s \in CloudDrawings, NEW i
  PROVE  AddCloud(old, keep, s, i) \in CloudDrawings
<1>1. PICK h : h = IF i \in keep THEN old[i] ELSE Window!FreeHandle(s.scene)
  OBVIOUS
<1>2. h \in AnyHandle
  BY <1>1, HandleOrLost, Zenon DEF AnyHandle
<1>3. AddCloud(old, keep, s, i) = [handles |-> Append(s.handles, h), scene |-> s.scene \cup {h}]
  BY <1>1, Zenon DEF AddCloud
<1>4. s.handles \in Seq(AnyHandle) /\ s.scene \in SUBSET AnyHandle
  BY DEF CloudDrawings
<1> HIDE DEF AnyHandle
<1>5. Append(s.handles, h) \in Seq(AnyHandle) /\ s.scene \cup {h} \in SUBSET AnyHandle
  BY <1>2, <1>4
<1>6. QED
  BY <1>3, <1>5 DEF CloudDrawings

Kept(n) == {i \in DOMAIN cloudHandles : i <= n}

(* The drawings after each of the clouds.                                  *)
CloudsInTurn(g, b, n) ==
  /\ g[0] = b
  /\ \A i \in 1 .. n : g[i] = AddCloud(cloudHandles, Kept(n), g[i - 1], i)
  /\ Window!Clouds(n, b.scene) =
       [g[n] EXCEPT !.scene = @ \ {cloudHandles[i] : i \in DOMAIN cloudHandles \ Kept(n)}]

(* There are such drawings for any number of clouds.                       *)
LEMMA CloudsAddedInTurn ==
  ASSUME NEW n \in Nat, NEW taken \in SUBSET AnyHandle,
         \A i \in Kept(n) : cloudHandles[i] \in Window!Handle,
         NEW b, b = [handles |-> <<>>, scene |-> taken]
  PROVE  \E g : CloudsInTurn(g, b, n)
<1> DEFINE q     == [i \in 1 .. n |-> i]
           Sets  == SUBSET (1 .. n)
           on    == [e \in (1 .. n) \X CloudDrawings |-> AddCloud(cloudHandles, Kept(n), e[2], e[1])]
           Is(r) == r = [s \in Sets |-> IF s = {} THEN b
                                        ELSE AddCloud(cloudHandles, Kept(n), r[s \ {Max(s)}], q[Max(s)])]
<1>1. SetRecursive(b, on, n, CloudDrawings)
  <2>1. \A e \in (1 .. n) \X CloudDrawings : AddCloud(cloudHandles, Kept(n), e[2], e[1]) \in CloudDrawings
    <3>1. SUFFICES ASSUME NEW i \in 1 .. n, NEW s \in CloudDrawings
                   PROVE  AddCloud(cloudHandles, Kept(n), s, i) \in CloudDrawings
      BY Zenon
    <3>2. QED
      BY AddCloudType, Zenon
  <2>2. on \in [(1 .. n) \X CloudDrawings -> CloudDrawings]
    BY <2>1, Zenon
  <2>3. b \in CloudDrawings
    <3>1. <<>> \in Seq(AnyHandle)
      OBVIOUS
    <3>2. QED
      BY <3>1 DEF CloudDrawings
  <2>4. QED
    BY <2>2, <2>3, Zenon DEF SetRecursive
<1>2. PICK f : SetComputes(f, b, on, n, CloudDrawings)
  <2> HIDE DEF on
  <2>1. QED
    BY <1>1, SetRecursion, Zenon
<1>3. Is(f)
  <2>1. f \in [Sets -> CloudDrawings]
        /\ \A s \in Sets : f[s] = IF s = {} THEN b ELSE on[<<Max(s), f[s \ {Max(s)}]>>]
    <3> HIDE DEF on
    <3>1. QED
      BY <1>2, Zenon DEF SetComputes
  <2>2. ASSUME NEW s \in Sets
        PROVE  f[s] = IF s = {} THEN b
                      ELSE AddCloud(cloudHandles, Kept(n), f[s \ {Max(s)}], q[Max(s)])
    <3>1. CASE s = {}
      BY <2>1, <3>1, Zenon
    <3>2. CASE s # {}
      <4>1. PICK m : m = Max(s)
        OBVIOUS
      <4>2. m \in 1 .. n /\ s \ {m} \in Sets
        BY <3>2, <4>1, WithoutMax, Zenon
      <4>3. f[s \ {m}] \in CloudDrawings
        BY <2>1, <4>2, Zenon
      <4>4. on[<<m, f[s \ {m}]>>] = AddCloud(cloudHandles, Kept(n), f[s \ {m}], m)
        BY <4>2, <4>3, Zenon
      <4>5. q[m] = m
        BY <4>2
      <4> HIDE DEF q
      <4>6. QED
        BY <2>1, <3>2, <4>1, <4>4, <4>5, Zenon
    <3>3. QED
      BY <3>1, <3>2
  <2> HIDE DEF Sets, on, q
  <2>3. QED
    BY <2>1, <2>2, Zenon
<1>4. PICK R : Is(R) /\ Window!Clouds(n, taken) =
                 [R[1 .. n] EXCEPT !.scene = @ \ {cloudHandles[i] : i \in DOMAIN cloudHandles \ Kept(n)}]
  <2> DEFINE c == [handles |-> <<>>, scene |-> taken]
  <2>1. DOMAIN q = 1 .. n
    OBVIOUS
  <2> DEFINE last == (CHOOSE r : r = [s \in SUBSET DOMAIN q |-> IF s = {} THEN c
                        ELSE AddCloud(cloudHandles, Kept(n), r[s \ {Window!Max(s)}],
                                      q[Window!Max(s)])])[DOMAIN q]
  <2>2. Window!Clouds(n, taken) =
          [last EXCEPT !.scene = @ \ {cloudHandles[i] : i \in DOMAIN cloudHandles \ Kept(n)}]
    BY Zenon DEF Window!Clouds, Window!FoldLeft, Window!MapThenFoldSet, AddCloud, Kept
  <2>3. c = b
    OBVIOUS
  <2> HIDE DEF q, c
  <2>4. last = (CHOOSE r : Is(r))[1 .. n]
    BY <2>1, <2>3, WindowMax, Zenon
  <2> HIDE DEF Is, last
  <2>5. QED
    BY <1>3, <2>2, <2>4, Zenon
<1> DEFINE g == [i \in 0 .. n |-> R[1 .. i]]
<1>5. \A s \in Sets : R[s] = IF s = {} THEN b
                             ELSE AddCloud(cloudHandles, Kept(n), R[s \ {Max(s)}], q[Max(s)])
  <2> HIDE DEF Sets, q
  <2>1. QED
    BY <1>4, Zenon
<1>6. g[0] = b
  <2>1. g[0] = R[1 .. 0]
    OBVIOUS
  <2>2. 1 .. 0 = {}
    OBVIOUS
  <2>3. R[{}] = b
    BY <1>5, Zenon
  <2> HIDE DEF g
  <2>4. QED
    BY <2>1, <2>2, <2>3
<1>7. ASSUME NEW i \in 1 .. n PROVE g[i] = AddCloud(cloudHandles, Kept(n), g[i - 1], i)
  <2>1. i \in 0 .. n /\ i - 1 \in 0 .. n
    OBVIOUS
  <2>2. g[i] = R[1 .. i] /\ g[i - 1] = R[1 .. i - 1]
    BY <2>1, Zenon
  <2>3. 1 .. i \in Sets /\ 1 .. i # {} /\ Max(1 .. i) = i /\ (1 .. i) \ {i} = 1 .. i - 1
    BY Segments, Zenon
  <2>4. q[i] = i
    OBVIOUS
  <2> HIDE DEF g, q
  <2>5. R[1 .. i] = AddCloud(cloudHandles, Kept(n), R[1 .. i - 1], i)
    BY <1>5, <2>3, <2>4, Zenon
  <2>6. QED
    BY <2>2, <2>5, Zenon
<1>8. g[n] = R[1 .. n]
  <2>1. n \in 0 .. n
    OBVIOUS
  <2>2. QED
    BY <2>1, Zenon
<1> HIDE DEF g
<1>9. CloudsInTurn(g, b, n)
  <2>1. b.scene = taken
    OBVIOUS
  <2> HIDE DEF q, Is
  <2>2. QED
    BY <1>4, <1>6, <1>7, <1>8, <2>1, Zenon DEF CloudsInTurn
<1>10. QED
  BY <1>9, Zenon

(* The clouds so far have the handles that are kept, or new ones.          *)
CloudsDrawn(h, c, i, n, A, V) ==
  /\ h \in Seq(Window!Handle) /\ Len(h) = i /\ OneToOne(h)
  /\ \A j \in 1 .. i : IF j \in Kept(n) THEN h[j] = cloudHandles[j]
                       ELSE h[j] \notin A \cup V \cup RangeOf(cloudHandles)
  /\ c = A \cup V \cup RangeOf(cloudHandles) \cup RangeOf(h)

(* What is beside the clouds.                                              *)
CloudsFit(n, A, V) ==
  /\ n \in 0 .. MaxClouds
  /\ cloudHandles \in Seq(Window!Handle) /\ Len(cloudHandles) <= MaxClouds
  /\ OneToOne(cloudHandles)
  /\ IsFiniteSet(A) /\ Cardinality(A) <= Cardinality(Parts)
  /\ IsFiniteSet(V) /\ Cardinality(V) <= Cardinality(Surface)
  /\ (A \cup V) \cap RangeOf(cloudHandles) = {}

(* A cloud more has a drawing of its own.                                  *)
LEMMA CloudIsDrawn ==
  ASSUME NEW n, NEW A, NEW V, CloudsFit(n, A, V), NEW i \in 1 .. n, NEW s,
         CloudsDrawn(s.handles, s.scene, i - 1, n, A, V),
         NEW t, t = AddCloud(cloudHandles, Kept(n), s, i)
  PROVE  CloudsDrawn(t.handles, t.scene, i, n, A, V)
<1>1. PICK a, c, o, D : /\ a = s.handles /\ c = s.scene /\ o = cloudHandles
                        /\ D = RangeOf(cloudHandles)
  OBVIOUS
<1>2. n \in Nat /\ i \in Nat /\ i - 1 \in Nat /\ i <= n /\ n <= MaxClouds /\ i # 0
  BY SceneAssumption DEF CloudsFit
<1>3. /\ a \in Seq(Window!Handle) /\ Len(a) = i - 1 /\ OneToOne(a)
      /\ \A j \in 1 .. i - 1 : IF j \in Kept(n) THEN a[j] = o[j] ELSE a[j] \notin A \cup V \cup D
      /\ c = A \cup V \cup D \cup RangeOf(a)
  BY <1>1, Zenon DEF CloudsDrawn
<1>4. /\ o \in Seq(Window!Handle) /\ Len(o) <= MaxClouds /\ OneToOne(o)
      /\ DOMAIN o = 1 .. Len(o) /\ Len(o) \in Nat
  <2>1. o \in Seq(Window!Handle) /\ Len(o) <= MaxClouds /\ OneToOne(o)
    BY <1>1, Zenon DEF CloudsFit
  <2>2. QED
    BY <2>1
<1>5. \A j : j \in Kept(n) <=> j \in 1 .. Len(o) /\ j <= n
  BY <1>1, <1>4, Zenon DEF Kept
<1>6. DOMAIN a = 1 .. i - 1
  BY <1>3
<1>7. PICK h : h = IF i \in Kept(n) THEN o[i] ELSE Window!FreeHandle(c)
  OBVIOUS
<1>8. t.handles = Append(a, h) /\ t.scene = c \cup {h}
  <2>1. t = [handles |-> Append(a, h), scene |-> c \cup {h}]
    BY <1>1, <1>7, Zenon DEF AddCloud
  <2>2. QED
    BY <2>1
<1>9. /\ h \in Window!Handle
      /\ \A j \in 1 .. i - 1 : a[j] # h
      /\ IF i \in Kept(n) THEN h = o[i] ELSE h \notin A \cup V \cup D
  <2>1. CASE i \in Kept(n)
    <3>1. i \in 1 .. Len(o) /\ h = o[i]
      BY <1>5, <1>7, <2>1
    <3>2. h \in Window!Handle
      BY <1>4, <3>1
    <3>3. \A j \in 1 .. i - 1 : j \in 1 .. Len(o) /\ j <= n /\ j # i
      BY <1>2, <1>4, <3>1
    <3>4. \A j \in 1 .. i - 1 : a[j] = o[j]
      BY <1>3, <1>5, <3>3, Zenon
    <3>5. \A j \in 1 .. i - 1 : o[j] # o[i]
      BY <1>4, <3>1, <3>3, Zenon DEF OneToOne
    <3>6. QED
      BY <2>1, <3>1, <3>2, <3>4, <3>5, Zenon
  <2>2. CASE i \notin Kept(n)
    <3>1. Len(o) <= i - 1
      BY <1>2, <1>4, <1>5, <2>2
    <3>2. D \subseteq RangeOf(a)
      <4>1. \A j \in 1 .. Len(o) : j \in 1 .. i - 1 /\ j <= n
        BY <1>2, <1>4, <3>1
      <4>2. \A j \in 1 .. Len(o) : a[j] = o[j] /\ j \in DOMAIN a
        BY <1>3, <1>5, <1>6, <4>1, Zenon
      <4>3. QED
        BY <1>1, <1>4, <4>2, Zenon DEF RangeOf
    <3>3. IsFiniteSet(RangeOf(a)) /\ Cardinality(RangeOf(a)) = i - 1
      <4>1. IsFiniteSet(1 .. i - 1) /\ Cardinality(1 .. i - 1) = i - 1
        <5>1. IsFiniteSet(1 .. i - 1)
              /\ Cardinality(1 .. i - 1) = IF 1 > i - 1 THEN 0 ELSE (i - 1) - 1 + 1
          BY <1>2, FS_Interval
        <5>2. QED
          BY <1>2, <5>1
      <4>2. a \in [DOMAIN a -> RangeOf(a)]
        <5>1. a \in [1 .. i - 1 -> Window!Handle]
          BY <1>3
        <5>2. QED
          BY <1>6, <5>1 DEF RangeOf
      <4>3. QED
        BY <1>3, <1>6, <4>1, <4>2, RangeSize, Zenon
    <3>4. Fits(A, {}, V, RangeOf(a))
      <4>1. Cardinality({}) = 0 /\ IsFiniteSet({}) /\ 0 <= Cardinality(Surface)
        BY FS_EmptySet, HandlesCounted
      <4>2. Cardinality(RangeOf(a)) < MaxClouds /\ Cardinality(RangeOf(a)) <= MaxClouds
        BY <1>2, <3>3, SceneAssumption
      <4>3. QED
        BY <3>3, <4>1, <4>2, Zenon DEF Fits, CloudsFit
    <3>5. PICK R : R = A \cup {} \cup V \cup RangeOf(a)
      OBVIOUS
    <3>6. R = c
      BY <1>3, <3>2, <3>5
    <3>7. h \in Window!Handle \ R
      <4>1. Window!FreeHandle(R) \in Window!Handle \ R
        BY <3>4, <3>5, RoomLeft, Zenon
      <4>2. h = Window!FreeHandle(R)
        BY <1>7, <2>2, <3>6, Zenon
      <4>3. QED
        BY <4>1, <4>2, Zenon
    <3>8. \A j \in 1 .. i - 1 : a[j] # h
      BY <1>6, <3>5, <3>7, Zenon DEF RangeOf
    <3>9. h \notin A \cup V \cup D
      BY <3>2, <3>5, <3>7, Zenon
    <3>10. QED
      BY <2>2, <3>7, <3>8, <3>9, Zenon
  <2>3. QED
    BY <2>1, <2>2
<1>10. PICK b : b = Append(a, h)
  OBVIOUS
<1>11. /\ b \in Seq(Window!Handle) /\ Len(b) = i /\ DOMAIN b = 1 .. i
       /\ b[i] = h /\ \A j \in 1 .. i - 1 : b[j] = a[j]
  BY <1>2, <1>3, <1>9, <1>10
<1>12. \A j \in 1 .. i : j \in 1 .. i - 1 \/ j = i
  BY <1>2
<1>13. i \in 1 .. i /\ \A j \in 1 .. i - 1 : j \in 1 .. i
  BY <1>2
<1>14. OneToOne(b)
  BY <1>3, <1>6, <1>9, <1>11, <1>12, Zenon DEF OneToOne
<1>15. RangeOf(b) = RangeOf(a) \cup {h}
  BY <1>6, <1>11, <1>12, <1>13, Zenon DEF RangeOf
<1>16. \A j \in 1 .. i : IF j \in Kept(n) THEN b[j] = o[j] ELSE b[j] \notin A \cup V \cup D
  BY <1>3, <1>9, <1>11, <1>12, Zenon
<1>17. c \cup {h} = A \cup V \cup D \cup RangeOf(b)
  BY <1>3, <1>15
<1>18. QED
  BY <1>1, <1>8, <1>10, <1>11, <1>14, <1>16, <1>17, Zenon DEF CloudsDrawn

(* All clouds of a frame do, and the drawings beyond them are removed.     *)
CloudsShown(t, n, beside) ==
  /\ t.handles \in Seq(Window!Handle) /\ Len(t.handles) = n /\ OneToOne(t.handles)
  /\ beside \cap RangeOf(t.handles) = {}
  /\ t.scene = beside \cup RangeOf(t.handles)

(* Drawing the clouds of a frame shows each of them.                       *)
LEMMA CloudsAreDrawn ==
  ASSUME NEW n, NEW A, NEW V, CloudsFit(n, A, V), A \cup V \subseteq AnyHandle,
         NEW t, t = Window!Clouds(n, A \cup V \cup RangeOf(cloudHandles))
  PROVE  CloudsShown(t, n, A \cup V)
<1>1. PICK o, D : o = cloudHandles /\ D = RangeOf(cloudHandles)
  OBVIOUS
<1>2. n \in Nat
  BY SceneAssumption DEF CloudsFit
<1>3. /\ o \in Seq(Window!Handle) /\ OneToOne(o) /\ DOMAIN o = 1 .. Len(o) /\ Len(o) \in Nat
      /\ (A \cup V) \cap D = {}
  <2>1. o \in Seq(Window!Handle) /\ OneToOne(o) /\ (A \cup V) \cap D = {}
    BY <1>1, Zenon DEF CloudsFit
  <2>2. QED
    BY <2>1
<1>4. D \subseteq Window!Handle
  <2>1. \A j \in DOMAIN o : o[j] \in Window!Handle
    BY <1>3
  <2>2. QED
    BY <1>1, <2>1, Zenon DEF RangeOf
<1>5. \A j : j \in Kept(n) <=> j \in 1 .. Len(o) /\ j <= n
  BY <1>1, <1>3, Zenon DEF Kept
<1>6. PICK b : b = [handles |-> <<>>, scene |-> A \cup V \cup D]
  OBVIOUS
<1>7. PICK g : CloudsInTurn(g, b, n)
  <2>1. A \cup V \cup D \in SUBSET AnyHandle
    BY <1>4, Zenon DEF AnyHandle
  <2>2. \A j \in Kept(n) : cloudHandles[j] \in Window!Handle
    BY <1>1, <1>3, <1>5
  <2>3. QED
    BY <1>2, <1>6, <2>1, <2>2, CloudsAddedInTurn, Zenon
<1>8. /\ g[0] = b
      /\ \A i \in 1 .. n : g[i] = AddCloud(cloudHandles, Kept(n), g[i - 1], i)
      /\ t = [g[n] EXCEPT !.scene = @ \ {o[i] : i \in DOMAIN o \ Kept(n)}]
  <2>1. b.scene = A \cup V \cup D
    BY <1>6
  <2>2. /\ g[0] = b
        /\ \A i \in 1 .. n : g[i] = AddCloud(cloudHandles, Kept(n), g[i - 1], i)
        /\ Window!Clouds(n, b.scene) =
             [g[n] EXCEPT !.scene = @ \ {cloudHandles[i] : i \in DOMAIN cloudHandles \ Kept(n)}]
    BY <1>7, Zenon DEF CloudsInTurn
  <2>3. t = Window!Clouds(n, b.scene)
    BY <1>1, <2>1, Zenon
  <2>4. t = [g[n] EXCEPT !.scene = @ \ {cloudHandles[i] : i \in DOMAIN cloudHandles \ Kept(n)}]
    BY <2>2, <2>3, Zenon
  <2>5. {cloudHandles[i] : i \in DOMAIN cloudHandles \ Kept(n)} = {o[i] : i \in DOMAIN o \ Kept(n)}
    BY <1>1, Zenon
  <2>6. QED
    BY <2>2, <2>4, <2>5, Zenon
<1> DEFINE Fine(i) == CloudsDrawn(g[i].handles, g[i].scene, i, n, A, V)
                      /\ DOMAIN g[i] = {"handles", "scene"}
           Bad     == {i \in 0 .. n : ~ Fine(i)}
<1>9. Bad = {}
  <2>1. SUFFICES ASSUME Bad # {} PROVE FALSE
    OBVIOUS
  <2>2. PICK i \in Bad : \A j \in Bad : i <= j
    <3>1. Bad \in SUBSET Nat
      OBVIOUS
    <3> HIDE DEF Bad
    <3>2. QED
      BY <2>1, <3>1, NatHasMin
  <2>3. i \in 0 .. n /\ ~ Fine(i)
    BY <2>2
  <2>4. CASE i = 0
    <3>1. b.handles = <<>> /\ b.scene = A \cup V \cup D /\ DOMAIN b = {"handles", "scene"}
      BY <1>6
    <3>2. /\ <<>> \in Seq(Window!Handle) /\ Len(<<>>) = 0 /\ OneToOne(<<>>)
          /\ RangeOf(<<>>) = {} /\ 1 .. 0 = {}
      BY DEF OneToOne, RangeOf
    <3>3. A \cup V \cup D = A \cup V \cup D \cup {}
      OBVIOUS
    <3>4. CloudsDrawn(b.handles, b.scene, 0, n, A, V)
      BY <1>1, <3>1, <3>2, <3>3, Zenon DEF CloudsDrawn
    <3>5. QED
      BY <1>8, <2>3, <2>4, <3>1, <3>4, Zenon
  <2>5. CASE i # 0
    <3>1. i \in 1 .. n /\ i - 1 \in 0 .. n /\ ~ (i <= i - 1)
      BY <1>2, <2>3, <2>5
    <3>2. Fine(i - 1)
      <4>1. i - 1 \notin Bad
        <5> HIDE DEF Bad
        <5>1. QED
          BY <2>2, <3>1
      <4> HIDE DEF Fine
      <4>2. QED
        BY <3>1, <4>1
    <3>3. g[i] = AddCloud(cloudHandles, Kept(n), g[i - 1], i)
      BY <1>8, <3>1, Zenon
    <3>4. CloudsDrawn(g[i].handles, g[i].scene, i, n, A, V)
      BY <3>1, <3>2, <3>3, CloudIsDrawn, Zenon
    <3>5. DOMAIN g[i] = {"handles", "scene"}
      BY <3>3 DEF AddCloud
    <3>6. QED
      BY <2>3, <3>4, <3>5, Zenon
  <2>6. QED
    BY <2>4, <2>5
<1>10. Fine(n)
  <2>1. n \in 0 .. n
    BY <1>2
  <2>2. n \notin Bad
    BY <1>9, Zenon
  <2> HIDE DEF Fine
  <2>3. QED
    BY <2>1, <2>2
<1>11. PICK h, c, gone : h = g[n].handles /\ c = g[n].scene /\ gone = {o[i] : i \in DOMAIN o \ Kept(n)}
  OBVIOUS
<1>12. t.handles = h /\ t.scene = c \ gone
  BY <1>8, <1>10, <1>11
<1>13. /\ h \in Seq(Window!Handle) /\ Len(h) = n /\ OneToOne(h)
       /\ \A j \in 1 .. n : IF j \in Kept(n) THEN h[j] = o[j] ELSE h[j] \notin A \cup V \cup D
       /\ c = A \cup V \cup D \cup RangeOf(h)
  BY <1>1, <1>10, <1>11, Zenon DEF CloudsDrawn
<1>14. DOMAIN h = 1 .. n
  BY <1>13
<1>15. \A x \in RangeOf(h) : x \notin A \cup V /\ x \notin gone
  <2>1. ASSUME NEW j \in 1 .. n PROVE h[j] \notin A \cup V /\ h[j] \notin gone
    <3>1. gone \subseteq D
      BY <1>1, <1>11, Zenon DEF RangeOf
    <3>2. CASE j \in Kept(n)
      <4>1. h[j] = o[j] /\ j \in DOMAIN o
        BY <1>3, <1>5, <1>13, <3>2, Zenon
      <4>2. h[j] \in D
        BY <1>1, <4>1, Zenon DEF RangeOf
      <4>3. h[j] \notin gone
        <5>1. SUFFICES ASSUME NEW i \in DOMAIN o \ Kept(n), h[j] = o[i] PROVE FALSE
          BY <1>11, Zenon
        <5>2. i = j
          BY <1>3, <4>1, <5>1, Zenon DEF OneToOne
        <5>3. QED
          BY <3>2, <5>2, Zenon
      <4>4. QED
        BY <1>3, <4>2, <4>3, Zenon
    <3>3. CASE j \notin Kept(n)
      BY <1>13, <3>1, <3>3, Zenon
    <3>4. QED
      BY <3>2, <3>3
  <2>2. QED
    BY <1>14, <2>1, Zenon DEF RangeOf
<1>16. \A x \in D : x \in RangeOf(h) \/ x \in gone
  <2>1. ASSUME NEW j \in DOMAIN o PROVE o[j] \in RangeOf(h) \/ o[j] \in gone
    <3>1. CASE j \in Kept(n)
      <4>1. j \in 1 .. n
        BY <1>2, <1>5, <3>1
      <4>2. h[j] = o[j]
        BY <1>13, <3>1, <4>1, Zenon
      <4>3. QED
        BY <1>14, <4>1, <4>2, Zenon DEF RangeOf
    <3>2. CASE j \notin Kept(n)
      BY <1>11, <3>2, Zenon
    <3>3. QED
      BY <3>1, <3>2
  <2>2. QED
    BY <1>1, <2>1, Zenon DEF RangeOf
<1>17. gone \subseteq D
  BY <1>1, <1>11, Zenon DEF RangeOf
<1>18. c \ gone = A \cup V \cup RangeOf(h)
  BY <1>3, <1>13, <1>15, <1>16, <1>17
<1>19. (A \cup V) \cap RangeOf(h) = {}
  BY <1>15
<1>20. t.scene = A \cup V \cup RangeOf(h)
  BY <1>12, <1>18, Zenon
<1>21. QED
  BY <1>12, <1>13, <1>19, <1>20, Zenon DEF CloudsShown

(* A set in some order, each element once.                                 *)
LEMMA SeqOfSet ==
  ASSUME NEW S, IsFiniteSet(S), NEW q, q = Window!SetToSeq(S)
  PROVE  /\ Cardinality(S) \in Nat /\ q \in [1 .. Cardinality(S) -> S]
         /\ OneToOne(q) /\ RangeOf(q) = S
<1>1. PICK n : n = Cardinality(S)
  OBVIOUS
<1>2. n \in Nat /\ ExistsBijection(1 .. n, S)
  BY <1>1, FS_CardinalityType, Zenon
<1>3. PICK f : f \in Bijection(1 .. n, S)
  BY <1>2, Zenon DEF ExistsBijection
<1>4. f \in [1 .. n -> S] /\ Window!IsInjective(f)
  BY <1>3, Zenon DEF Bijection, Injection, IsInjective, Window!IsInjective
<1>5. q = CHOOSE r \in [1 .. n -> S] : Window!IsInjective(r)
  BY <1>1, DrawingsCounted, Zenon DEF Window!SetToSeq
<1>6. q \in [1 .. n -> S] /\ Window!IsInjective(q)
  BY <1>4, <1>5, Zenon
<1>7. q \in Injection(1 .. n, S) /\ OneToOne(q)
  BY <1>6, Zenon DEF Window!IsInjective, OneToOne, Injection, IsInjective
<1>8. Cardinality(1 .. n) = n
  <2>1. Cardinality(1 .. n) = IF 1 > n THEN 0 ELSE n - 1 + 1
    BY <1>2, FS_Interval
  <2>2. QED
    BY <1>2, <2>1
<1>9. q \in Surjection(1 .. n, S)
  BY <1>1, <1>7, <1>8, FS_Injection, Zenon
<1>10. RangeOf(q) = S
  BY <1>6, <1>9 DEF Surjection, RangeOf
<1>11. QED
  BY <1>1, <1>2, <1>6, <1>7, <1>10

(* What is told of an obstacle's model.                                    *)
Shapes == [cluster : Clusters, parts : 0 .. MaxParts]

(* The parts that are visited, one sequence after the other.               *)
LEMMA Flattened ==
  ASSUME NEW m \in Nat \ {0}, NEW seqs \in [1 .. m -> Seq(Parts)]
  PROVE  Window!FlattenSeq(seqs) \in Seq(Parts)
<1> DEFINE T        == Seq(Parts)
           onward   == [e \in (1 .. m) \X T |-> IF e[1] = 1 THEN seqs[e[1]] ELSE e[2] \o seqs[e[1]]]
           After(f) == f = [i \in 1 .. m |-> IF i = 1 THEN seqs[i] ELSE f[i - 1] \o seqs[i]]
<1>1. \A i \in 1 .. m, x \in T : (IF i = 1 THEN seqs[i] ELSE x \o seqs[i]) \in T
  OBVIOUS
<1>2. onward \in [(1 .. m) \X T -> T]
  <2> HIDE DEF T
  <2>1. QED
    BY <1>1
<1>3. PICK f : Computes(f, <<>>, onward, m, T)
  <2>1. <<>> \in T
    OBVIOUS
  <2> HIDE DEF T, onward
  <2>2. Recursive(<<>>, onward, m, T)
    BY <1>2, <2>1 DEF Recursive
  <2>3. QED
    BY <2>2, Recursion, Zenon
<1>4. f \in [0 .. m -> T] /\ \A i \in 1 .. m : f[i] = onward[<<i, f[i - 1]>>]
  <2> HIDE DEF T, onward
  <2>1. QED
    BY <1>3, Zenon DEF Computes
<1>5. ASSUME NEW i \in 1 .. m
      PROVE  f[i] = IF i = 1 THEN seqs[i] ELSE f[i - 1] \o seqs[i]
  <2> HIDE DEF T
  <2>1. i - 1 \in 0 .. m
    OBVIOUS
  <2>2. PICK x : x = f[i - 1]
    OBVIOUS
  <2>3. x \in T
    BY <1>4, <2>1, <2>2, Zenon
  <2>4. <<i, x>> \in (1 .. m) \X T /\ <<i, x>>[1] = i /\ <<i, x>>[2] = x
    BY <2>3
  <2>5. onward[<<i, x>>] = IF i = 1 THEN seqs[i] ELSE x \o seqs[i]
    BY <2>4, Zenon
  <2> HIDE DEF onward
  <2>6. QED
    BY <1>4, <2>2, <2>5, Zenon
<1> DEFINE F == [i \in 1 .. m |-> f[i]]
<1>6. After(F)
  <2>1. ASSUME NEW i \in 1 .. m PROVE F[i] = IF i = 1 THEN seqs[i] ELSE F[i - 1] \o seqs[i]
    <3>1. i # 1 => i - 1 \in 1 .. m
      OBVIOUS
    <3>2. F[i] = f[i] /\ (i # 1 => F[i - 1] = f[i - 1])
      BY <3>1, Zenon
    <3> HIDE DEF F
    <3>3. QED
      BY <1>5, <3>2, Zenon
  <2>2. F = [i \in 1 .. m |-> F[i]]
    OBVIOUS
  <2> HIDE DEF F
  <2>3. QED
    BY <2>1, <2>2, Zenon
<1>7. ASSUME NEW g, After(g) PROVE g[m] \in Seq(Parts)
  <2>1. \A i \in 1 .. m : g[i] = IF i = 1 THEN seqs[i] ELSE g[i - 1] \o seqs[i]
    BY <1>7, Zenon
  <2> HIDE DEF After
  <2> DEFINE Bad == {i \in 1 .. m : g[i] \notin Seq(Parts)}
  <2>2. Bad = {}
    <3>1. SUFFICES ASSUME Bad # {} PROVE FALSE
      OBVIOUS
    <3>2. PICK i \in Bad : \A j \in Bad : i <= j
      <4>1. Bad \in SUBSET Nat
        OBVIOUS
      <4> HIDE DEF Bad
      <4>2. QED
        BY <3>1, <4>1, NatHasMin
    <3>3. i \in 1 .. m /\ g[i] \notin Seq(Parts)
      BY <3>2
    <3>4. i # 1
      BY <2>1, <3>3
    <3>5. i - 1 \in 1 .. m /\ i - 1 \notin Bad
      <4>1. i - 1 \in 1 .. m /\ ~ (i <= i - 1)
        BY <3>3, <3>4
      <4> HIDE DEF Bad
      <4>2. QED
        BY <3>2, <4>1
    <3>6. g[i - 1] \in Seq(Parts) /\ seqs[i] \in Seq(Parts)
      BY <3>3, <3>5
    <3>7. g[i] = g[i - 1] \o seqs[i]
      BY <2>1, <3>3, <3>4, Zenon
    <3>8. QED
      BY <3>3, <3>6, <3>7
  <2>3. m \in 1 .. m /\ m \notin Bad
    BY <2>2
  <2>4. QED
    BY <2>3
<1>8. Window!FlattenSeq(seqs) = (CHOOSE r : After(r))[m]
  <2>1. Len(seqs) = m /\ m # 0
    OBVIOUS
  <2>2. Window!FlattenSeq(seqs) = IF Len(seqs) = 0 THEN seqs ELSE
          (CHOOSE r : r = [i \in 1 .. Len(seqs) |-> IF i = 1 THEN seqs[i] ELSE r[i - 1] \o seqs[i]])[Len(seqs)]
    BY Zenon DEF Window!FlattenSeq
  <2>3. QED
    BY <2>1, <2>2, Zenon
<1> HIDE DEF After
<1>9. QED
  BY <1>6, <1>7, <1>8, Zenon

(* What is visited of a list of obstacles is a sequence of parts.          *)
LEMMA VisitsType ==
  ASSUME NEW m \in Nat, NEW l, DOMAIN l = 1 .. m, NEW s,
         \A i \in 1 .. m : s[l[i]] \in Shapes
  PROVE  Window!Visits(l, s) \in Seq(Parts)
<1> DEFINE seqs == [i \in DOMAIN l |->
                      [j \in 1 .. s[l[i]].parts |-> <<s[l[i]].cluster, j>>]]
<1>1. Window!Visits(l, s) = Window!FlattenSeq(seqs)
  BY Zenon DEF Window!Visits
<1>2. seqs \in [1 .. m -> Seq(Parts)]
  <2>1. ASSUME NEW i \in 1 .. m
        PROVE  [j \in 1 .. s[l[i]].parts |-> <<s[l[i]].cluster, j>>] \in Seq(Parts)
    <3>1. PICK a, b : a = s[l[i]].cluster /\ b = s[l[i]].parts
      OBVIOUS
    <3>2. a \in Clusters /\ b \in 0 .. MaxParts
      BY <3>1 DEF Shapes
    <3>3. b \in Nat /\ \A j \in 1 .. b : <<a, j>> \in Parts
      BY <3>2, SceneAssumption DEF Parts
    <3> HIDE DEF Parts
    <3>4. [j \in 1 .. b |-> <<a, j>>] \in Seq(Parts)
      BY <3>3
    <3>5. QED
      BY <3>1, <3>4, Zenon
  <2>2. QED
    BY <2>1, Zenon
<1> HIDE DEF seqs
<1>3. CASE m = 0
  <2>1. seqs \in [1 .. 0 -> Seq(Parts)] /\ 1 .. 0 = {}
    BY <1>2, <1>3
  <2>2. seqs = <<>>
    BY <2>1
  <2>3. Window!FlattenSeq(seqs) = seqs
    <3>1. Len(seqs) = 0
      BY <2>2
    <3>2. QED
      BY <3>1, Zenon DEF Window!FlattenSeq
  <2>4. <<>> \in Seq(Parts)
    OBVIOUS
  <2>5. QED
    BY <1>1, <2>2, <2>3, <2>4, Zenon
<1>4. CASE m # 0
  BY <1>1, <1>2, <1>4, Flattened
<1>5. QED
  BY <1>3, <1>4

(* The visualizer and the window agree: each thing that is drawn has its   *)
(* own handle, and the window has no other.                                *)
SceneHolds(shapes, data, ids, handles, B, h, taken) ==
  /\ \A o \in DOMAIN shapes : shapes[o] \in Shapes
  /\ ids \in Seq(Parts) /\ DOMAIN data = RangeOf(ids)
  /\ Drawn([data |-> data, scene |-> taken], B, RangeOf(h))
  /\ DOMAIN handles \subseteq Surface /\ handles \in [DOMAIN handles -> Window!Handle]
  /\ OneToOne(handles) /\ RangeOf(handles) = B
  /\ h \in Seq(Window!Handle) /\ Len(h) <= MaxClouds /\ OneToOne(h)
  /\ B \cap RangeOf(h) = {}

SceneInv ==
  SceneHolds(shape, obsVisData, oldObstacleIDs, mesh, oldHandles, cloudHandles, scene)

(* The handles of a sequence are as many as it is long.                    *)
LEMMA SequenceSize ==
  ASSUME NEW S, NEW q \in Seq(S)
  PROVE  /\ DOMAIN q = 1 .. Len(q) /\ Len(q) \in Nat /\ RangeOf(q) \subseteq S
         /\ IsFiniteSet(RangeOf(q)) /\ Cardinality(RangeOf(q)) <= Len(q)
         /\ OneToOne(q) => Cardinality(RangeOf(q)) = Len(q)
<1>1. DOMAIN q = 1 .. Len(q) /\ Len(q) \in Nat /\ q \in [1 .. Len(q) -> S]
  OBVIOUS
<1>2. PICK n : n = Len(q)
  OBVIOUS
<1>3. IsFiniteSet(1 .. n) /\ Cardinality(1 .. n) = n
  <2>1. n \in Nat
    BY <1>1, <1>2, Zenon
  <2>2. IsFiniteSet(1 .. n) /\ Cardinality(1 .. n) = IF 1 > n THEN 0 ELSE n - 1 + 1
    BY <2>1, FS_Interval
  <2>3. QED
    BY <2>1, <2>2
<1>4. RangeOf(q) \subseteq S
  BY <1>1 DEF RangeOf
<1>5. q \in [DOMAIN q -> RangeOf(q)]
  BY <1>1 DEF RangeOf
<1>6. /\ IsFiniteSet(RangeOf(q)) /\ Cardinality(RangeOf(q)) <= Cardinality(DOMAIN q)
      /\ OneToOne(q) => Cardinality(RangeOf(q)) = Cardinality(DOMAIN q)
  BY <1>1, <1>2, <1>3, <1>5, RangeSize, Zenon
<1>7. QED
  BY <1>1, <1>2, <1>3, <1>4, <1>6, Zenon

(* The drawings of surfaces and clouds of the last frame leave room.       *)
LEMMA SceneBeside ==
  ASSUME SceneInv
  PROVE  /\ Beside(oldHandles, RangeOf(cloudHandles))
         /\ oldHandles \subseteq Window!Handle /\ RangeOf(cloudHandles) \subseteq Window!Handle
<1>1. /\ DOMAIN mesh \subseteq Surface /\ mesh \in [DOMAIN mesh -> Window!Handle]
      /\ OneToOne(mesh) /\ RangeOf(mesh) = oldHandles
      /\ cloudHandles \in Seq(Window!Handle) /\ Len(cloudHandles) <= MaxClouds
      /\ OneToOne(cloudHandles)
  BY Zenon DEF SceneInv, SceneHolds
<1>2. IsFiniteSet(DOMAIN mesh) /\ Cardinality(DOMAIN mesh) <= Cardinality(Surface)
  BY <1>1, SceneAssumption, FS_Subset, Zenon
<1>3. mesh \in [DOMAIN mesh -> RangeOf(mesh)]
  BY <1>1 DEF RangeOf
<1>4. IsFiniteSet(oldHandles) /\ Cardinality(oldHandles) = Cardinality(DOMAIN mesh)
  BY <1>1, <1>2, <1>3, RangeSize, Zenon
<1>5. oldHandles \subseteq Window!Handle
  BY <1>1 DEF RangeOf
<1>6. /\ IsFiniteSet(RangeOf(cloudHandles)) /\ RangeOf(cloudHandles) \subseteq Window!Handle
      /\ Cardinality(RangeOf(cloudHandles)) = Len(cloudHandles)
  BY <1>1, SequenceSize, Zenon
<1>7. Cardinality(oldHandles) <= Cardinality(Surface)
  BY <1>2, <1>4, Zenon
<1>8. Cardinality(RangeOf(cloudHandles)) <= MaxClouds
  BY <1>1, <1>6, Zenon
<1>9. QED
  BY <1>4, <1>5, <1>6, <1>7, <1>8, Zenon DEF Beside

(* After the parts, their drawings are those of the parts of the frame.    *)
LEMMA PartsOfFrame ==
  ASSUME SceneInv, NEW visits \in Seq(Parts),
         NEW t, t = Window!FoldLeft(Window!Visit, [data |-> obsVisData, scene |-> scene], visits),
         NEW r, r = Window!RemoveGone(t, Window!Gone(oldObstacleIDs, Window!ToSet(visits)))
  PROVE  /\ Drawn(r, oldHandles, RangeOf(cloudHandles)) /\ DOMAIN r.data = RangeOf(visits)
<1>1. PICK B, D, b, n : /\ B = oldHandles /\ D = RangeOf(cloudHandles) /\ n = Len(visits)
                        /\ b = [data |-> obsVisData, scene |-> scene]
  OBVIOUS
<1>2. Drawn(b, B, D) /\ DOMAIN obsVisData = RangeOf(oldObstacleIDs) /\ oldObstacleIDs \in Seq(Parts)
  BY <1>1, Zenon DEF SceneInv, SceneHolds
<1>3. Beside(B, D) /\ B \subseteq Window!Handle /\ D \subseteq Window!Handle
  BY <1>1, SceneBeside, Zenon
<1>4. b.data = obsVisData /\ b.scene = scene
  BY <1>1
<1>5. /\ DOMAIN obsVisData \subseteq Parts /\ obsVisData \in [DOMAIN obsVisData -> Window!Handle]
      /\ scene = RangeOf(obsVisData) \cup B \cup D
  BY <1>2, <1>4, Zenon DEF Drawn
<1>6. b \in Drawings
  <2>1. scene \subseteq AnyHandle
    <3>1. RangeOf(obsVisData) \subseteq Window!Handle
      BY <1>5 DEF RangeOf
    <3>2. QED
      BY <1>3, <1>5, <3>1, Zenon DEF AnyHandle
  <2>2. obsVisData \in [DOMAIN obsVisData -> AnyHandle]
    <3>1. Window!Handle \subseteq AnyHandle
      BY Zenon DEF AnyHandle
    <3> HIDE DEF AnyHandle
    <3>2. QED
      BY <1>5, <3>1
  <2>3. obsVisData \in UNION {[E -> AnyHandle] : E \in SUBSET Parts}
    BY <1>5, <2>2, Zenon
  <2>4. QED
    BY <1>1, <2>1, <2>3 DEF Drawings
<1>7. n \in Nat /\ visits \in [1 .. n -> Parts]
  BY <1>1
<1>8. Drawn(t, B, D) /\ DOMAIN t.data = DOMAIN b.data \cup RangeOf(visits)
  <2>1. t = Window!FoldLeft(Window!Visit, b, visits)
    BY <1>1, Zenon
  <2>2. QED
    BY <1>2, <1>3, <1>6, <1>7, <2>1, VisitsDraw, Zenon
<1>9. Window!ToSet(visits) = RangeOf(visits) /\ Window!ToSet(oldObstacleIDs) = RangeOf(oldObstacleIDs)
  BY Zenon DEF Window!ToSet, RangeOf
<1>10. PICK gone : gone = Window!Gone(oldObstacleIDs, Window!ToSet(visits))
  OBVIOUS
<1>11. gone = DOMAIN obsVisData \ RangeOf(visits)
  BY <1>2, <1>9, <1>10, Zenon DEF Window!Gone
<1>12. gone \in SUBSET DOMAIN t.data
  BY <1>4, <1>8, <1>11, Zenon
<1>13. Drawn(r, B, D) /\ DOMAIN r.data = DOMAIN t.data \ gone
  BY <1>8, <1>10, <1>12, GoneRemoved, Zenon
<1>14. DOMAIN r.data = RangeOf(visits)
  BY <1>4, <1>8, <1>11, <1>13
<1>15. QED
  BY <1>1, <1>13, <1>14, Zenon

(* What the surfaces come with: their handles, or none.                    *)
ComesWith(meshes) ==
  /\ DOMAIN meshes \subseteq Surface /\ meshes \in [DOMAIN meshes -> Window!Handle \cup {-1}]
  /\ \A x \in DOMAIN meshes : meshes[x] # -1 => x \in DOMAIN mesh /\ meshes[x] = mesh[x]

(* The surfaces of a frame come with their handles, or with none.          *)
LEMMA SurfacesCome ==
  ASSUME SceneInv, NEW S \in SUBSET Surface, NEW meshes \in Window!NewMeshes(S)
  PROVE  ComesWith(meshes)
<1>1. PICK taken \in SUBSET (S \cap DOMAIN mesh) :
        meshes = [s \in S |-> IF s \in taken THEN mesh[s] ELSE -1]
  BY Zenon DEF Window!NewMeshes
<1>2. \A x \in DOMAIN mesh : mesh[x] \in Window!Handle
  <2>1. mesh \in [DOMAIN mesh -> Window!Handle]
    BY Zenon DEF SceneInv, SceneHolds
  <2>2. QED
    BY <2>1
<1>3. DOMAIN meshes = S /\ \A x \in S : meshes[x] = IF x \in taken THEN mesh[x] ELSE -1
  BY <1>1
<1>4. \A x \in S : meshes[x] \in Window!Handle \cup {-1}
  BY <1>1, <1>2, <1>3, Zenon
<1>5. meshes = [x \in S |-> meshes[x]]
  BY <1>1
<1>6. meshes \in [S -> Window!Handle \cup {-1}]
  BY <1>4, <1>5, Zenon
<1>7. \A x \in S : meshes[x] # -1 => x \in DOMAIN mesh /\ meshes[x] = mesh[x]
  BY <1>1, <1>3, Zenon
<1>8. QED
  BY <1>3, <1>6, <1>7, Zenon DEF ComesWith

(* After the surfaces, each of them has a handle that the window shows.    *)
SurfacesShown(t, S, A) ==
  /\ t.mesh \in [S -> Window!Handle] /\ OneToOne(t.mesh)
  /\ t.visible = RangeOf(t.mesh)
  /\ t.visible \cap (A \cup RangeOf(cloudHandles)) = {}
  /\ t.scene \ (oldHandles \ t.visible) = A \cup t.visible \cup RangeOf(cloudHandles)

(* Drawing the surfaces of a frame shows each of them.                     *)
LEMMA SurfacesOfFrame ==
  ASSUME SceneInv, NEW meshes, ComesWith(meshes),
         NEW r, Drawn(r, oldHandles, RangeOf(cloudHandles)),
         NEW t, t = Window!FoldLeft(Window!VisitSurface,
                      [mesh |-> meshes, scene |-> r.scene, visible |-> {}],
                      Window!SetToSeq(DOMAIN meshes))
  PROVE  SurfacesShown(t, DOMAIN meshes, RangeOf(r.data))
<1>1. PICK A, B, D, S, b : /\ A = RangeOf(r.data) /\ B = oldHandles /\ D = RangeOf(cloudHandles)
                           /\ S = DOMAIN meshes
                           /\ b = [mesh |-> meshes, scene |-> r.scene, visible |-> {}]
  OBVIOUS
<1>2. /\ Beside(B, D) /\ B \subseteq Window!Handle /\ D \subseteq Window!Handle
      /\ B \cap D = {}
  <2>1. oldHandles \cap RangeOf(cloudHandles) = {}
    BY Zenon DEF SceneInv, SceneHolds
  <2>2. QED
    BY <1>1, <2>1, SceneBeside, Zenon
<1>3. /\ DOMAIN r.data \subseteq Parts /\ r.data \in [DOMAIN r.data -> Window!Handle]
      /\ OneToOne(r.data) /\ A \cap (B \cup D) = {} /\ r.scene = A \cup B \cup D
  BY <1>1, Zenon DEF Drawn
<1>4. /\ IsFiniteSet(A) /\ Cardinality(A) <= Cardinality(Parts) /\ A \subseteq Window!Handle
  <2>1. PICK d : d = r.data
    OBVIOUS
  <2>2. d \in [DOMAIN d -> RangeOf(d)] /\ RangeOf(d) \subseteq Window!Handle
    BY <1>3, <2>1 DEF RangeOf
  <2>3. IsFiniteSet(DOMAIN d) /\ Cardinality(DOMAIN d) <= Cardinality(Parts)
    BY <1>3, <2>1, HandlesCounted, FS_Subset, Zenon
  <2>4. IsFiniteSet(RangeOf(d)) /\ Cardinality(RangeOf(d)) = Cardinality(DOMAIN d)
    BY <1>3, <2>1, <2>2, <2>3, RangeSize, Zenon
  <2>5. QED
    BY <1>1, <2>1, <2>2, <2>3, <2>4, Zenon
<1>5. Around(meshes, A, B, D)
  BY <1>2, <1>4, Zenon DEF Around, ComesWith
<1>6. b.mesh = meshes /\ b.scene = A \cup B \cup D /\ b.visible = {}
      /\ DOMAIN b = {"mesh", "scene", "visible"}
  BY <1>1, <1>3
<1>7. S \subseteq Surface /\ meshes \in [S -> Window!Handle \cup {-1}]
      /\ \A x \in S : meshes[x] # -1 => x \in DOMAIN mesh /\ meshes[x] = mesh[x]
  BY <1>1, Zenon DEF ComesWith
<1>8. SurfacesDrawn(b, meshes, {}, A, B, D)
  <2>1. /\ OneToOne(mesh) /\ \A x \in DOMAIN mesh : mesh[x] \in B
    BY <1>1, Zenon DEF SceneInv, SceneHolds, RangeOf
  <2>2. \A x, y \in S : meshes[x] = meshes[y] /\ meshes[x] # -1 => x = y
    BY <1>7, <2>1, Zenon DEF OneToOne
  <2>3. \A x \in S : meshes[x] # -1 => meshes[x] \notin A \cup D /\ meshes[x] \in A \cup B \cup D
    BY <1>2, <1>3, <1>7, <2>1, Zenon
  <2>4. {} = {meshes[x] : x \in {}} /\ A \cup B \cup D = A \cup B \cup {} \cup D
    OBVIOUS
  <2>5. Meshed(S, meshes, A \cup B \cup D, {}, meshes, {}, A, B, D)
    BY <1>7, <2>2, <2>3, <2>4, Zenon DEF Meshed
  <2>6. QED
    BY <1>1, <1>6, <2>5, Zenon DEF SurfacesDrawn
<1>9. b \in MeshDrawings(S)
  <2>1. Window!Handle \cup {-1} \subseteq Marked
    BY Zenon DEF Marked, AnyHandle
  <2>2. A \cup B \cup D \subseteq Marked
    BY <1>2, <1>4, <2>1, Zenon
  <2> HIDE DEF Marked
  <2>3. meshes \in [S -> Marked]
    BY <1>7, <2>1
  <2>4. r.scene \in SUBSET Marked
    BY <1>3, <2>2, Zenon
  <2>5. QED
    BY <1>1, <2>3, <2>4 DEF MeshDrawings
<1>10. IsFiniteSet(S)
  BY <1>7, SceneAssumption, FS_Subset, Zenon
<1>11. PICK q, n : q = Window!SetToSeq(S) /\ n = Cardinality(S)
  OBVIOUS
<1>12. n \in Nat /\ q \in [1 .. n -> S] /\ OneToOne(q) /\ RangeOf(q) = S
  BY <1>10, <1>11, SeqOfSet, Zenon
<1>13. SurfacesDrawn(t, meshes, S, A, B, D)
  <2>1. t = Window!FoldLeft(Window!VisitSurface, b, q)
    BY <1>1, <1>11, Zenon
  <2>2. /\ b \in MeshDrawings(DOMAIN meshes) /\ q \in [1 .. n -> DOMAIN meshes]
        /\ RangeOf(q) = DOMAIN meshes
    BY <1>1, <1>9, <1>12, Zenon
  <2>3. SurfacesDrawn(t, meshes, DOMAIN meshes, A, B, D)
    BY <1>5, <1>8, <1>12, <2>1, <2>2, SurfacesAreDrawn, Zenon
  <2>4. QED
    BY <1>1, <2>3, Zenon
<1>14. PICK m, v, c : m = t.mesh /\ v = t.visible /\ c = t.scene
  OBVIOUS
<1>15. /\ m \in [S -> Window!Handle \cup {-1}]
       /\ \A x, y \in S : m[x] = m[y] /\ m[x] # -1 => x = y
       /\ \A x \in S : m[x] # -1 /\ m[x] \notin A \cup D
       /\ v = {m[x] : x \in S} /\ c = A \cup B \cup v \cup D
  <2>1. Meshed(S, m, c, v, meshes, S, A, B, D)
    BY <1>1, <1>13, <1>14, Zenon DEF SurfacesDrawn
  <2>2. QED
    BY <2>1, Zenon DEF Meshed
<1>16. m \in [S -> Window!Handle] /\ DOMAIN m = S
  BY <1>15
<1>17. OneToOne(m) /\ v = RangeOf(m)
  BY <1>15, <1>16, Zenon DEF OneToOne, RangeOf
<1>18. v \cap (A \cup D) = {}
  BY <1>15
<1>19. c \ (B \ v) = A \cup v \cup D
  BY <1>2, <1>3, <1>15
<1>20. SurfacesShown(t, S, A)
  BY <1>1, <1>14, <1>16, <1>17, <1>18, <1>19, Zenon DEF SurfacesShown
<1>21. QED
  BY <1>1, <1>20, Zenon

(* A frame leaves the visualizer and the window in agreement.              *)
LEMMA FrameDrawn ==
  ASSUME SceneInv, NEW list, NEW m \in Nat, DOMAIN list = 1 .. m,
         NEW shapes, \A o \in DOMAIN shapes : shapes[o] \in Shapes,
         \A i \in 1 .. m : list[i] \in DOMAIN shapes,
         NEW meshes, ComesWith(meshes), NEW n \in 0 .. MaxClouds,
         Window!UpdateFrame(list, shapes, meshes, n)
  PROVE  SceneInv'
<1> DEFINE visits   == Window!Visits(list, shapes)
           taken    == Window!FoldLeft(Window!Visit, [data |-> obsVisData, scene |-> scene], visits)
           r        == Window!RemoveGone(taken, Window!Gone(oldObstacleIDs, Window!ToSet(visits)))
           t        == Window!FoldLeft(Window!VisitSurface,
                         [mesh |-> meshes, scene |-> r.scene, visible |-> {}],
                         Window!SetToSeq(DOMAIN meshes))
           ending   == Window!Clouds(n, t.scene \ (oldHandles \ t.visible))
<1>1. /\ shape' = shapes /\ obsVisData' = r.data /\ oldObstacleIDs' = visits
      /\ mesh' = t.mesh /\ oldHandles' = t.visible /\ cloudHandles' = ending.handles
      /\ scene' = ending.scene
  BY Zenon DEF Window!UpdateFrame
<1>2. visits \in Seq(Parts)
  BY VisitsType, Zenon
<1> HIDE DEF visits
<1>3. Drawn(r, oldHandles, RangeOf(cloudHandles)) /\ DOMAIN r.data = RangeOf(visits)
  BY <1>2, PartsOfFrame, Zenon
<1> HIDE DEF taken, r
<1>4. PICK A, V : A = RangeOf(r.data) /\ V = t.visible
  OBVIOUS
<1>5. /\ t.mesh \in [DOMAIN meshes -> Window!Handle] /\ OneToOne(t.mesh) /\ V = RangeOf(t.mesh)
      /\ V \cap (A \cup RangeOf(cloudHandles)) = {}
      /\ t.scene \ (oldHandles \ V) = A \cup V \cup RangeOf(cloudHandles)
  <2>1. SurfacesShown(t, DOMAIN meshes, RangeOf(r.data))
    BY <1>3, SurfacesOfFrame, Zenon
  <2> HIDE DEF t
  <2>2. QED
    BY <1>4, <2>1, Zenon DEF SurfacesShown
<1> HIDE DEF t
<1>6. PICK M, S : M = t.mesh /\ S = DOMAIN meshes
  OBVIOUS
<1>7. DOMAIN M = S /\ S \subseteq Surface /\ M \in [DOMAIN M -> Window!Handle]
      /\ V \subseteq Window!Handle /\ M \in [DOMAIN M -> RangeOf(M)]
  <2>1. DOMAIN M = S /\ M \in [S -> Window!Handle]
    BY <1>5, <1>6
  <2>2. S \subseteq Surface
    BY <1>6, Zenon DEF ComesWith
  <2>3. M \in [DOMAIN M -> RangeOf(M)] /\ RangeOf(M) \subseteq Window!Handle
    BY <2>1 DEF RangeOf
  <2>4. QED
    BY <1>5, <1>6, <2>1, <2>2, <2>3, Zenon
<1>8. IsFiniteSet(V) /\ Cardinality(V) <= Cardinality(Surface)
  <2>1. IsFiniteSet(DOMAIN M) /\ Cardinality(DOMAIN M) <= Cardinality(Surface)
    BY <1>7, SceneAssumption, FS_Subset, Zenon
  <2>2. IsFiniteSet(RangeOf(M)) /\ Cardinality(RangeOf(M)) = Cardinality(DOMAIN M)
    BY <1>5, <1>6, <1>7, <2>1, RangeSize, Zenon
  <2>3. QED
    BY <1>5, <1>6, <2>1, <2>2, Zenon
<1>9. PICK d : d = r.data
  OBVIOUS
<1>10. /\ DOMAIN d \subseteq Parts /\ d \in [DOMAIN d -> Window!Handle] /\ OneToOne(d)
       /\ A \cap (oldHandles \cup RangeOf(cloudHandles)) = {}
  BY <1>3, <1>4, <1>9, Zenon DEF Drawn
<1>11. IsFiniteSet(A) /\ Cardinality(A) <= Cardinality(Parts) /\ A \subseteq Window!Handle
  <2>1. d \in [DOMAIN d -> RangeOf(d)] /\ RangeOf(d) \subseteq Window!Handle
    BY <1>10 DEF RangeOf
  <2>2. IsFiniteSet(DOMAIN d) /\ Cardinality(DOMAIN d) <= Cardinality(Parts)
    BY <1>10, HandlesCounted, FS_Subset, Zenon
  <2>3. IsFiniteSet(RangeOf(d)) /\ Cardinality(RangeOf(d)) = Cardinality(DOMAIN d)
    BY <1>10, <2>1, <2>2, RangeSize, Zenon
  <2>4. QED
    BY <1>4, <1>9, <2>1, <2>2, <2>3, Zenon
<1>12. CloudsFit(n, A, V)
  <2>1. /\ cloudHandles \in Seq(Window!Handle) /\ Len(cloudHandles) <= MaxClouds
        /\ OneToOne(cloudHandles)
    BY Zenon DEF SceneInv, SceneHolds
  <2>2. (A \cup V) \cap RangeOf(cloudHandles) = {}
    BY <1>5, <1>10
  <2>3. QED
    BY <1>8, <1>11, <2>1, <2>2, Zenon DEF CloudsFit
<1>13. ending = Window!Clouds(n, A \cup V \cup RangeOf(cloudHandles))
  BY <1>4, <1>5, Zenon
<1> HIDE DEF ending
<1>14. PICK h, c : h = ending.handles /\ c = ending.scene
  OBVIOUS
<1>15. /\ h \in Seq(Window!Handle) /\ Len(h) = n /\ OneToOne(h)
       /\ (A \cup V) \cap RangeOf(h) = {} /\ c = A \cup V \cup RangeOf(h)
  <2>1. A \cup V \subseteq AnyHandle
    BY <1>7, <1>11, Zenon DEF AnyHandle
  <2>2. CloudsShown(ending, n, A \cup V)
    BY <1>12, <1>13, <2>1, CloudsAreDrawn, Zenon
  <2>3. QED
    BY <1>14, <2>2, Zenon DEF CloudsShown
<1>16. Drawn([data |-> d, scene |-> c], V, RangeOf(h))
  <2>1. PICK e : e = [data |-> d, scene |-> c]
    OBVIOUS
  <2>2. e.data = d /\ e.scene = c
    BY <2>1
  <2>3. A \cap (V \cup RangeOf(h)) = {}
    BY <1>5, <1>15
  <2>4. RangeOf(d) = A
    BY <1>4, <1>9, Zenon
  <2>5. Drawn(e, V, RangeOf(h))
    BY <1>10, <1>15, <2>2, <2>3, <2>4, Zenon DEF Drawn
  <2>6. QED
    BY <2>1, <2>5, Zenon
<1>17. V \cap RangeOf(h) = {} /\ n <= MaxClouds
  BY <1>15, SceneAssumption
<1>18. SceneHolds(shapes, d, visits, M, V, h, c)
  BY <1>2, <1>3, <1>5, <1>6, <1>7, <1>9, <1>15, <1>16, <1>17, Zenon DEF SceneHolds
<1>19. SceneHolds(shape', obsVisData', oldObstacleIDs', mesh', oldHandles', cloudHandles', scene')
  BY <1>1, <1>4, <1>6, <1>9, <1>14, <1>18, Zenon
<1>20. QED
  BY <1>19, Zenon DEF SceneInv

(* So does every frame there may be.                                       *)
LEMMA SceneNext ==
  ASSUME SceneInv, Window!Next
  PROVE  SceneInv'
<1>1. PICK list \in {Window!SetToSeq(S) : S \in SUBSET Obstacle}, surfaces \in SUBSET Surface,
           n \in 0 .. MaxClouds :
        \E found \in SUBSET Window!ToSet(list) :
          /\ Window!ToSet(list) \ found \subseteq DOMAIN shape
          /\ \E shapes \in Window!NewShapes(list, found), meshes \in Window!NewMeshes(surfaces) :
               Window!UpdateFrame(list, shapes, meshes, n)
  BY Zenon DEF Window!Next
<1>2. PICK found \in SUBSET Window!ToSet(list) :
        /\ Window!ToSet(list) \ found \subseteq DOMAIN shape
        /\ \E shapes \in Window!NewShapes(list, found), meshes \in Window!NewMeshes(surfaces) :
             Window!UpdateFrame(list, shapes, meshes, n)
  BY <1>1, Zenon
<1>3. PICK shapes \in Window!NewShapes(list, found), meshes \in Window!NewMeshes(surfaces) :
        Window!UpdateFrame(list, shapes, meshes, n)
  BY <1>2, Zenon
<1>4. PICK S \in SUBSET Obstacle : list = Window!SetToSeq(S)
  BY <1>1, Zenon
<1>5. PICK m : m = Cardinality(S)
  OBVIOUS
<1>6. m \in Nat /\ list \in [1 .. m -> S]
  <2>1. IsFiniteSet(S)
    BY SceneAssumption, FS_Subset, Zenon
  <2>2. QED
    BY <1>4, <1>5, <2>1, SeqOfSet, Zenon
<1>7. DOMAIN list = 1 .. m
  BY <1>6
<1>8. Window!ToSet(list) = {list[i] : i \in 1 .. m}
  BY <1>7, Zenon DEF Window!ToSet
<1>9. PICK s : /\ s \in [found -> [cluster : Clusters, parts : 0 .. MaxParts]]
               /\ shapes = [o \in Window!ToSet(list) |-> IF o \in found THEN s[o] ELSE shape[o]]
  BY <1>3, Zenon DEF Window!NewShapes
<1>10. DOMAIN shapes = Window!ToSet(list)
       /\ \A o \in DOMAIN shapes : shapes[o] = IF o \in found THEN s[o] ELSE shape[o]
  BY <1>9
<1>11. \A o \in DOMAIN shapes : shapes[o] \in Shapes
  <2>1. \A o \in found : s[o] \in Shapes
    <3>1. s \in [found -> Shapes]
      BY <1>9, Zenon DEF Shapes
    <3>2. QED
      BY <3>1
  <2>2. \A o \in DOMAIN shape : shape[o] \in Shapes
    BY Zenon DEF SceneInv, SceneHolds
  <2>3. QED
    BY <1>2, <1>10, <2>1, <2>2, Zenon
<1>12. \A i \in 1 .. m : list[i] \in DOMAIN shapes
  BY <1>8, <1>10, Zenon
<1>13. ComesWith(meshes)
  BY SurfacesCome, Zenon
<1>14. QED
  BY <1>3, <1>6, <1>7, <1>11, <1>12, <1>13, FrameDrawn, Zenon

(* The handles of parts, surfaces and clouds are counted.                  *)
LEMMA SceneCounted ==
  ASSUME SceneInv
  PROVE  Window!SceneIsAccounted
<1>1. /\ oldObstacleIDs \in Seq(Parts) /\ DOMAIN obsVisData = RangeOf(oldObstacleIDs)
      /\ Drawn([data |-> obsVisData, scene |-> scene], oldHandles, RangeOf(cloudHandles))
      /\ DOMAIN mesh \subseteq Surface /\ mesh \in [DOMAIN mesh -> Window!Handle]
      /\ OneToOne(mesh) /\ RangeOf(mesh) = oldHandles
      /\ cloudHandles \in Seq(Window!Handle) /\ OneToOne(cloudHandles)
      /\ oldHandles \cap RangeOf(cloudHandles) = {}
  BY Zenon DEF SceneInv, SceneHolds
<1>2. PICK e : e = [data |-> obsVisData, scene |-> scene]
  OBVIOUS
<1>3. e.data = obsVisData /\ e.scene = scene
  BY <1>2
<1>4. PICK A, B, D : A = RangeOf(obsVisData) /\ B = oldHandles /\ D = RangeOf(cloudHandles)
  OBVIOUS
<1>5. /\ DOMAIN obsVisData \subseteq Parts /\ obsVisData \in [DOMAIN obsVisData -> Window!Handle]
      /\ OneToOne(obsVisData) /\ A \cap (B \cup D) = {} /\ scene = A \cup B \cup D
  BY <1>1, <1>2, <1>3, <1>4, Zenon DEF Drawn
<1>6. /\ IsFiniteSet(A) /\ Cardinality(A) = Cardinality(DOMAIN obsVisData)
  <2>1. obsVisData \in [DOMAIN obsVisData -> RangeOf(obsVisData)]
    BY <1>5 DEF RangeOf
  <2>2. IsFiniteSet(DOMAIN obsVisData)
    BY <1>5, HandlesCounted, FS_Subset, Zenon
  <2>3. QED
    BY <1>4, <1>5, <2>1, <2>2, RangeSize, Zenon
<1>7. /\ IsFiniteSet(B) /\ Cardinality(B) = Cardinality(DOMAIN mesh)
  <2>1. mesh \in [DOMAIN mesh -> RangeOf(mesh)]
    BY <1>1 DEF RangeOf
  <2>2. IsFiniteSet(DOMAIN mesh)
    BY <1>1, SceneAssumption, FS_Subset, Zenon
  <2>3. QED
    BY <1>1, <1>4, <2>1, <2>2, RangeSize, Zenon
<1>8. /\ IsFiniteSet(D) /\ Cardinality(D) = Len(cloudHandles)
  BY <1>1, <1>4, SequenceSize, Zenon
<1>9. \A X, Y : IsFiniteSet(X) /\ IsFiniteSet(Y) /\ X \cap Y = {} =>
        IsFiniteSet(X \cup Y) /\ Cardinality(X \cup Y) = Cardinality(X) + Cardinality(Y)
  <2>1. SUFFICES ASSUME NEW X, NEW Y, IsFiniteSet(X), IsFiniteSet(Y), X \cap Y = {}
                 PROVE  IsFiniteSet(X \cup Y)
                        /\ Cardinality(X \cup Y) = Cardinality(X) + Cardinality(Y)
    BY Zenon
  <2>2. IsFiniteSet(X \cup Y)
        /\ Cardinality(X \cup Y) = Cardinality(X) + Cardinality(Y) - Cardinality(X \cap Y)
    BY <2>1, FS_Union, Zenon
  <2>3. Cardinality(X \cap Y) = 0
    BY <2>1, FS_EmptySet, Zenon
  <2>4. Cardinality(X) \in Nat /\ Cardinality(Y) \in Nat
    BY <2>1, FS_CardinalityType, Zenon
  <2>5. QED
    BY <2>2, <2>3, <2>4
<1>10. Cardinality(scene) = Cardinality(A) + Cardinality(B) + Cardinality(D)
  <2>1. A \cap B = {} /\ (A \cup B) \cap D = {}
    BY <1>1, <1>4, <1>5
  <2>2. IsFiniteSet(A \cup B) /\ Cardinality(A \cup B) = Cardinality(A) + Cardinality(B)
    BY <1>6, <1>7, <1>9, <2>1, Zenon
  <2>3. Cardinality(A \cup B \cup D) = Cardinality(A \cup B) + Cardinality(D)
    BY <1>8, <1>9, <2>1, <2>2, Zenon
  <2>4. QED
    BY <1>5, <2>2, <2>3, Zenon
<1>11. /\ A = {obsVisData[p] : p \in DOMAIN obsVisData} /\ B = {mesh[s] : s \in DOMAIN mesh}
       /\ D = Window!ToSet(cloudHandles) /\ DOMAIN obsVisData = Window!ToSet(oldObstacleIDs)
  BY <1>1, <1>4, Zenon DEF RangeOf, Window!ToSet
<1>12. Cardinality(scene) = Cardinality(DOMAIN obsVisData) + Cardinality(DOMAIN mesh)
                              + Len(cloudHandles)
  BY <1>6, <1>7, <1>8, <1>10, Zenon
<1>13. Window!Len(cloudHandles) = Len(cloudHandles)
  OBVIOUS
<1>14. QED
  BY <1>4, <1>5, <1>11, <1>12, <1>13, DrawingsCounted, Zenon DEF Window!SceneIsAccounted

(* Whatever parts, surfaces and clouds the frames have, parts with one id  *)
(* and surfaces without their handle included, the window has a drawing    *)
(* for each of them and no other.                                          *)
THEOREM SceneAccounted == SurroundingsSpec => []SceneIsAccounted
<1> DEFINE all == <<machine, vars, configuration, postFilter, replay, sceneView, stream>>
<1>1. SurroundingsInit => SceneInv
  <2> SUFFICES ASSUME SurroundingsInit PROVE SceneInv
    OBVIOUS
  <2>1. /\ shape = [o \in {} |-> 0] /\ obsVisData = [p \in {} |-> 0] /\ oldObstacleIDs = <<>>
        /\ mesh = [s \in {} |-> 0] /\ oldHandles = {} /\ cloudHandles = <<>> /\ scene = {}
    BY Zenon DEF SurroundingsInit, Window!Init
  <2>2. /\ DOMAIN shape = {} /\ DOMAIN obsVisData = {} /\ DOMAIN mesh = {}
        /\ RangeOf(obsVisData) = {} /\ RangeOf(mesh) = {} /\ RangeOf(<<>>) = {}
        /\ OneToOne(obsVisData) /\ OneToOne(mesh) /\ OneToOne(<<>>)
    BY <2>1 DEF RangeOf, OneToOne
  <2>3. obsVisData \in [{} -> Window!Handle] /\ mesh \in [{} -> Window!Handle]
    BY <2>1
  <2>4. <<>> \in Seq(Parts) /\ <<>> \in Seq(Window!Handle) /\ Len(<<>>) <= MaxClouds
    BY SceneAssumption
  <2>5. Drawn([data |-> obsVisData, scene |-> scene], oldHandles, RangeOf(cloudHandles))
    <3>1. PICK e : e = [data |-> obsVisData, scene |-> scene]
      OBVIOUS
    <3>2. e.data = obsVisData /\ e.scene = scene
      BY <3>1
    <3>3. Drawn(e, oldHandles, RangeOf(cloudHandles))
      BY <2>1, <2>2, <2>3, <3>2 DEF Drawn
    <3>4. QED
      BY <3>1, <3>3, Zenon
  <2>6. {} \cap {} = {} /\ {} \subseteq Surface
    OBVIOUS
  <2>7. SceneHolds(shape, obsVisData, oldObstacleIDs, mesh, oldHandles, cloudHandles, scene)
    BY <2>1, <2>2, <2>3, <2>4, <2>5, <2>6, Zenon DEF SceneHolds
  <2>8. QED
    BY <2>7, Zenon DEF SceneInv
<1>2. SceneInv /\ [SurroundingsNext]_all => SceneInv'
  <2> SUFFICES ASSUME SceneInv, [SurroundingsNext]_all PROVE SceneInv'
    OBVIOUS
  <2>1. Window!Next \/ UNCHANGED sceneView
    BY DEF SurroundingsNext, RunMixture, RunConfiguration, RunPostFilter, RunReplay, RunWindow,
           RunStream
  <2>2. CASE Window!Next
    BY <2>2, SceneNext
  <2>3. CASE UNCHANGED sceneView
    <3>1. UNCHANGED <<shape, obsVisData, oldObstacleIDs, mesh, oldHandles, cloudHandles, scene>>
      BY <2>3, Zenon DEF sceneView
    <3>2. SceneHolds(shape', obsVisData', oldObstacleIDs', mesh', oldHandles', cloudHandles', scene')
      BY <3>1, Zenon DEF SceneInv
    <3>3. QED
      BY <3>2, Zenon DEF SceneInv
  <2>4. QED
    BY <2>1, <2>2, <2>3
<1>3. SceneInv => SceneIsAccounted
  BY SceneCounted, Zenon DEF SceneIsAccounted
<1>4. QED
  BY <1>1, <1>2, <1>3, PTL DEF SurroundingsSpec
=============================================================================
