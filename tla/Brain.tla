-------------------------------- MODULE Brain -------------------------------
(***************************************************************************)
(* The in-process programs of the brain: a program is a single-threaded    *)
(* loop over some of the components, so one of its iterations is one step. *)
(* A behaviour is a run of one program, chosen in the initial state:       *)
(*   telemetry, depth  the world state fed by robotd and by tofd           *)
(*   vision     camera and tracker (the frames of render_demo_video.py)    *)
(*   servo      camera, tracker, world state and the node that approaches  *)
(*              a locked target                                            *)
(*   demo       the fetch tree of run_simulation.py                        *)
(*   routine    a tree of the library nodes that no script puts in a tree  *)
(*   planner    the skill latch, asked for actions the mask leaves         *)
(*   rig        the pre-flight check of the robot                          *)
(* Simulations adds the programs that run the physics engine.              *)
(***************************************************************************)
EXTENDS WorldState, VisualTracker, SkillLatch, MuJoCoEnv, Locomotion, RigCheck

CONSTANTS
  Programs,      \* the programs a run explores
  Preemptions,   \* bound on how often a tree is preempted
  NumEnvs        \* environments of the trainer; the others use the first

ASSUME BrainAssumption == Preemptions \in Nat /\ NumEnvs \in Nat \ {0}

VARIABLES
  program, running,  \* the program, and whether its loop goes on
  ws, vision,        \* WorldState, MicroduckVisualTracker
  world, tree,       \* the dictionary of the last tick, and the tree
  latch, engine,     \* SkillLatch, MicroduckLocomotionEngine
  envs, loop,        \* MicroduckMuJoCoEnv, local variables of the loop
  past               \* history, for the properties

vars == <<program, running, ws, vision, world, tree, latch, engine, envs, loop, past>>
-----------------------------------------------------------------------------
(* The trees.  ticks holds durations, phase lengths, or the frames of a    *)
(* clip and of its blends.                                                 *)

Node(kind, kids, ticks, tag) == [kind |-> kind, kids |-> kids, ticks |-> ticks, tag |-> tag]

FetchTree ==
  [FetchMission    |-> Node("sequence", <<"SearchOrExpress", "WalkAndScan", "PickupBall", "Celebrate">>, <<>>, ""),
   SearchOrExpress |-> Node("selector", <<"SearchBall", "ExpressFailure">>, <<>>, ""),
   SearchBall      |-> Node("search", <<>>, <<>>, ""),
   ExpressFailure  |-> Node("failure", <<"HeadTilt", "HeadShake">>, <<>>, ""),
   HeadTilt        |-> Node("expression", <<>>, <<5>>, "HEAD_TILT"),
   HeadShake       |-> Node("expression", <<>>, <<12>>, "HEAD_SHAKE"),
   WalkAndScan     |-> Node("parallel", <<"ApproachTarget", "AmbientScan">>, <<>>, ""),
   ApproachTarget  |-> Node("approach", <<>>, <<>>, ""),
   AmbientScan     |-> Node("ambient", <<>>, <<>>, ""),
   PickupBall      |-> Node("pickup", <<>>, <<>>, ""),
   Celebrate       |-> Node("expression", <<>>, <<3>>, "HAPPY_WIGGLE")]

TimedTree ==
  [FetchSequence |-> Node("sequence", <<"Search", "Approach", "Pickup">>, <<>>, ""),
   Search        |-> Node("turn", <<>>, <<50>>, ""),
   Approach      |-> Node("walk", <<>>, <<75>>, ""),
   Pickup        |-> Node("pick", <<>>, <<40>>, "")]

RoutineTree ==
  [Routine   |-> Node("sequence", <<"Avoid", "GraspShow">>, <<>>, ""),
   Avoid     |-> Node("avoid", <<>>, <<2, 3, 2>>, ""),
   GraspShow |-> Node("parallel", <<"Grasp", "Sway", "Bow", "Chirp">>, <<>>, ""),
   Grasp     |-> Node("grasp", <<>>, <<2, 2, 3>>, ""),
   Sway      |-> Node("ambient", <<>>, <<>>, ""),
   Bow       |-> Node("mocap", <<>>, <<5, 2>>, ""),
   Chirp     |-> Node("voice", <<>>, <<>>, "chirp"),
   Follow    |-> Node("track", <<>>, <<>>, "")]

Trees ==
  [n \in DOMAIN FetchTree \union DOMAIN TimedTree \union DOMAIN RoutineTree |->
     CASE n \in DOMAIN FetchTree -> FetchTree[n]
       [] n \in DOMAIN TimedTree -> TimedTree[n]
       [] OTHER                  -> RoutineTree[n]]

INSTANCE BehaviorTree WITH Tree <- Trees

\* The children of some nodes
KidsOf(S) == UNION {{Kids(n)[i] : i \in DOMAIN Kids(n)} : n \in S}

\* No node has more than four children and no tree is deeper than four nodes.
ASSUME TreesAssumption == /\ \A n \in Nodes : Len(Kids(n)) <= 4
                          /\ KidsOf(KidsOf(KidsOf(KidsOf(Nodes)))) = {}

\* The root a program ticks
Root == CASE program = "demo"    -> "FetchMission"
          [] program = "mujoco"  -> "FetchSequence"
          [] program = "routine" -> "Routine"
          [] program = "servo"   -> "Follow"

NewLoop ==
  IF program = "rig" THEN NewRig
  ELSE [step |-> 0, pickup |-> 0, pushes |-> 0, done |-> <<>>, iteration |-> 1,
        phase |-> CASE program = "eval"  -> "SEARCH"
                    [] program = "video" -> "LYING"
                    [] OTHER             -> "COLLECT"]

\* volts: last voltage outside the hysteresis band; near and far: depth frames
\* in a row, up to Window; fast: filtered commands at full speed in a row, up
\* to MaxTrim; episode of each environment and periods of the loop, modulo two
NewPast == [volts |-> 74, near |-> 0, far |-> 0, fast |-> 0, beat |-> 0,
            episode |-> [i \in 1 .. NumEnvs |-> 0]]

Init ==
  /\ program \in Programs /\ running = TRUE
  /\ ws = NewWorldState /\ vision = NewTracker
  /\ world = [stability |-> "HIGH"] /\ tree = NewTree
  /\ latch = NewLatch /\ engine = NewEngine
  /\ envs = [i \in 1 .. NumEnvs |-> NewEnv]
  /\ loop = NewLoop /\ past = NewPast
-----------------------------------------------------------------------------
(* Sensors.                                                                *)

RobotFrames ==
  [safety : SUBSET {"fallen", "limp"}, tilt : {None, 0, 44, 60, 80},
   volts : {None, 64, 65, 66, 68, 70}]

TelemetryFrame ==
  /\ program = "telemetry"
  /\ \E frame \in RobotFrames :
       /\ ws' = UpdateFromRobotState(ws, frame)
       /\ past' = IF frame.volts = None \/ frame.volts \in 66 .. 67 THEN past
                  ELSE [past EXCEPT !.volts = frame.volts]
  /\ UNCHANGED <<program, running, vision, world, tree, latch, engine, envs, loop>>

ImuVariance ==
  /\ program = "telemetry"
  /\ \E variance \in {20, 30, 40, 60, 70} : ws' = UpdateRoughness(ws, variance)
  /\ UNCHANGED <<program, running, vision, world, tree, latch, engine, envs, loop, past>>

\* A depth of 10 mm or less is no reading.
DepthFrame ==
  /\ program = "depth"
  /\ \E depths \in SUBSET {0, 250, 300} :
       LET up(n) == IF n < Window THEN n + 1 ELSE n
       IN  /\ ws' = UpdateFromTofFrame(ws, depths)
           /\ past' = CASE 250 \in depths    -> [past EXCEPT !.near = up(@), !.far = 0]
                        [] depths \subseteq {0} -> past
                        [] OTHER             -> [past EXCEPT !.far = up(@), !.near = 0]
  /\ UNCHANGED <<program, running, vision, world, tree, latch, engine, envs, loop>>

\* The lockout is decided by the last voltage outside the band of hysteresis,
\* whose ends, 6.5 V and 6.8 V, lie outside it.
LockoutFollowsVoltage == ws.is_brownout_risk <=> past.volts <= 65

\* Four near depth frames in a row raise the obstacle flag and two others
\* lower it, whatever came before and however many blind frames lie between.
ObstacleAnswers ==
  /\ past.near >= 4 => ws.obstacle_close
  /\ past.far >= 2  => ~ws.obstacle_close
-----------------------------------------------------------------------------
(* Vision.                                                                 *)

\* The states the tracker may reach with the next frame of the camera
Frames == UNION {Updates(vision, frame) : frame \in CameraFrames}

TrackFrame ==
  /\ program = "vision"
  /\ vision' \in Frames
  /\ UNCHANGED <<program, running, ws, world, tree, latch, engine, envs, loop, past>>

SetTarget ==
  /\ program = "vision"
  /\ \E c \in Classes : vision' = SetTargetClass(vision, c)
  /\ UNCHANGED <<program, running, ws, world, tree, latch, engine, envs, loop, past>>

\* Track, sanitise, tick.  A centred target is in reach (0) or not (1).  An
\* exception leaves the loop.
ServoTick ==
  /\ program = "servo" /\ running
  /\ vision' \in Frames
  /\ \E visual \in {vision'.sight, 1} : ws' = UpdateVisualTracking(ws, vision'.locked, visual)
  /\ world' = ToDict(ws')
  /\ tree' = TickRoot(Root, tree, world')
  /\ running' = (tree'.status # "RAISED")
  /\ UNCHANGED <<program, latch, engine, envs, loop, past>>

\* The tracker never follows a thing of another class than the one it was
\* told, nor a track it has dropped.
TargetIsOfClass ==
  vision.target # NoTrack =>
    /\ vision.target \in Tracks(vision)
    /\ vision.tracks[vision.target].class = vision.class

\* As long as the target's track lives and the class stays, no other track
\* takes the lock, however near to the centre it is.
LockIsKept ==
  [][(vision.target \in Tracks(vision') /\ vision'.class = vision.class)
       => vision'.target = vision.target]_vision

\* A target that is not in the frame is one that was seen in few frames: an
\* old track is dropped in the first frame that misses it.
UnseenTargetIsYoung ==
  (vision.target # NoTrack /\ vision.target \notin vision.now)
    => vision.tracks[vision.target].age <= MaxAge

\* A locked target is steered to until it is reached (the node's promise).
GuidesTowardTarget == tree.status # "RAISED"
-----------------------------------------------------------------------------
(* Trees and skills.                                                       *)

Balances == {<<"HIGH", "LOW">>, <<"LOW", "LOW">>, <<"HIGH", "HIGH">>}

DemoWorlds ==
  {[ball_visible |-> visible, distance |-> distance, stability |-> b[1], roughness |-> b[2]] :
     visible \in BOOLEAN, distance \in {20, 28, 150}, b \in Balances}

RoutineWorlds ==
  {[obstacle_detected |-> obstacle, stability |-> b[1], roughness |-> b[2]] :
     obstacle \in BOOLEAN, b \in Balances}

\* The loop of a tree goes round: its next period begins.
Beat ==
  /\ program \in {"demo", "routine"}
  /\ past' = [past EXCEPT !.beat = 1 - @]

DemoTick ==
  /\ program = "demo" /\ Beat
  /\ \E w \in DemoWorlds : world' = w /\ tree' = TickRoot(Root, tree, w)
  /\ UNCHANGED <<program, running, ws, vision, latch, engine, envs, loop>>

RoutineTick ==
  /\ program = "routine" /\ Beat
  /\ \E w \in RoutineWorlds : world' = w /\ tree' = TickRoot(Root, tree, w)
  /\ UNCHANGED <<program, running, ws, vision, latch, engine, envs, loop>>

\* A parent preempts the tree.
Preempt ==
  /\ program \in {"demo", "routine"} /\ loop.step < Preemptions
  /\ tree' = Abort(Root, [tree EXCEPT !.did = {}])
  /\ loop' = [loop EXCEPT !.step = @ + 1]
  /\ UNCHANGED <<program, running, ws, vision, world, latch, engine, envs, past>>

PlannerTick ==
  /\ program = "planner"
  /\ \E visible, grasped \in BOOLEAN, distance \in {30, 31}, stability \in {"LOW", "HIGH"} :
       world' = [ball_visible |-> visible, distance |-> distance,
                 stability |-> stability, ball_grasped |-> grasped]
  /\ \E requested \in Unmasked(world'), outcome \in Statuses :
       latch' = ExecuteTick(latch, requested, outcome)
  /\ UNCHANGED <<program, running, ws, vision, tree, engine, envs, loop, past>>

PlannerAbort ==
  /\ program = "planner"
  /\ latch' = AbortActive(latch)
  /\ UNCHANGED <<program, running, ws, vision, world, tree, engine, envs, loop, past>>

\* The check goes on; the operator interrupts it; robotd sends a frame or goes.
RigStep ==
  /\ program = "rig" /\ running
  /\ loop' \in Checks(loop)
  /\ running' = (loop'.gate # "ENDED")
  /\ UNCHANGED <<program, ws, vision, world, tree, latch, engine, envs, past>>

RigInterrupted ==
  /\ program = "rig" /\ InTry(loop)
  /\ loop' = Interrupt(loop)
  /\ running' = (loop'.gate # "ENDED")
  /\ UNCHANGED <<program, ws, vision, world, tree, latch, engine, envs, past>>

RigHears ==
  /\ program = "rig" /\ loop.line = "open" /\ ~loop.lost
  /\ \/ \E alarms \in SUBSET Alarms : loop' = [loop EXCEPT !.telemetry = alarms]
     \/ loop' = [loop EXCEPT !.lost = TRUE]
  /\ UNCHANGED <<program, running, ws, vision, world, tree, latch, engine, envs, past>>

BrainNext ==
  \/ TelemetryFrame \/ ImuVariance \/ DepthFrame
  \/ TrackFrame \/ SetTarget \/ ServoTick
  \/ DemoTick \/ RoutineTick \/ Preempt
  \/ PlannerTick \/ PlannerAbort
  \/ RigStep \/ RigInterrupted \/ RigHears
-----------------------------------------------------------------------------
(* What the trees promise.                                                 *)

\* The nodes a tick of the root may continue
Continued(S) ==
  S \union UNION {IF Trees[n].kind \in {"sequence", "selector"}
                  THEN {Kids(n)[tree.at[n] + 1]} ELSE KidsOf({n}) : n \in S}

Active(n) == Continued(Continued(Continued({n})))

\* A node as it was built; the frame of a clip that is not playing is void.
Fresh(t, n) == t.at[n] = 0 /\ (t.steps[n] = 0 \/ Trees[n].kind = "mocap")

\* Nothing is left of an earlier activation in a node that is not active: it
\* starts from its first tick.  Except for a head tilt cut short by the third
\* failure, which keeps its ticks, and the clocks of run_mujoco_sim.py.
IdleNodesAreFresh ==
  program \in {"demo", "routine"} =>
    \A n \in Nodes \ (Active(Root) \union {"HeadTilt"}) : Fresh(tree, n)

\* After an abort every node, active ones included, is as it was built, and
\* what the nodes drive is at rest.
AbortIsClean ==
  [][Preempt => /\ \A n \in Nodes \ {"HeadTilt"} : Fresh(tree', n)
                /\ tree'.velocity = "zero" /\ tree'.head = "zero"]_vars

\* The wiggle celebrates a ball that is there to be picked up in that tick.
CelebratesOnlyAPickup ==
  [][("HAPPY_WIGGLE" \in tree'.did /\ past'.beat # past.beat)
       => world'.ball_visible /\ world'.distance <= 30]_vars

\* "Strictly subordinate to balance": after a tick in an unstable stance or on
\* rough ground the head is level and no gesture was begun.
UnstableMeansStill ==
  (/\ program \in {"demo", "routine"}
   /\ Get(world, "stability", "HIGH") # "HIGH" \/ Get(world, "roughness", "LOW") = "HIGH")
    => tree.head = "zero" /\ tree.did \subseteq {"chirp"}

\* The voice speaks once per grasp, in its first tick, although the parallel
\* node goes on ticking it.
SpeaksOnce ==
  [][("chirp" \in tree'.did /\ past'.beat # past.beat) => tree.at["Grasp"] = 0]_vars

\* The captured motion enters and leaves the joints by one blend step a tick;
\* only a clip begun again after an abort cut it short may jump.
MotionIsSmooth ==
  [][LET frames == Trees["Bow"].ticks[1]
         blend  == Trees["Bow"].ticks[2]
     IN  \/ tree.at["Bow"] = 0 /\ tree.steps["Bow"] \in 1 .. frames - 1
         \/ tree'.clip - tree.clip \in -blend .. blend]_vars

\* From some tick on the ball is in reach, or the way free, and the robot
\* stable: then the missions succeed again and again.
Favourable ==
  /\ Calm(world)
  /\ program = "demo"    => Get(world, "ball_visible", FALSE) /\ Get(world, "distance", 99) = 20
  /\ program = "routine" => ~Get(world, "obstacle_detected", FALSE)

MissionsSucceed ==
  (program \in {"demo", "routine"} /\ <>[]Favourable) => []<>(tree.status = "SUCCESS")

\* A latched skill runs until it ends or is aborted, whatever is asked for.
OneSkillAtATime == [][latch.active # NoSkill => latch'.ran = latch.active]_latch

\* However the pre-flight check ends, once it was connected: its connection is
\* closed and, unless that was lost, the last the robot was told is to stop; a
\* check that was not interrupted has shut the beak and levelled the head.
RigCheckEndsStill ==
  (program = "rig" /\ ~running) =>
    /\ loop.line = "closed"
    /\ \/ loop.lost \/ loop.sent = "stop"
       \/ loop.sent = "nothing" /\ loop.verdict = "FAILED"
    /\ (~loop.lost /\ ~loop.interrupted) =>
         loop.beak = "shut" /\ loop.head = "level" /\ loop.tof = "closed"
=============================================================================
