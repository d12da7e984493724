----------------------------- MODULE Simulations ----------------------------
(***************************************************************************)
(* The programs of Brain, and those that run the physics engine:           *)
(*   mujoco  run_mujoco_sim.py     eval   task 1 of run_brain_eval_suite   *)
(*   video   render_demo_video.py  envelope  task 5 of it                  *)
(*   train   train_smoke.py        trims  the engine fed with commands     *)
(* The policy is a library: its k-th action in an episode is the name      *)
(* <<episode, k>>, so that what drives the servos can be told.             *)
(***************************************************************************)
EXTENDS Brain

CONSTANTS
  Steps,        \* argument of run_simulation (150 by default)
  VideoSteps,   \* control steps of the video (2399)
  Rollout,      \* steps_per_env of the trainer (64)
  Iterations    \* iterations of the training loop

Fallen == [low |-> FALSE, tilt |-> 80, contacts |-> {"foot", "body"}]

Postures ==
  {Standing, Fallen, [Standing EXCEPT !.tilt = 30], [Standing EXCEPT !.tilt = 110],
   [Standing EXCEPT !.low = TRUE], [Standing EXCEPT !.contacts = {"foot", "mouth"}]}

\* Torque demanded of the servos, and their speed
Loads == {<<20, 0>>, <<300, 100>>, <<-900, 500>>}

ActionOf(i) == <<past.episode[i], envs[i].step_count>>
-----------------------------------------------------------------------------
(* run_mujoco_sim.py: sense, tick, command, infer, step; a fall ends it.   *)

MuJoCoTick ==
  /\ program = "mujoco" /\ running
  /\ ws' = UpdateOrientation(ws, envs[1].obs.tilt)
  /\ world' = ToDict(ws')
  /\ tree' = TickRoot(Root, tree, world')
  /\ \E posture \in Postures, load \in Loads :
       envs' = [envs EXCEPT ![1] = Step(SetCommand(@, tree'.velocity), ActionOf(1), posture, load)]
  /\ loop' = [loop EXCEPT !.step = @ + 1]
  /\ running' = (loop'.step < Steps /\ ~envs'[1].terminated)
  /\ UNCHANGED <<program, vision, latch, engine, past>>
-----------------------------------------------------------------------------
(* run_task1_fetch_with_push_rejection: a script instead of sensors, and a *)
(* phase variable instead of a tree.                                       *)

\* Before the ball is found, on the way to it (26 mm a step), and in reach
EvalSense(w, step) ==
  LET distance == Larger(200, 1500 - 26 * (step - 25))
  IN  CASE step < 25       -> UpdateObstacleClose(UpdateBallVisible(w, FALSE), FALSE)
        [] step \in 25 .. 74 -> UpdateObstacleClose(
             [UpdateBallVisible(w, TRUE) EXCEPT !.forward_clearance = distance], distance < 280)
        [] OTHER           -> UpdateObstacleClose(w, TRUE)

EvalPhase_NoStop(l, w, tilt) ==
  LET safe   == IF SafeVelocity(15, tilt, 26) > 0 THEN "walk" ELSE "zero"
      pushed == IF l.step = 50 THEN [l EXCEPT !.pushes = @ + 1] ELSE l
  IN  CASE l.phase = "SEARCH" /\ w.ball_visible     -> <<[l EXCEPT !.phase = "APPROACH"], "walk">>
        [] l.phase = "SEARCH" /\ ~w.ball_visible    -> <<l, "turn">>
        [] l.phase = "APPROACH" ->
             <<[pushed EXCEPT !.phase = IF w.obstacle_close THEN "PICKUP" ELSE @, !.pickup = l.step], safe>>
        [] l.phase = "PICKUP" /\ l.step >= l.pickup + 15 -> <<[l EXCEPT !.phase = "COMPLETE"], "zero">>
        [] OTHER                                    -> <<l, "zero">>

\* The loop variables and the command after the phase logic
EvalPhase(l, w, tilt) ==
  LET safe   == IF SafeVelocity(15, tilt, 26) > 0 THEN "walk" ELSE "zero"
      pushed == IF l.step = 50 THEN [l EXCEPT !.pushes = @ + 1] ELSE l
  IN  CASE l.phase = "SEARCH" /\ w.ball_visible     -> <<[l EXCEPT !.phase = "APPROACH"], "walk">>
        [] l.phase = "SEARCH" /\ ~w.ball_visible    -> <<l, "turn">>
        [] l.phase = "APPROACH" /\ w.obstacle_close ->
             <<[pushed EXCEPT !.phase = "PICKUP", !.pickup = l.step], "zero">>
        [] l.phase = "APPROACH" /\ ~w.obstacle_close -> <<pushed, safe>>
        [] l.phase = "PICKUP" /\ l.step >= l.pickup + 15 -> <<[l EXCEPT !.phase = "COMPLETE"], "zero">>
        [] OTHER                                    -> <<l, "zero">>

\* A fall fails an assertion.
EvalTick ==
  /\ program = "eval" /\ running
  /\ ws' = EvalSense(UpdateOrientation(ws, envs[1].posture.tilt), loop.step)
  /\ world' = ToDict(ws')
  /\ LET next == EvalPhase(loop, world', envs[1].posture.tilt)
     IN  /\ loop' = [next[1] EXCEPT !.step = @ + 1]
         /\ \E posture \in Postures, load \in Loads :
              envs' = [envs EXCEPT ![1] = Step(SetCommand(@, next[2]), ActionOf(1), posture, load)]
  /\ engine' = EngineStep(engine, 13, <<0, 0>>, 0)
  /\ running' = (loop'.step < 120 /\ ~envs'[1].terminated)
  /\ UNCHANGED <<program, vision, tree, latch, past>>
-----------------------------------------------------------------------------
(* run_task5_empirical_stability_envelope: three lateral and three sagittal *)
(* pushes that must not fell the robot, and a last one that must.           *)

Tests == 7

EnvelopeTick ==
  /\ program = "envelope" /\ running
  /\ \E posture \in {Standing, Fallen} :
       LET e     == Step(envs[1], ActionOf(1), posture, <<20, 0>>)
           here  == [loop EXCEPT !.step = @ + 1, !.pushes = IF loop.step = 10 THEN @ + 1 ELSE @]
           next  == loop.step = 59 /\ ~e.terminated /\ loop.iteration < Tests
       IN  /\ envs' = [envs EXCEPT ![1] = IF next THEN NewEnv ELSE e]
           /\ loop' = IF next THEN [here EXCEPT !.step = 0, !.pushes = 0, !.iteration = @ + 1] ELSE here
           /\ past' = IF next THEN [past EXCEPT !.episode[1] = 1 - @] ELSE past
           /\ running' = ~(e.terminated \/ (loop.step = 59 /\ ~next))
  /\ UNCHANGED <<program, ws, vision, world, tree, latch, engine>>
-----------------------------------------------------------------------------
(* render_full_demo: a script by the simulated time, in steps of 20 ms that *)
(* are added up in binary: 5.0, 8.5, .. 36.0 s are reached in steps 251,    *)
(* 426, .. 1800.  Its frames, at which the camera looks and the target      *)
(* changes, are the program vision.  phase is where the marker is.          *)

\* The marker is clamped in the last 15 % of the closing of the beak and let
\* go over the container.
MarkerAfter(phase, k) ==
  CASE k \in 589 .. 600 -> "HELD"
    [] k \in 1401 .. 1550 /\ phase = "HELD" -> "DROPPED"
    [] OTHER -> phase

VideoTick ==
  /\ program = "video" /\ running
  /\ \E posture \in Postures :
       envs' = [envs EXCEPT ![1] =
                  Step([SetCommand(@, IF loop.step \in (251 .. 425) \union (751 .. 1250)
                                      THEN "walk" ELSE "zero")
                          EXCEPT !.allow_mouth_contact = loop.step \in 426 .. 750],
                       ActionOf(1), posture, <<20, 0>>)]
  /\ loop' = [loop EXCEPT !.step = @ + 1, !.phase = MarkerAfter(@, loop.step)]
  /\ running' = (loop'.step < VideoSteps /\ ~envs'[1].terminated)
  /\ UNCHANGED <<program, ws, vision, world, tree, latch, engine, past>>
-----------------------------------------------------------------------------
(* train_smoke.py.  loop.done holds, for each step of the rollout, the     *)
(* environments whose episode ended in it.                                 *)

\* Environment i starts another episode and is told to walk.
Restart(e) == SetCommand(Reset(e), "walk")

CollectRollouts ==
  /\ program = "train" /\ running /\ loop.phase = "COLLECT"
  /\ envs' = [i \in DOMAIN envs |-> Restart(envs[i])]
  /\ past' = [past EXCEPT !.episode = [i \in DOMAIN envs |-> 1 - @[i]]]
  /\ loop' = [loop EXCEPT !.phase = "ROLLOUT", !.step = 0, !.done = <<>>]
  /\ UNCHANGED <<program, running, ws, vision, world, tree, latch, engine>>

RolloutStep ==
  /\ program = "train" /\ loop.phase = "ROLLOUT" /\ loop.step < Rollout
  /\ \E posture \in [DOMAIN envs -> {Standing, Fallen}] :
       LET stepped == [i \in DOMAIN envs |-> Step(envs[i], ActionOf(i), posture[i], <<300, 100>>)]
           done    == {i \in DOMAIN envs : stepped[i].terminated \/ Truncated(stepped[i])}
       IN  /\ envs' = [i \in DOMAIN envs |-> IF i \in done THEN Restart(stepped[i]) ELSE stepped[i]]
           /\ past' = [past EXCEPT !.episode =
                         [i \in DOMAIN envs |-> IF i \in done THEN 1 - @[i] ELSE @[i]]]
           /\ loop' = [loop EXCEPT !.step = @ + 1, !.done = Append(@, done)]
  /\ UNCHANGED <<program, running, ws, vision, world, tree, latch, engine>>

\* The advantages are estimated and the policy is updated.
Update ==
  /\ program = "train" /\ running /\ loop.phase = "ROLLOUT" /\ loop.step = Rollout
  /\ loop' = [loop EXCEPT !.phase = "COLLECT", !.iteration = IF @ < Iterations THEN @ + 1 ELSE @]
  /\ running' = (loop.iteration < Iterations)
  /\ UNCHANGED <<program, ws, vision, world, tree, latch, engine, envs, past>>

Credit_NextDone(done, i) ==
  LET T == Len(done)
      credit[t \in 1 .. T + 1] ==
        IF t > T THEN {}
        ELSE {t} \union (IF i \in done[IF t = T THEN T ELSE t + 1] THEN {}
                         ELSE {t + 1} \union credit[t + 1])
  IN  credit

\* Generalised advantage estimation: the steps of the rollout whose rewards
\* and values enter the advantage of environment i at step t; Rollout + 1
\* stands for the value of the last observation.
Credit(done, i) ==
  LET T == Len(done)
      credit[t \in 1 .. T + 1] ==
        IF t > T THEN {}
        ELSE {t} \union (IF i \in done[t] THEN {} ELSE {t + 1} \union credit[t + 1])
  IN  credit
-----------------------------------------------------------------------------
(* The locomotion engine with commands of several lengths.                 *)

Command ==
  /\ program = "trims" /\ ~engine.raised
  /\ \E length \in {2, 3, 5, 13}, trims \in {<<0, 0>>, <<99, -99>>, <<-3, 99>>}, vx \in {0, -40, 80, 99} :
       /\ engine' = EngineStep(engine, length, trims, vx)
       /\ past' = CASE length # 5 -> past
                    [] length = 5 /\ vx >= MaxSpeed ->
                         [past EXCEPT !.fast = IF @ < MaxTrim THEN @ + 1 ELSE @]
                    [] OTHER -> [past EXCEPT !.fast = 0]
  /\ UNCHANGED <<program, running, ws, vision, world, tree, latch, envs, loop>>

SimulationNext ==
  \/ MuJoCoTick \/ EvalTick \/ EnvelopeTick \/ VideoTick
  \/ CollectRollouts \/ RolloutStep \/ Update
  \/ Command

Next == BrainNext \/ SimulationNext

Spec == Init /\ [][Next]_vars

\* The loops of the trees go round as long as the program runs.
FairSpec == Spec /\ WF_past(Beat)
-----------------------------------------------------------------------------
ActionNames == {Stance} \union ((0 .. 1) \X Nat)

TypeOK ==
  /\ program \in Programs /\ running \in BOOLEAN
  /\ ws \in WorldStates /\ vision \in Trackers /\ tree \in TreeStates
  /\ latch \in [active : Skills \union {NoSkill}, ran : Skills \union {NoSkill}, status : Statuses]
  /\ engine \in [filtered : [1 .. 2 -> -MaxTrim .. MaxTrim], pose : [1 .. 2 -> Int], raised : BOOLEAN]
  /\ envs \in [1 .. NumEnvs -> Envs(ActionNames)]
  /\ IF program = "rig" THEN loop \in RigStates
     ELSE loop.step \in Nat /\ loop.done \in Seq(SUBSET (1 .. NumEnvs))

\* The robot turns only while it looks for the ball and walks only to a ball
\* it has found and not reached; it holds one it has reached, and stands then.
\* A tree that has ended, an avoidance included, leaves it standing.
CommandFitsMission ==
  /\ program = "mujoco" =>
       /\ envs[1].command = "turn" => "ball_visible" \notin tree.board
       /\ envs[1].command = "walk" => "ball_visible" \in tree.board /\ "ball_close" \notin tree.board
       /\ "ball_held" \in tree.board =>
            "ball_close" \in tree.board /\ envs[1].command = "zero"
  /\ (program \in {"routine", "mujoco"} /\ tree.status # "RUNNING") => tree.velocity = "zero"

\* Unless the robot falls, each script comes to its end with its work done.
\* The mission of the suite is complete within 120 steps, has met its push and
\* stands from the pickup on.  The video drops the marker it clamped before,
\* carries it through the maze, and never walks while the beak may touch the
\* ground.  A test of the envelope that the robot survived has pushed it once.
ScriptsComplete ==
  /\ program = "eval" =>
       /\ loop.step = 120 => loop.phase = "COMPLETE" /\ loop.pushes = 1
       /\ loop.phase \in {"PICKUP", "COMPLETE"} => envs[1].command = "zero"
  /\ program = "video" =>
       /\ loop.step = VideoSteps => loop.phase = "DROPPED"
       /\ (envs[1].command = "walk" /\ loop.step > 426) => loop.phase = "HELD"
       /\ envs[1].allow_mouth_contact => envs[1].command = "zero"
  /\ (program = "envelope" /\ loop.step > 10) => loop.pushes = 1

\* The setpoint that drives the servos is the action of DelaySteps steps
\* before in the same episode, and the stance until there is one.
SetpointIsDelayed ==
  \A i \in DOMAIN envs :
    envs[i].due = IF envs[i].step_count <= DelaySteps THEN Stance
                  ELSE <<past.episode[i], envs[i].step_count - 1 - DelaySteps>>

\* No program steps a robot that lies on the ground: it resets it or ends.
NoStepAfterFall ==
  [][\A i \in DOMAIN envs :
       (envs[i].posture = Fallen \/ envs[i].posture.low \/ envs[i].posture.tilt > 104)
         => envs'[i] = envs[i] \/ envs'[i].step_count = 0]_envs

\* The advantage of a step is made of the rest of its episode in the rollout,
\* all of it, and of nothing from the episode that follows.
CreditStaysInEpisode ==
  program = "train" => \A i \in DOMAIN envs, t \in DOMAIN loop.done :
    Credit(loop.done, i)[t] =
      {s \in t .. Len(loop.done) + 1 : \A u \in t .. s - 1 : i \notin loop.done[u]}

\* At full forward speed the roll and pitch trims are slewed to zero, though
\* commands that bypass the filter come in between.
TrimsFade == past.fast >= MaxTrim => engine.filtered = <<0, 0>>
=============================================================================
