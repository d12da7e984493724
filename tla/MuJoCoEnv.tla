------------------------------ MODULE MuJoCoEnv -----------------------------
(***************************************************************************)
(* The simulation environment (sim/env.py) around the physics engine,      *)
(* which is a library: after each step it leaves the robot in some posture *)
(* [low, tilt, contacts] with some load on its servos.  Actions and        *)
(* setpoints are names, Stance the default pose; clipping an action does   *)
(* not change which one it is.                                             *)
(***************************************************************************)
EXTENDS BamActuator

CONSTANTS
  Stance,     \* DEFAULT_POSE as a setpoint, and the zero action
  MaxSteps    \* steps after which an episode is truncated (1000)

Standing == [low |-> FALSE, tilt |-> 0, contacts |-> {"foot"}]

\* get_observation, as far as it is not the state of the body itself
Observation(e) == [last_action |-> e.last_action, command |-> e.command, tilt |-> e.posture.tilt]

SetCommand(e, twist) == [e EXCEPT !.command = twist]

\* reset(): the physics starts over and settles upright.  The command, the
\* mouth permission and the force range of the solver stay as they were.
Reset(e) ==
  LET r == [e EXCEPT !.posture = Standing, !.bam = ResetBam(@, Stance),
                     !.last_action = Stance, !.step_count = 0, !.due = Stance]
  IN  [r EXCEPT !.obs = Observation(r), !.terminated = FALSE]

\* A new environment, after its first reset
NewEnv ==
  [command |-> "zero", last_action |-> Stance, step_count |-> 0,
   bam |-> ResetBam([queue |-> <<>>, voltage |-> 820, torque |-> 0, limit |-> 520,
                     current |-> 15], Stance),
   force |-> 520, due |-> Stance, posture |-> Standing, allow_mouth_contact |-> FALSE,
   terminated |-> FALSE, reward |-> 0,
   obs |-> [last_action |-> Stance, command |-> "zero", tilt |-> 0]]

\* check_non_foot_ground_collision
Collides(e) ==
  e.posture.contacts \ (IF e.allow_mouth_contact THEN {"foot", "mouth"} ELSE {"foot"}) # {}

IsTerminated_Tilt(e) == e.posture.low \/ e.posture.tilt > 104

\* is_terminated: collapsed, tilted by more than 60 degrees, or a collision
IsTerminated(e) == e.posture.low \/ e.posture.tilt > 104 \/ Collides(e)

\* The penalty of a fall; the terms of the reward of walking are left out.
Reward(fall) == IF fall THEN -50 ELSE 1

\* step(): the setpoint that is due drives every sub-step, and the last one
\* leaves its torques and limits behind.  The observation is taken before
\* last_action is replaced.
Step(e, action, posture, load) ==
  LET delayed == StepDelay(e.bam, action)
      bam     == ComputeTorques(delayed.bam, load[1], load[2])
      moved   == [e EXCEPT !.bam = bam, !.force = bam.limit, !.due = delayed.due,
                           !.posture = posture, !.step_count = @ + 1]
      fallen  == IsTerminated(moved)
  IN  [moved EXCEPT !.obs = Observation(moved), !.terminated = fallen,
                    !.reward = Reward(fallen), !.last_action = action]

Truncated(e) == e.step_count >= MaxSteps

Envs(actions) ==
  [command : {"zero", "walk", "turn", "spin"}, last_action : actions, step_count : Nat,
   bam : [queue : [1 .. DelaySteps -> actions], voltage : 600 .. 820,
          torque : Int, limit : 0 .. 576, current : 15 .. Servos * 140 + 15],
   force : 0 .. 576, due : actions,
   posture : [low : BOOLEAN, tilt : Nat, contacts : SUBSET {"foot", "mouth", "body"}],
   allow_mouth_contact : BOOLEAN, terminated : BOOLEAN, reward : {-50, 0, 1},
   obs : [last_action : actions, command : {"zero", "walk", "turn", "spin"}, tilt : Nat]]
=============================================================================
