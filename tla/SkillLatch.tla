----------------------------- MODULE SkillLatch -----------------------------
(***************************************************************************)
(* The skill latch (skill_latch.py) and the mask that bars a planner from  *)
(* sampling an action the world does not allow (logit_masking.py).         *)
(* Distances are in hundredths of a metre.                                 *)
(***************************************************************************)
EXTENDS Integers

CONSTANTS
  Skills,     \* the names the latch has a skill for
  NoSkill     \* active_skill_name is None

Actions == {"PICKUP", "APPROACH", "NORMAL_PACE", "FAST_PACE", "RETURN", "WAIT"}

\* mask_invalid_actions: the actions whose logits it leaves alone.
Unmasked(world) ==
  {a \in Actions :
     /\ a = "PICKUP"   => world.ball_visible /\ world.distance <= 30
     /\ a = "APPROACH" => world.ball_visible /\ world.distance > 30
     /\ a \in {"NORMAL_PACE", "FAST_PACE"} => world.stability # "LOW"
     /\ a = "RETURN"   => world.ball_grasped}

NewLatch == [active |-> NoSkill, ran |-> NoSkill, status |-> "SUCCESS"]

ExecuteTick_Relatch(latch, requested, outcome) ==
  IF requested \notin Skills
  THEN [latch EXCEPT !.ran = NoSkill, !.status = "FAILURE"]
  ELSE [active |-> IF outcome = "RUNNING" THEN requested ELSE NoSkill,
        ran |-> requested, status |-> outcome]

\* execute_tick; ran is the skill it ran and outcome what the skill returned,
\* RAISED for an exception, which leaves the skill latched.
ExecuteTick(latch, requested, outcome) ==
  LET skill == IF latch.active = NoSkill THEN requested ELSE latch.active
  IN  IF skill \notin Skills
      THEN [latch EXCEPT !.ran = NoSkill, !.status = "FAILURE"]
      ELSE [active |-> IF outcome \in {"RUNNING", "RAISED"} THEN skill ELSE NoSkill,
            ran |-> skill, status |-> outcome]

AbortActive(latch) == [latch EXCEPT !.active = NoSkill]
=============================================================================
