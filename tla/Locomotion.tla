----------------------------- MODULE Locomotion -----------------------------
(***************************************************************************)
(* The command filter and the policy runner (locomotion_engine.py).        *)
(* Angles and speeds are in hundredths; the policy is a library that       *)
(* returns some action.                                                    *)
(***************************************************************************)
EXTENDS Integers

CONSTANTS
  MaxTrim,    \* max_roll_rad and max_pitch_rad (20)
  MaxSpeed    \* max_forward_vel (80)

ASSUME LocomotionAssumption == MaxTrim \in Nat /\ MaxSpeed \in Nat \ {0}

Clip(x, low, high) == IF x < low THEN low ELSE IF x > high THEN high ELSE x

Attenuate_Not(trim, vx) == Clip(trim, -MaxTrim, MaxTrim)

\* A trim is clamped, and faded out up to the speed at which it is zero.
Attenuate(trim, vx) ==
  LET speed == Clip(IF vx < 0 THEN -vx ELSE vx, 0, MaxSpeed)
  IN  (Clip(trim, -MaxTrim, MaxTrim) * (MaxSpeed - speed)) \div MaxSpeed

\* AttitudeCommandFilter.process: one slew step (0.5 rad/s * 20 ms) at most
\* towards the attenuated trim, for roll and pitch
Process(filtered, trims, vx) ==
  [i \in 1 .. 2 |-> filtered[i] + Clip(Attenuate(trims[i], vx) - filtered[i], -1, 1)]

\* compute_safe_velocity: positive as long as the tilt is under the limit
SafeVelocity(target, tilt, limit) ==
  IF tilt >= limit THEN 0 ELSE target * (limit - tilt)

NewEngine == [filtered |-> <<0, 0>>, pose |-> <<0, 0>>, raised |-> FALSE]

\* MicroduckLocomotionEngine.step, up to the command part of the observation:
\* only a command of five numbers goes through the filter; one of thirteen
\* brings its own pose, one of three none, and any other length raises.
EngineStep(l, length, trims, vx) ==
  CASE length = 5  -> LET f == Process(l.filtered, trims, vx)
                      IN  [l EXCEPT !.filtered = f, !.pose = f]
    [] length = 13 -> [l EXCEPT !.pose = trims]
    [] length = 3  -> [l EXCEPT !.pose = <<0, 0>>]
    [] OTHER       -> [l EXCEPT !.raised = TRUE]
=============================================================================
