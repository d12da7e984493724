----------------------------- MODULE WorldState -----------------------------
(***************************************************************************)
(* The sanitised view of the sensors (world_state.py), one record operated *)
(* on by its methods: hysteresis filters for stability, roughness and      *)
(* battery, and majority windows for the ball and the obstacle.            *)
(*                                                                         *)
(* Integers stand for the program's floats: angles, scores and variances   *)
(* in hundredths, battery voltage in tenths of a volt, depth in mm.  The   *)
(* battery percentage and the numbers only shown to the user are left out. *)
(***************************************************************************)
EXTENDS Integers, Sequences, FiniteSets

CONSTANTS
  Window,     \* length of the majority windows (5 in the code)
  None        \* a key that is absent from a telemetry frame

ASSUME WindowAssumption == Window \in Nat \ {0}

Levels == {"LOW", "MEDIUM", "HIGH"}

\* (A definition named X_... is a faulty variant of X, for the mutation runs.)
Schmitt_NoHysteresis(state, x, low, high) == IF x <= low THEN "LOW" ELSE "HIGH"

\* SchmittTrigger.update
Schmitt(state, x, low, high) ==
  CASE state = "LOW"  /\ x >= high -> "HIGH"
    [] state = "HIGH" /\ x <= low  -> "LOW"
    [] OTHER                       -> state

\* MultiLevelSchmittTrigger.update with the thresholds of WorldState
MultiLevel(state, x) ==
  CASE x >= 65                            -> "HIGH"
    [] x <= 25                            -> "LOW"
    [] state = "LOW"  /\ x \in 35 .. 64   -> "MEDIUM"
    [] state = "HIGH" /\ x \in 26 .. 50   -> "MEDIUM"
    [] OTHER                              -> state

\* TemporalDebouncer: a window of at most Window samples, and its 80 %
\* majority, taken over the samples there are while the window fills.
Slide(w, sample) == Append(IF Len(w) < Window THEN w ELSE Tail(w), sample)

Majority(w) == 10 * Cardinality({i \in DOMAIN w : w[i]}) >= 8 * Len(w)

NewWorldState ==
  [stability |-> "HIGH", roughness |-> "LOW", battery |-> "HIGH",
   balls |-> <<>>, obstacles |-> <<>>,
   ball_visible |-> FALSE, obstacle_close |-> FALSE, is_brownout_risk |-> FALSE,
   is_fallen |-> FALSE, is_limp |-> FALSE, is_near_fall |-> FALSE,
   forward_clearance |-> 2000, target_locked |-> FALSE, visual |-> None]
-----------------------------------------------------------------------------
(* The operations.  tilt is the length of (roll, pitch).                   *)

UpdateOrientation(ws, tilt) ==
  [ws EXCEPT !.is_near_fall = tilt >= 44,        \* more than 25 degrees
             !.stability = MultiLevel(@, IF tilt > 100 THEN 0 ELSE 100 - tilt)]

UpdateRoughness(ws, variance) == [ws EXCEPT !.roughness = MultiLevel(@, variance)]

UpdateBallVisible(ws, raw) ==
  LET w == Slide(ws.balls, raw)
  IN  [ws EXCEPT !.balls = w, !.ball_visible = Majority(w)]

UpdateObstacleClose(ws, raw) ==
  LET w == Slide(ws.obstacles, raw)
  IN  [ws EXCEPT !.obstacles = w, !.obstacle_close = Majority(w)]

UpdateBatteryVoltage(ws, volts) ==
  LET state == Schmitt(ws.battery, volts, 65, 68)
  IN  [ws EXCEPT !.battery = state, !.is_brownout_risk = state = "LOW"]

\* A frame of robotd.  A frame without "safety" clears fallen and limp; one
\* without gravity or voltage leaves what depends on it alone.
UpdateFromRobotState(ws, frame) ==
  LET safe    == [ws EXCEPT !.is_fallen = "fallen" \in frame.safety,
                            !.is_limp = "limp" \in frame.safety]
      leaning == IF frame.tilt = None THEN safe ELSE UpdateOrientation(safe, frame.tilt)
  IN  IF frame.volts = None THEN leaning ELSE UpdateBatteryVoltage(leaning, frame.volts)

UpdateFromTofFrame_Blind(ws, depths) ==
  UpdateObstacleClose(ws, \E d \in depths : d < 300)

\* A frame of tofd, given as the set of its central depths, empty for a frame
\* of the wrong size.  Without a valid depth nothing changes, not even a window.
UpdateFromTofFrame(ws, depths) ==
  LET valid   == {d \in depths : d > 10}
      nearest == CHOOSE d \in valid : \A e \in valid : d <= e
  IN  IF valid = {} THEN ws
      ELSE UpdateObstacleClose([ws EXCEPT !.forward_clearance = nearest], nearest < 300)

\* A lock feeds the ball window; the loss of it does not.
UpdateVisualTracking(ws, locked, sight) ==
  LET w == [ws EXCEPT !.target_locked = locked, !.visual = sight]
  IN  IF locked THEN UpdateBallVisible(w, TRUE) ELSE w

\* The dictionary a tree is ticked with.  Every key is one a node may ask
\* for, but "obstacle_detected" and "distance" are not among them.
ToDict(ws) ==
  [k \in {"stability", "roughness", "ball_visible", "obstacle_close", "is_brownout_risk",
          "is_fallen", "is_limp", "is_near_fall", "forward_clearance", "target_locked",
          "visual"} |-> ws[k]]

WorldStates ==
  [stability : Levels, roughness : Levels, battery : {"LOW", "HIGH"},
   balls : UNION {[1 .. n -> BOOLEAN] : n \in 0 .. Window},
   obstacles : UNION {[1 .. n -> BOOLEAN] : n \in 0 .. Window},
   ball_visible : BOOLEAN, obstacle_close : BOOLEAN, is_brownout_risk : BOOLEAN,
   is_fallen : BOOLEAN, is_limp : BOOLEAN, is_near_fall : BOOLEAN,
   forward_clearance : Nat, target_locked : BOOLEAN, visual : 0 .. 1 \union {None}]
=============================================================================
