---------------------------- MODULE BehaviorTree ----------------------------
(***************************************************************************)
(* The behaviour-tree engine (behavior_tree.py) and the leaves the two     *)
(* demonstration programs add to it.  Tree is the table of the nodes; all  *)
(* that their tick() and abort() methods change is one record t:           *)
(*   at       current_idx, phase, or whether a clip was started            *)
(*   steps    elapsed_ticks, tick_counter, step_in_phase, elapsed, frame   *)
(*   failures retry_counts["search_ball"], which matters up to three       *)
(*   board    the blackboard flags that are set                            *)
(*   velocity, head, beak, clip, did   what the callbacks were last told;  *)
(*            clip is the weight of the captured motion in the joints      *)
(*            (in 1/blend^2), did the gestures and sounds of this tick     *)
(*   status   what the last tick() returned, "RAISED" for an exception     *)
(* tick() is one step: the program that calls it has a single thread.      *)
(***************************************************************************)
EXTENDS Integers, Sequences, FiniteSets

CONSTANT Tree   \* node |-> [kind, kids, ticks, tag]

Nodes == DOMAIN Tree
Kids(n) == Tree[n].kids

Statuses == {"RUNNING", "SUCCESS", "FAILURE", "RAISED"}
Velocities == {"zero", "spin", "turn", "bypass", "realign", "walk"}

NewTree ==
  [at |-> [n \in Nodes |-> 0], steps |-> [n \in Nodes |-> 0], failures |-> 0,
   board |-> {}, velocity |-> "zero", head |-> "zero", beak |-> "shut",
   clip |-> 0, did |-> {}, status |-> "RUNNING"]

TreeStates ==
  [at : [Nodes -> 0 .. 4], steps : [Nodes -> Nat], failures : 0 .. 3,
   board : SUBSET {"ball_visible", "ball_close", "ball_held"},
   velocity : Velocities, head : {"zero", "scan"}, beak : {"shut", "open", "weld"},
   clip : Nat, did : SUBSET {Tree[n].tag : n \in Nodes}, status : Statuses]

\* Mapping.get, str.upper() included: the programs write levels in capitals.
Get(w, key, default) == IF key \in DOMAIN w THEN w[key] ELSE default

Return(t, status) == [t EXCEPT !.status = status]

Calm_NotLow(w) == Get(w, "stability", "HIGH") # "LOW"

\* Balance comes first: gestures need stability HIGH and roughness not HIGH.
Calm(w) == /\ Get(w, "stability", "HIGH") = "HIGH"
           /\ Get(w, "roughness", "LOW") # "HIGH"

Count_RunsOn(n, t, limit) ==
  [t EXCEPT !.steps[n] = IF @ + 1 >= limit THEN 0 ELSE @ + 1, !.status = "RUNNING"]

\* One more tick of at most limit ticks.
Count(n, t, limit) ==
  IF t.steps[n] + 1 >= limit THEN [t EXCEPT !.steps[n] = 0, !.status = "SUCCESS"]
  ELSE [t EXCEPT !.steps[n] = @ + 1, !.status = "RUNNING"]
-----------------------------------------------------------------------------
(* Leaves of the library.                                                  *)

ExpressionTick(n, t, w) ==
  IF ~Calm(w) THEN [t EXCEPT !.steps[n] = 0, !.status = "SUCCESS"]
  ELSE Count(n, IF t.steps[n] = 0 THEN [t EXCEPT !.did = @ \union {Tree[n].tag}] ELSE t,
             Tree[n].ticks[1])

\* The offsets are sinusoids and never both zero; the counter only tells
\* whether the node has moved since it was last aborted.
AmbientTick(n, t, w) ==
  IF Calm(w) THEN [t EXCEPT !.head = "scan", !.steps[n] = 1, !.status = "RUNNING"]
  ELSE [t EXCEPT !.head = "zero", !.status = "RUNNING"]

\* Phases 1 .. 3 follow each other, and the last ends in phase 0.
Phase(n, t, last) ==
  LET r == Count(n, t, Tree[n].ticks[t.at[n]])
  IN  IF r.status = "RUNNING" THEN r
      ELSE IF t.at[n] = last THEN [r EXCEPT !.at[n] = 0]
      ELSE [r EXCEPT !.at[n] = @ + 1, !.status = "RUNNING"]

AvoidTick(n, t, w) ==
  IF t.at[n] = 0 /\ ~Get(w, "obstacle_detected", FALSE) THEN Return(t, "SUCCESS")
  ELSE LET p == IF t.at[n] = 0 THEN 1 ELSE t.at[n]
           r == Phase(n, [t EXCEPT !.at[n] = p, !.velocity = <<"turn", "bypass", "realign">>[p]], 3)
       IN  IF r.status = "SUCCESS" THEN [r EXCEPT !.velocity = "zero"] ELSE r

\* The code's phases 0 .. 2 are numbered 1 .. 3 while they run; an idle node
\* is in its phase 0 with no step done, as a fresh one.
GraspTick(n, t) ==
  LET p == IF t.at[n] = 0 THEN 1 ELSE t.at[n]
  IN  Phase(n, [t EXCEPT !.at[n] = p, !.beak = <<"open", "weld", @>>[p]], 3)

ClipWeight_NoBlendOut(f, frames, blend) == (IF f < blend THEN f ELSE blend) * blend

\* MocapPlayer.step: frame f of a clip blended in from the start pose and out
\* to the standing pose over blend frames.
ClipWeight(f, frames, blend) ==
  (IF f < blend THEN f ELSE blend) * (IF frames - f <= blend THEN frames - f ELSE blend)

MocapTick(n, t, w) ==
  IF Get(w, "stability", "HIGH") = "LOW" THEN Return(t, "RUNNING")
  ELSE LET f == IF t.at[n] = 0 THEN 0 ELSE t.steps[n]
           frames == Tree[n].ticks[1]
           done == f + 1 >= frames
       IN  [t EXCEPT !.clip = ClipWeight(f, frames, Tree[n].ticks[2]), !.steps[n] = f + 1,
                     !.at[n] = IF done THEN 0 ELSE 1,
                     !.status = IF done THEN "SUCCESS" ELSE "RUNNING"]

VoiceTick_Repeats(n, t) == [t EXCEPT !.did = @ \union {Tree[n].tag}, !.status = "SUCCESS"]

\* Speaks once, until it is aborted.
VoiceTick(n, t) ==
  [t EXCEPT !.did = IF t.at[n] = 0 THEN @ \union {Tree[n].tag} ELSE @,
            !.at[n] = 1, !.status = "SUCCESS"]

\* visual: 0 for a target centred and in reach, 1 for any other.  Steering
\* towards it calls np.clip, and the module has no np.
TrackTick(n, t, w) ==
  CASE ~Get(w, "target_locked", FALSE) -> [t EXCEPT !.velocity = "spin", !.status = "RUNNING"]
    [] Get(w, "target_locked", FALSE) /\ Get(w, "visual", 1) = 0 ->
         [t EXCEPT !.velocity = "zero", !.status = "SUCCESS"]
    [] OTHER -> Return(t, "RAISED")
-----------------------------------------------------------------------------
(* Leaves of run_simulation.py: they hold no state.                        *)

SearchTick(t, w) ==
  IF Get(w, "ball_visible", FALSE) THEN [t EXCEPT !.failures = 0, !.status = "SUCCESS"]
  ELSE Return(t, "FAILURE")

PickupTick_Blind(t, w) ==
  Return(t, IF Get(w, "distance", 9900) <= 30 THEN "SUCCESS" ELSE "FAILURE")

ApproachTick(t, w) ==
  CASE Get(w, "distance", 9900) <= 25       -> Return(t, "SUCCESS")
    [] /\ Get(w, "distance", 9900) > 25
       /\ Get(w, "ball_visible", FALSE)     -> Return(t, "RUNNING")
    [] OTHER                                -> Return(t, "FAILURE")

PickupTick(t, w) ==
  Return(t, IF Get(w, "distance", 9900) <= 30 /\ Get(w, "ball_visible", FALSE)
            THEN "SUCCESS" ELSE "FAILURE")

(* Leaves of run_mujoco_sim.py: timed by a clock that is never set back.   *)

Elapsed(n, t) == t.steps[n] + 1 >= Tree[n].ticks[1]
Clock(n, t) == IF Elapsed(n, t) THEN Tree[n].ticks[1] ELSE t.steps[n] + 1

TurnTick_RunsOn(n, t) ==
  LET r == [t EXCEPT !.steps[n] = Clock(n, t), !.velocity = "turn", !.head = "scan", !.status = "RUNNING"]
  IN  IF "ball_visible" \in t.board THEN [r EXCEPT !.velocity = "zero", !.status = "SUCCESS"]
      ELSE IF Elapsed(n, t) THEN [r EXCEPT !.board = @ \union {"ball_visible"}] ELSE r

TurnTick(n, t) ==
  LET r == [t EXCEPT !.steps[n] = Clock(n, t)]
  IN  CASE "ball_visible" \in t.board -> [r EXCEPT !.velocity = "zero", !.status = "SUCCESS"]
        [] "ball_visible" \notin t.board /\ Elapsed(n, t) ->
             [r EXCEPT !.velocity = "turn", !.head = "scan", !.status = "SUCCESS",
                       !.board = @ \union {"ball_visible"}]
        [] OTHER -> [r EXCEPT !.velocity = "turn", !.head = "scan", !.status = "RUNNING"]

WalkTick(n, t) ==
  IF Elapsed(n, t)
  THEN [t EXCEPT !.steps[n] = Clock(n, t), !.velocity = "zero", !.status = "SUCCESS",
                 !.board = @ \union {"ball_close"}]
  ELSE [t EXCEPT !.steps[n] = Clock(n, t), !.velocity = "walk", !.head = "zero",
                 !.status = "RUNNING"]

PickTick(n, t) ==
  LET r == [t EXCEPT !.steps[n] = Clock(n, t), !.velocity = "zero", !.head = "zero"]
  IN  IF Elapsed(n, t) THEN [r EXCEPT !.board = @ \union {"ball_held"}, !.status = "SUCCESS"]
      ELSE Return(r, "RUNNING")
-----------------------------------------------------------------------------
(* abort().  Python calls the children; no tree of the programs is deeper  *)
(* than four nodes or has a node of more than four children, which Brain   *)
(* assumes of Trees, so the calls are written out level by level.          *)

AbortedKids_None(n, t) == IF Tree[n].kind \in {"parallel", "failure"} THEN Kids(n) ELSE <<>>

\* The children abort() is passed on to: of SequenceNode and SelectorNode the
\* current one only.
AbortedKids(n, t) ==
  CASE Tree[n].kind \in {"sequence", "selector"} -> SubSeq(Kids(n), t.at[n] + 1, t.at[n] + 1)
    [] Tree[n].kind \in {"parallel", "failure"}  -> Kids(n)
    [] OTHER                                     -> <<>>

AbortNext(Below(_, _), kids, i, t) == IF i <= Len(kids) THEN Below(kids[i], t) ELSE t

AbortAll(Below(_, _), kids, t) ==
  AbortNext(Below, kids, 4, AbortNext(Below, kids, 3,
    AbortNext(Below, kids, 2, AbortNext(Below, kids, 1, t))))

AbortComposite(n, t) == [t EXCEPT !.at[n] = 0]

AbortExpression(n, t) == [t EXCEPT !.steps[n] = 0]

AbortAmbient(n, t) == [t EXCEPT !.steps[n] = 0, !.head = "zero"]

AbortAvoid(n, t) == [t EXCEPT !.at[n] = 0, !.steps[n] = 0, !.velocity = "zero"]

AbortGrasp(n, t) == [t EXCEPT !.at[n] = 0, !.steps[n] = 0]

AbortMocap(n, t) == [t EXCEPT !.at[n] = 0]

AbortVoice(n, t) == [t EXCEPT !.at[n] = 0]

AbortTrack(n, t) == [t EXCEPT !.velocity = "zero"]

\* What a node does to itself, once its children have been aborted
AbortSelf(n, t) ==
  CASE Tree[n].kind \in {"sequence", "selector"} -> AbortComposite(n, t)
    [] Tree[n].kind = "expression" -> AbortExpression(n, t)
    [] Tree[n].kind = "ambient"    -> AbortAmbient(n, t)
    [] Tree[n].kind = "avoid"      -> AbortAvoid(n, t)
    [] Tree[n].kind = "grasp"      -> AbortGrasp(n, t)
    [] Tree[n].kind = "mocap"      -> AbortMocap(n, t)
    [] Tree[n].kind = "voice"      -> AbortVoice(n, t)
    [] Tree[n].kind = "track"      -> AbortTrack(n, t)
    [] OTHER                       -> t

AbortNode(Below(_, _), n, t) == AbortSelf(n, AbortAll(Below, AbortedKids(n, t), t))

AbortAbove(n, t)  == AbortNode(AbortSelf, n, t)
AbortHigher(n, t) == AbortNode(AbortAbove, n, t)
Abort(n, t)       == AbortNode(AbortHigher, n, t)
-----------------------------------------------------------------------------
(* tick(), level by level as well                                          *)

LeafTick(n, t, w) ==
  CASE Tree[n].kind = "expression" -> ExpressionTick(n, t, w)
    [] Tree[n].kind = "ambient"    -> AmbientTick(n, t, w)
    [] Tree[n].kind = "avoid"      -> AvoidTick(n, t, w)
    [] Tree[n].kind = "grasp"      -> GraspTick(n, t)
    [] Tree[n].kind = "mocap"      -> MocapTick(n, t, w)
    [] Tree[n].kind = "voice"      -> VoiceTick(n, t)
    [] Tree[n].kind = "track"      -> TrackTick(n, t, w)
    [] Tree[n].kind = "search"     -> SearchTick(t, w)
    [] Tree[n].kind = "approach"   -> ApproachTick(t, w)
    [] Tree[n].kind = "pickup"     -> PickupTick(t, w)
    [] Tree[n].kind = "turn"       -> TurnTick(n, t)
    [] Tree[n].kind = "walk"       -> WalkTick(n, t)
    [] Tree[n].kind = "pick"       -> PickTick(n, t)

\* SequenceNode (on = "SUCCESS") and SelectorNode (on = "FAILURE") go on while
\* the children return on; r is what the current child has left.
GoOn(n, on, r) ==
  CASE r.status \in {"RUNNING", "RAISED"} -> r
    [] r.status = on -> [r EXCEPT !.at[n] = @ + 1]
    [] OTHER         -> [r EXCEPT !.at[n] = 0]

\* One round of their loop, unless it has been left
Advance(Below(_, _, _), n, on, t, w) ==
  IF t.status # on \/ t.at[n] = Len(Kids(n)) THEN t
  ELSE GoOn(n, on, Below(Kids(n)[t.at[n] + 1], t, w))

CompositeTick(Below(_, _, _), n, on, t, w) ==
  LET r1 == Advance(Below, n, on, Return(t, on), w)
      r2 == Advance(Below, n, on, r1, w)
      r3 == Advance(Below, n, on, r2, w)
      r4 == Advance(Below, n, on, r3, w)
  IN  IF r4.status = on THEN [r4 EXCEPT !.at[n] = 0] ELSE r4

ParallelEnd_NoAbort(n, primary, t) == Return(t, primary)

\* The children have been ticked; the first one is the primary one in every
\* program.
ParallelEnd(n, primary, t) ==
  CASE t.status = "RAISED" -> t
    [] t.status # "RAISED" /\ primary = "RUNNING" -> Return(t, "RUNNING")
    [] OTHER -> Return(AbortAll(Abort, Tail(Kids(n)), t), primary)

\* The i-th child; an exception of an earlier one ends the loop.
TickNext(Below(_, _, _), kids, i, t, w) ==
  IF i > Len(kids) \/ t.status = "RAISED" THEN t ELSE Below(kids[i], t, w)

ParallelTick(Below(_, _, _), n, t, w) ==
  LET r1 == Below(Kids(n)[1], t, w)
      r2 == TickNext(Below, Kids(n), 2, r1, w)
      r3 == TickNext(Below, Kids(n), 3, r2, w)
      r4 == TickNext(Below, Kids(n), 4, r3, w)
  IN  ParallelEnd(n, r1.status, r4)

\* The failure branch counts every tick, and shakes from the third on.
CountFailure(t) == [t EXCEPT !.failures = IF @ < 3 THEN @ + 1 ELSE 3]

Gesture(n, t) == Kids(n)[IF t.failures = 3 THEN 2 ELSE 1]

FailureTick(Below(_, _, _), n, t, w) ==
  Below(Gesture(n, CountFailure(t)), CountFailure(t), w)

TickNode(Below(_, _, _), n, t, w) ==
  CASE Tree[n].kind = "sequence"   -> CompositeTick(Below, n, "SUCCESS", t, w)
    [] Tree[n].kind = "selector"   -> CompositeTick(Below, n, "FAILURE", t, w)
    [] Tree[n].kind = "parallel"   -> ParallelTick(Below, n, t, w)
    [] Tree[n].kind = "failure"    -> FailureTick(Below, n, t, w)
    [] OTHER                       -> LeafTick(n, t, w)

TickAbove(n, t, w)  == TickNode(LeafTick, n, t, w)
TickHigher(n, t, w) == TickNode(TickAbove, n, t, w)
Tick(n, t, w)       == TickNode(TickHigher, n, t, w)

\* A tick of the root.
TickRoot(root, t, w) == Tick(root, [t EXCEPT !.did = {}], w)
=============================================================================
