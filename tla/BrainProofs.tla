----------------------------- MODULE BrainProofs ----------------------------
(* Theorems about the programs of Simulations that hold no behaviour tree: *)
(* the sensor filters, the tracker, the skill latch and the pre-flight     *)
(* check.  The specification is that of all programs together.             *)
EXTENDS Simulations, FiniteSetTheorems, WellFoundedInduction, TLAPS

\* Which action may change what
LEMMA Movers ==
  ASSUME [Next]_vars
  PROVE  /\ program' = program
         /\ \/ ws' = ws
            \/ TelemetryFrame \/ ImuVariance \/ DepthFrame \/ ServoTick \/ MuJoCoTick \/ EvalTick
         /\ vision' = vision \/ TrackFrame \/ SetTarget \/ ServoTick
         /\ latch' = latch \/ PlannerTick \/ PlannerAbort
         /\ engine' = engine \/ EvalTick \/ Command
         /\ \/ envs' = envs
            \/ MuJoCoTick \/ EvalTick \/ EnvelopeTick \/ VideoTick \/ CollectRollouts \/ RolloutStep
<1>1. CASE TelemetryFrame
  BY <1>1 DEF TelemetryFrame
<1>2. CASE ImuVariance
  BY <1>2 DEF ImuVariance
<1>3. CASE DepthFrame
  BY <1>3 DEF DepthFrame
<1>4. CASE TrackFrame \/ SetTarget
  BY <1>4 DEF TrackFrame, SetTarget
<1>5. CASE ServoTick
  BY <1>5 DEF ServoTick
<1>6. CASE DemoTick \/ RoutineTick \/ Preempt
  BY <1>6 DEF DemoTick, RoutineTick, Preempt
<1>7. CASE PlannerTick \/ PlannerAbort
  BY <1>7 DEF PlannerTick, PlannerAbort
<1>8. CASE RigStep \/ RigInterrupted \/ RigHears
  BY <1>8 DEF RigStep, RigInterrupted, RigHears
<1>9. CASE MuJoCoTick
  BY <1>9 DEF MuJoCoTick
<1>10. CASE EvalTick
  BY <1>10 DEF EvalTick
<1>11. CASE EnvelopeTick \/ VideoTick
  BY <1>11 DEF EnvelopeTick, VideoTick
<1>12. CASE CollectRollouts \/ RolloutStep \/ Update
  BY <1>12 DEF CollectRollouts, RolloutStep, Update
<1>13. CASE Command
  BY <1>13 DEF Command
<1>14. CASE UNCHANGED vars
  BY <1>14 DEF vars
<1> QED
  BY <1>1, <1>2, <1>3, <1>4, <1>5, <1>6, <1>7, <1>8, <1>9, <1>10, <1>11, <1>12, <1>13, <1>14
     DEF Next, BrainNext, SimulationNext
-----------------------------------------------------------------------------
(* The skill latch *)

\* The latched skill is one of the latch's skills, and the last that ran.
LatchInv ==
  /\ latch \in [active : Skills \union {NoSkill}, ran : Skills \union {NoSkill},
                status : Statuses]
  /\ latch.active # NoSkill => latch.ran = latch.active

\* A step moves the latch by its own methods only, and a latched skill stays
\* the one that runs.
LEMMA LatchStep ==
  ASSUME LatchInv, [Next]_vars
  PROVE  LatchInv' /\ (latch' = latch \/ (latch.active # NoSkill => latch'.ran = latch.active))
<1>1. CASE latch' = latch
  BY <1>1 DEF LatchInv
<1>2. CASE PlannerTick
  <2>1. PICK requested \in Unmasked(world'), outcome \in Statuses :
          latch' = ExecuteTick(latch, requested, outcome)
    BY <1>2 DEF PlannerTick
  <2>2. latch.active \in Skills \union {NoSkill}
    BY DEF LatchInv
  <2> QED BY <2>1, <2>2 DEF LatchInv, ExecuteTick, Statuses
<1>3. CASE PlannerAbort
  BY <1>3 DEF PlannerAbort, AbortActive, LatchInv
<1> QED BY <1>1, <1>2, <1>3, Movers

\* A latched skill runs until it ends or is aborted, whatever the planner asks
\* for (SkillLatch.execute_tick).
THEOREM SkillsAreLatched == Spec => OneSkillAtATime
<1>1. Init => LatchInv
  BY DEF Init, LatchInv, NewLatch, Statuses
<1>2. LatchInv /\ [Next]_vars => LatchInv'
  BY LatchStep
<1>3. LatchInv /\ [Next]_vars => [latch.active # NoSkill => latch'.ran = latch.active]_latch
  BY LatchStep
<1> QED BY <1>1, <1>2, <1>3, PTL DEF Spec, OneSkillAtATime
-----------------------------------------------------------------------------
(* The pre-flight check *)

\* RigStates, the movements written out
RigRecords ==
  [gate : {"CONNECT", "BATTERY", "SAFETY", "TOF", "DEPTH", "ACTUATE", "FINALLY", "ENDED"},
   move : 1 .. 6, telemetry : SUBSET Alarms, all_passed : BOOLEAN,
   line : {"closed", "open"}, tof : {"closed", "open"}, lost : BOOLEAN,
   interrupted : BOOLEAN,
   sent : {"nothing", "open", "shut", "tilt", "level", "quack", "stop"},
   beak : {"shut", "open"}, head : {"level", "tilt"},
   verdict : {"NONE", "PASSED", "FAILED", "RAISED"}]

\* What holds on the way: until the block is left the line is open; at each
\* gate the actuators are where the movements made so far have put them.
RigGates(r) ==
  /\ r \in RigRecords
  /\ r.gate = "CONNECT" => r = [NewRig EXCEPT !.telemetry = r.telemetry]
  /\ r.gate \notin {"CONNECT", "ENDED"} => r.line = "open"
  /\ r.gate \notin {"CONNECT", "FINALLY", "ENDED"} => ~r.interrupted
  /\ r.gate \in {"BATTERY", "SAFETY", "TOF", "DEPTH"} => r.move = 1
  /\ r.gate # "ENDED" /\ ~r.interrupted =>
       /\ r.tof = "open" => r.gate = "DEPTH"
       /\ ~r.lost => /\ r.beak = "open" => r.gate = "ACTUATE" /\ r.move = 2
                     /\ r.head = "tilt" => r.gate = "ACTUATE" /\ r.move = 4
  /\ r.gate = "ENDED" =>
       /\ r.line = "closed"
       /\ r.lost \/ r.sent = "stop" \/ (r.sent = "nothing" /\ r.verdict = "FAILED")
       /\ ~r.lost /\ ~r.interrupted => r.beak = "shut" /\ r.head = "level" /\ r.tof = "closed"

\* The record of another program's loop is of another kind.
RigInv == program = "rig" => RigGates(loop) /\ (running <=> loop.gate # "ENDED")

\* The movements one by one
LEMMA MovementsAre ==
  /\ Len(Movements) = 6 /\ Movements[1] = "open" /\ Movements[2] = "shut"
  /\ Movements[3] = "tilt" /\ Movements[4] = "level" /\ Movements[5] = "quack"
  /\ Movements[6] = "stop"
  /\ RigStates = RigRecords
<1>1. /\ DOMAIN Movements = 1 .. 6 /\ Len(Movements) = 6
      /\ Movements[1] = "open" /\ Movements[2] = "shut"
      /\ Movements[3] = "tilt" /\ Movements[4] = "level" /\ Movements[5] = "quack"
      /\ Movements[6] = "stop"
  BY DEF Movements
<1>2. {"nothing"} \union {Movements[i] : i \in DOMAIN Movements}
        = {"nothing", "open", "shut", "tilt", "level", "quack", "stop"}
  <2>1. \A i \in 1 .. 6 : i = 1 \/ i = 2 \/ i = 3 \/ i = 4 \/ i = 5 \/ i = 6
    OBVIOUS
  <2> HIDE DEF Movements
  <2> QED BY <1>1, <2>1
<1> QED BY <1>1, <1>2 DEF RigStates, RigRecords

\* A new check has passed no gate.
LEMMA NewRigGates == RigGates(NewRig)
BY DEF RigGates, NewRig, Alarms, RigRecords

\* A command that is sent ends up as the last one, and moves what it is for.
LEMMA SendIs ==
  ASSUME NEW r \in RigRecords, NEW c \in {"open", "shut", "tilt", "level", "quack", "stop"}
  PROVE  /\ Send(r, c) \in RigRecords
         /\ Send(r, c).gate = r.gate /\ Send(r, c).move = r.move /\ Send(r, c).line = r.line
         /\ Send(r, c).lost = r.lost /\ Send(r, c).tof = r.tof
         /\ Send(r, c).interrupted = r.interrupted
         /\ ~r.lost /\ r.line = "open" =>
              /\ Send(r, c).sent = c
              /\ Send(r, c).beak = IF c \in {"open", "shut"} THEN c ELSE r.beak
              /\ Send(r, c).head = IF c \in {"tilt", "level"} THEN c ELSE r.head
<1>1. /\ (IF c \in {"open", "shut"} THEN c ELSE r.beak) \in {"shut", "open"}
      /\ (IF c \in {"tilt", "level"} THEN c ELSE r.head) \in {"level", "tilt"}
  BY DEF RigRecords
<1>2. \A beak \in {"shut", "open"}, head \in {"level", "tilt"} :
        [r EXCEPT !.sent = c, !.beak = beak, !.head = head] \in RigRecords
  BY ZenonT(30) DEF RigRecords
<1>3. Send(r, c) \in RigRecords
  BY <1>1, <1>2 DEF Send
<1>4. /\ Send(r, c).gate = r.gate /\ Send(r, c).move = r.move /\ Send(r, c).line = r.line
      /\ Send(r, c).lost = r.lost /\ Send(r, c).tof = r.tof
  BY DEF Send, RigRecords
<1>5. Send(r, c).interrupted = r.interrupted
  BY DEF Send, RigRecords
<1>6. ASSUME ~r.lost, r.line = "open"
      PROVE  /\ Send(r, c).sent = c
             /\ Send(r, c).beak = IF c \in {"open", "shut"} THEN c ELSE r.beak
             /\ Send(r, c).head = IF c \in {"tilt", "level"} THEN c ELSE r.head
  BY <1>6 DEF Send, RigRecords
<1> QED BY <1>3, <1>4, <1>5, <1>6

\* Each way a gate of the check may go leaves the gates in order.
LEMMA CheckGates ==
  ASSUME NEW r, RigGates(r), NEW s \in Checks(r)
  PROVE  RigGates(s)
<1>0. r \in RigRecords
  BY DEF RigGates
<1>1. CASE r.gate = "CONNECT"
  <2>1. r = [NewRig EXCEPT !.telemetry = r.telemetry]
    BY <1>1 DEF RigGates
  <2>2. /\ r.tof = "closed" /\ ~r.interrupted /\ r.move = 1 /\ ~r.lost /\ r.beak = "shut"
        /\ r.head = "level" /\ r.sent = "nothing" /\ r.line = "closed"
    BY <2>1 DEF NewRig
  <2>3. CASE s = [r EXCEPT !.line = "open", !.gate = "BATTERY"]
    <3>1. s \in RigRecords
      BY <1>0, <2>3 DEF RigRecords
    <3>2. /\ s.gate = "BATTERY" /\ s.line = "open" /\ s.tof = r.tof /\ s.move = r.move
          /\ s.interrupted = r.interrupted /\ s.lost = r.lost /\ s.beak = r.beak /\ s.head = r.head
      BY <1>0, <2>3 DEF RigRecords
    <3> QED BY <2>2, <3>1, <3>2 DEF RigGates
  <2>4. CASE s = [r EXCEPT !.gate = "ENDED", !.verdict = "FAILED"]
    <3>1. s \in RigRecords
      BY <1>0, <2>4, ZenonT(30) DEF RigRecords
    <3>2. /\ s.gate = "ENDED" /\ s.line = r.line /\ s.tof = r.tof /\ s.sent = r.sent
          /\ s.verdict = "FAILED" /\ s.beak = r.beak /\ s.head = r.head
      BY <1>0, <2>4 DEF RigRecords
    <3> QED BY <2>2, <3>1, <3>2 DEF RigGates
  <2> QED BY <1>1, <2>3, <2>4 DEF Checks, Connect
<1>2. CASE r.gate \in {"BATTERY", "SAFETY"}
  <2>1. PICK passed \in BOOLEAN, gate \in {"SAFETY", "TOF"} :
          s = [r EXCEPT !.gate = gate, !.all_passed = passed]
    <3>1. /\ (r.all_passed /\ "low" \notin r.telemetry) \in BOOLEAN
          /\ (r.all_passed /\ "fallen" \notin r.telemetry) \in BOOLEAN
      BY <1>0 DEF RigRecords
    <3> QED BY <1>2, <3>1 DEF Checks, CheckBattery, CheckSafety
  <2>2. s \in RigRecords
    BY <1>0, <2>1 DEF RigRecords
  <2>3. /\ s.gate \in {"SAFETY", "TOF"} /\ s.line = r.line /\ s.interrupted = r.interrupted
        /\ s.move = r.move /\ s.lost = r.lost /\ s.beak = r.beak /\ s.head = r.head
        /\ s.tof = r.tof
    BY <1>0, <2>1 DEF RigRecords
  <2> QED BY <1>2, <2>2, <2>3 DEF RigGates
<1>3. CASE r.gate \in {"TOF", "DEPTH"}
  <2>1. PICK tof \in {r.tof, "open", "closed"}, gate \in {"DEPTH", "ACTUATE"} :
          /\ s = [r EXCEPT !.tof = tof, !.gate = gate]
          /\ tof = "open" => gate = "DEPTH" \/ (r.tof = "open" /\ r.gate = "TOF")
    <3>1. r.gate = "TOF" => s = CheckTof(r, TRUE) \/ s = CheckTof(r, FALSE)
      BY DEF Checks
    <3>2. [r EXCEPT !.gate = "ACTUATE"] = [r EXCEPT !.tof = r.tof, !.gate = "ACTUATE"]
      BY <1>0 DEF RigRecords
    <3> QED BY <1>3, <3>1, <3>2 DEF Checks, CheckTof, CloseTof
  <2>2. s \in RigRecords
    BY <1>0, <2>1 DEF RigRecords
  <2>3. /\ s.gate \in {"DEPTH", "ACTUATE"} /\ s.line = r.line /\ s.interrupted = r.interrupted
        /\ s.move = r.move /\ s.lost = r.lost /\ s.beak = r.beak /\ s.head = r.head
        /\ s.tof = tof /\ s.gate = gate
    BY <1>0, <2>1 DEF RigRecords
  <2> QED BY <1>3, <2>1, <2>2, <2>3 DEF RigGates
<1>4. CASE r.gate = "ACTUATE"
  <2> DEFINE sent == Send(r, Movements[r.move])
  <2>0. r.move \in 1 .. 6 /\ r.line = "open" /\ ~r.interrupted
    BY <1>0, <1>4 DEF RigGates, RigRecords
  <2>a. \/ r.move = 1 /\ Movements[r.move] = "open"
        \/ r.move = 2 /\ Movements[r.move] = "shut"
        \/ r.move = 3 /\ Movements[r.move] = "tilt"
        \/ r.move = 4 /\ Movements[r.move] = "level"
        \/ r.move = 5 /\ Movements[r.move] = "quack"
        \/ r.move = 6 /\ Movements[r.move] = "stop"
    BY <2>0, MovementsAre
  <2>1. /\ sent \in RigRecords /\ sent.gate = r.gate /\ sent.line = r.line
        /\ sent.interrupted = r.interrupted /\ sent.move = r.move
        /\ sent.lost = r.lost /\ sent.tof = r.tof
    BY <1>0, <2>a, SendIs
  <2>2. ~r.lost => /\ sent.beak = "open" => r.move = 1 \/ (r.move # 2 /\ r.beak = "open")
                   /\ sent.head = "tilt" => r.move = 3 \/ (r.move # 4 /\ r.head = "tilt")
    BY <1>0, <2>0, <2>a, SendIs
  <2> HIDE DEF sent
  <2>3. \/ r.move < 6 /\ s = [sent EXCEPT !.move = r.move + 1]
        \/ r.move = 6 /\ s = [sent EXCEPT !.gate = "FINALLY"]
        \/ r.move = 1 /\ s = [r EXCEPT !.gate = "FINALLY"]
    <3>1. s = Actuate(r) \/ (r.move = 1 /\ s = SkipActuation(r))
      BY <1>4 DEF Checks
    <3>2. Actuate(r) = IF r.move < 6 THEN [sent EXCEPT !.move = @ + 1]
                       ELSE [sent EXCEPT !.gate = "FINALLY"]
      BY MovementsAre DEF Actuate, sent
    <3>3. [sent EXCEPT !.move = @ + 1] = [sent EXCEPT !.move = r.move + 1]
      BY <2>1
    <3> QED BY <2>0, <3>1, <3>2, <3>3 DEF SkipActuation
  <2>b. r.tof # "open" /\ (~r.lost => (r.beak = "open" => r.move = 2) /\ (r.head = "tilt" => r.move = 4))
    BY <1>4, <2>0 DEF RigGates
  <2>4. CASE r.move < 6 /\ s = [sent EXCEPT !.move = r.move + 1]
    <3>1. /\ s.gate = "ACTUATE" /\ s.line = "open" /\ ~s.interrupted /\ s.move = r.move + 1
          /\ s.lost = r.lost /\ s.tof = r.tof /\ s.beak = sent.beak /\ s.head = sent.head
      BY <1>4, <2>0, <2>1, <2>4 DEF RigRecords
    <3>2. s \in RigRecords
      BY <2>0, <2>1, <2>4 DEF RigRecords
    <3>4. ~s.lost => (s.beak = "open" => s.move = 2) /\ (s.head = "tilt" => s.move = 4)
      BY <2>0, <2>2, <2>b, <3>1
    <3> QED BY <2>b, <3>1, <3>2, <3>4 DEF RigGates
  <2>5. CASE r.move = 6 /\ s = [sent EXCEPT !.gate = "FINALLY"]
    <3>1. /\ s.gate = "FINALLY" /\ s.line = "open"
          /\ s.lost = r.lost /\ s.tof = r.tof /\ s.beak = sent.beak /\ s.head = sent.head
      BY <2>0, <2>1, <2>5 DEF RigRecords
    <3>2. s \in RigRecords
      BY <2>1, <2>5 DEF RigRecords
    <3> QED BY <2>2, <2>b, <2>5, <3>1, <3>2 DEF RigGates
  <2>6. CASE r.move = 1 /\ s = [r EXCEPT !.gate = "FINALLY"]
    <3>1. /\ s.gate = "FINALLY" /\ s.line = "open" /\ s.interrupted = r.interrupted
          /\ s.lost = r.lost /\ s.tof = r.tof /\ s.beak = r.beak /\ s.head = r.head
      BY <1>0, <2>0, <2>6 DEF RigRecords
    <3>2. s \in RigRecords
      BY <1>0, <2>6 DEF RigRecords
    <3> QED BY <2>b, <2>6, <3>1, <3>2 DEF RigGates
  <2> QED BY <2>3, <2>4, <2>5, <2>6
<1>5. CASE r.gate = "FINALLY"
  <2> DEFINE sent == Send(r, "stop")
             verdict == IF r.interrupted THEN "RAISED"
                        ELSE IF r.all_passed THEN "PASSED" ELSE "FAILED"
  <2>1. /\ sent \in RigRecords /\ sent.interrupted = r.interrupted /\ sent.lost = r.lost
        /\ sent.tof = r.tof /\ r.line = "open"
        /\ (~r.lost => sent.sent = "stop" /\ sent.beak = r.beak /\ sent.head = r.head)
    BY <1>0, <1>5, SendIs DEF RigGates
  <2>2. s = [sent EXCEPT !.line = "closed", !.gate = "ENDED", !.verdict = verdict]
    BY <1>5 DEF Checks, Finally
  <2>3. verdict \in {"RAISED", "PASSED", "FAILED"}
    OBVIOUS
  <2> HIDE DEF sent, verdict
  <2>4. s \in RigRecords
    BY <2>1, <2>2, <2>3, ZenonT(60) DEF RigRecords
  <2>5. /\ s.gate = "ENDED" /\ s.line = "closed" /\ s.interrupted = sent.interrupted
        /\ s.lost = sent.lost /\ s.tof = sent.tof /\ s.beak = sent.beak /\ s.head = sent.head
        /\ s.sent = sent.sent
    BY <2>1, <2>2 DEF RigRecords
  <2>6. ~r.interrupted => r.tof # "open" /\ (~r.lost => r.beak # "open" /\ r.head # "tilt")
    BY <1>5 DEF RigGates
  <2>7. r.tof \in {"closed", "open"} /\ r.beak \in {"shut", "open"} /\ r.head \in {"level", "tilt"}
    BY <1>0 DEF RigRecords
  <2> QED BY <2>1, <2>4, <2>5, <2>6, <2>7 DEF RigGates
<1>6. CASE r.gate = "ENDED"
  BY <1>6 DEF Checks
<1> QED BY <1>0, <1>1, <1>2, <1>3, <1>4, <1>5, <1>6 DEF RigRecords

\* A step of any program keeps the gates of the pre-flight check.
LEMMA RigStepInv == RigInv /\ [Next]_vars => RigInv'
<1> SUFFICES ASSUME RigInv, [Next]_vars, program = "rig"
             PROVE  RigGates(loop') /\ (running' <=> loop'.gate # "ENDED")
  BY Movers DEF RigInv
<1>0. RigGates(loop) /\ (running <=> loop.gate # "ENDED")
  BY DEF RigInv
<1>1. CASE RigStep
  BY <1>0, <1>1, CheckGates DEF RigStep
<1>2. CASE RigInterrupted
  BY <1>0, <1>2 DEF RigInterrupted, InTry, Interrupt, RigGates, RigRecords
<1>3. CASE RigHears
  BY <1>0, <1>3, ZenonT(60) DEF RigHears, RigGates, RigRecords, NewRig
<1>4. CASE UNCHANGED vars
  BY <1>0, <1>4 DEF vars
<1> QED
  BY <1>1, <1>2, <1>3, <1>4
     DEF Next, BrainNext, SimulationNext, TelemetryFrame, ImuVariance, DepthFrame, TrackFrame,
         SetTarget, ServoTick, DemoTick, RoutineTick, Preempt, PlannerTick, PlannerAbort,
         MuJoCoTick, EvalTick, EnvelopeTick, VideoTick, CollectRollouts, RolloutStep, Update,
         Command

\* However the pre-flight check ends, it has closed its connection and told
\* the robot to stop, or it has lost it (run_checks, the finally block).
THEOREM RigEndsStill == Spec => []RigCheckEndsStill
<1>1. Init => RigInv
  BY NewRigGates DEF Init, RigInv, NewLoop, NewRig
<1>2. RigInv => RigCheckEndsStill
  BY DEF RigInv, RigGates, RigCheckEndsStill
<1> QED BY <1>1, <1>2, RigStepInv, PTL DEF Spec

-----------------------------------------------------------------------------
(* Vision *)

\* Some of a set of positions is the first and some the last.
LEMMA EndsExist ==
  ASSUME NEW n \in Nat, NEW S \in SUBSET (1 .. n), S # {}
  PROVE  /\ \E i \in S : \A j \in S : i <= j
         /\ \E i \in S : \A j \in S : j <= i
<1>1. ASSUME NEW T \in SUBSET Nat, T # {} PROVE \E i \in T : \A j \in T : i <= j
  <2>1. \E i \in T : \A j \in T : ~(<<j, i>> \in OpToRel(<, Nat))
    BY <1>1, NatLessThanWellFounded, WFMin
  <2>2. PICK i \in T : \A j \in T : ~(<<j, i>> \in OpToRel(<, Nat))
    BY <2>1
  <2>3. ASSUME NEW j \in T PROVE i <= j
    <3>1. i \in Nat /\ j \in Nat /\ <<j, i>> \in Nat \X Nat
      OBVIOUS
    <3>2. ~(j < i)
      BY <2>2, <3>1 DEF OpToRel
    <3> QED BY <3>1, <3>2
  <2> QED BY <2>2, <2>3
<1>2. S \in SUBSET Nat
  OBVIOUS
<1> DEFINE T == {n - i : i \in S}
<1>3. T \in SUBSET Nat /\ T # {}
  <2>1. \A i \in S : n - i \in Nat
    OBVIOUS
  <2>2. \E i \in S : n - i \in T
    OBVIOUS
  <2> QED BY <2>1, <2>2
<1>4. PICK k \in T : \A j \in T : k <= j
  <2> HIDE DEF T
  <2> QED BY <1>1, <1>3
<1>5. PICK i \in S : k = n - i
  BY <1>4
<1>6. \A j \in S : j <= i
  <2>1. ASSUME NEW j \in S PROVE j <= i
    <3>1. k <= n - j
      BY <1>4
    <3> QED BY <1>5, <3>1
  <2> QED BY <2>1
<1> QED BY <1>1, <1>2, <1>6

\* A frame is a sequence of boxes with ids.
LEMMA FrameType ==
  ASSUME NEW frame \in CameraFrames
  PROVE  \E n \in Nat :
           frame \in [1 .. n -> [box : [class : Classes, sight : Sights], id : TrackIds]]
<1>1. PICK scene \in [Classes -> Sights \union {Unseen}] :
        \E boxes \in DetectObjects(scene) : frame \in TrackedFrames(boxes)
  BY DEF CameraFrames
<1>2. PICK boxes \in DetectObjects(scene) : frame \in TrackedFrames(boxes)
  BY <1>1
<1> DEFINE visible == {c \in Classes : scene[c] # Unseen}
           n == Cardinality(visible)
<1>3. n \in Nat
  <2>1. IsFiniteSet(visible)
    BY TrackerAssumption, FS_Subset
  <2> QED BY <2>1, FS_CardinalityType
<1>4. \A c \in visible : scene[c] \in Sights
  OBVIOUS
<1>5. boxes \in [1 .. n -> [class : Classes, sight : Sights]]
  <2>1. PICK order \in [1 .. n -> visible] :
          boxes = [i \in DOMAIN order |-> [class |-> order[i], sight |-> scene[order[i]]]]
    BY <1>2 DEF DetectObjects
  <2>2. \A i \in 1 .. n : order[i] \in visible /\ order[i] \in Classes
    OBVIOUS
  <2> HIDE DEF visible, n
  <2> QED BY <1>4, <2>1, <2>2
<1> HIDE DEF visible, n
<1>6. PICK ids \in [DOMAIN boxes -> TrackIds] :
        frame = [i \in DOMAIN boxes |-> [box |-> boxes[i], id |-> ids[i]]]
  BY <1>2 DEF TrackedFrames
<1>7. frame \in [1 .. n -> [box : [class : Classes, sight : Sights], id : TrackIds]]
  BY <1>5, <1>6
<1> QED BY <1>3, <1>7

\* The tracks of a tracker
TrackRecords == [class : Classes, sight : Sights, age : 1 .. MaxAge + 1]
TrackTables == [TrackIds -> TrackRecords \union {NoTrack}]

\* The value for no track is neither a track nor an id.
LEMMA NoTrackIsNone == NoTrack \notin TrackRecords /\ NoTrack \notin TrackIds /\ MaxAge \in Nat
BY TrackerAssumption DEF TrackRecords, Sights

\* Matching a frame drops no track, changes the class of none, and makes one
\* for every box.
LEMMA MatchIs ==
  ASSUME NEW tracks \in TrackTables, NEW frame \in CameraFrames
  PROVE  /\ Match(tracks, frame) \in TrackTables
         /\ \A id \in TrackIds :
              /\ tracks[id] # NoTrack => /\ Match(tracks, frame)[id] # NoTrack
                                         /\ Match(tracks, frame)[id].class = tracks[id].class
              /\ id \in {frame[i].id : i \in DOMAIN frame} => Match(tracks, frame)[id] # NoTrack
<1>0. PICK n \in Nat : frame \in [1 .. n -> [box : [class : Classes, sight : Sights], id : TrackIds]]
  BY FrameType
<1>1. SUFFICES ASSUME NEW id \in TrackIds
      PROVE  /\ Match(tracks, frame)[id] \in TrackRecords \union {NoTrack}
             /\ tracks[id] # NoTrack => /\ Match(tracks, frame)[id] # NoTrack
                                        /\ Match(tracks, frame)[id].class = tracks[id].class
             /\ id \in {frame[i].id : i \in DOMAIN frame} => Match(tracks, frame)[id] # NoTrack
  BY DEF Match, TrackTables
<1> DEFINE boxes == {i \in DOMAIN frame : frame[i].id = id}
           first == CHOOSE i \in boxes : \A j \in boxes : i <= j
           last  == CHOOSE i \in boxes : \A j \in boxes : j <= i
           old   == IF tracks[id] # NoTrack THEN tracks[id]
                    ELSE [class |-> frame[first].box.class, sight |-> 1, age |-> 0]
           age   == old.age + Cardinality(boxes)
           new   == [old EXCEPT !.sight = frame[last].box.sight,
                                !.age = IF age > MaxAge THEN MaxAge + 1 ELSE age]
<1>2. Match(tracks, frame)[id] = IF boxes = {} THEN tracks[id] ELSE new
  BY DEF Match
<1>3. boxes \in SUBSET (1 .. n)
  BY <1>0
<1>4. tracks[id] \in TrackRecords \union {NoTrack}
  BY DEF TrackTables
<1>5. CASE boxes = {}
  BY <1>2, <1>4, <1>5
<1>6. CASE boxes # {}
  <2>1. first \in boxes /\ last \in boxes
    <3> HIDE DEF boxes
    <3> QED BY <1>3, <1>6, EndsExist
  <2>2. Cardinality(boxes) \in Nat /\ Cardinality(boxes) > 0
    <3>1. IsFiniteSet(boxes)
      <4>1. IsFiniteSet(1 .. n)
        BY FS_Interval
      <4> HIDE DEF boxes
      <4> QED BY <1>3, <4>1, FS_Subset
    <3>2. Cardinality(boxes) \in Nat /\ Cardinality(boxes) # 0
      BY <1>6, <3>1, FS_CardinalityType, FS_EmptySet
    <3> HIDE DEF boxes
    <3> QED BY <3>2
  <2> HIDE DEF boxes, first, last
  <2>3. frame[first].box.class \in Classes /\ frame[last].box.sight \in Sights
    <3>1. first \in 1 .. n /\ last \in 1 .. n
      BY <1>3, <2>1
    <3> QED BY <1>0, <3>1
  <2>4. old \in [class : Classes, sight : Sights, age : 0 .. MaxAge + 1]
    BY <1>4, <2>3, NoTrackIsNone DEF TrackRecords, Sights
  <2>5. old.class = IF tracks[id] # NoTrack THEN tracks[id].class ELSE frame[first].box.class
    OBVIOUS
  <2> HIDE DEF old
  <2>6. (IF age > MaxAge THEN MaxAge + 1 ELSE age) \in 1 .. MaxAge + 1
    BY <2>2, <2>4, NoTrackIsNone
  <2> HIDE DEF age
  <2>7. new \in TrackRecords /\ new.class = old.class
    BY <2>3, <2>4, <2>6 DEF TrackRecords
  <2> HIDE DEF new
  <2> QED BY <1>2, <1>6, <2>5, <2>7, NoTrackIsNone
<1> QED BY <1>5, <1>6

\* Pruning forgets tracks that are too old and changes no other.
LEMMA PruneIs ==
  ASSUME NEW tracks \in TrackTables, NEW now
  PROVE  /\ Prune(tracks, now) \in TrackTables
         /\ \A id \in TrackIds :
              /\ Prune(tracks, now)[id] # NoTrack => Prune(tracks, now)[id] = tracks[id]
              /\ id \in now => Prune(tracks, now)[id] = tracks[id]
              /\ (Prune(tracks, now)[id] # NoTrack /\ id \notin now) =>
                   Prune(tracks, now)[id].age <= MaxAge
BY NoTrackIsNone DEF Prune, TrackTables, TrackRecords

\* What the tracker remembers between two frames
VisionInv ==
  /\ vision \in Trackers
  /\ vision.target # NoTrack => /\ vision.target \in Tracks(vision)
                               /\ vision.tracks[vision.target].class = vision.class
  /\ \A id \in Tracks(vision) \ vision.now : vision.tracks[id].age <= MaxAge

\* The fields of a tracker.
LEMMA TrackersAre ==
  Trackers = [tracks : TrackTables, target : TrackIds \union {NoTrack}, class : Classes,
              locked : BOOLEAN, sight : Sights, now : SUBSET TrackIds]
BY DEF Trackers, TrackTables, TrackRecords

\* A frame of the camera
LEMMA FrameKeeps ==
  ASSUME VisionInv, vision' \in Frames
  PROVE  /\ VisionInv'
         /\ (vision.target \in Tracks(vision') /\ vision'.class = vision.class)
              => vision'.target = vision.target
<1>1. PICK frame \in CameraFrames : vision' \in Updates(vision, frame)
  BY DEF Frames
<1> DEFINE now     == {frame[i].id : i \in DOMAIN frame}
           matched == Match(vision.tracks, frame)
           tracks  == Prune(matched, now)
           kept    == [vision EXCEPT !.tracks = tracks, !.now = now]
           held    == IF vision.target \in Tracks(kept) THEN vision.target ELSE NoTrack
           freed   == Refresh(vision, frame)
<1>2. now \in SUBSET TrackIds
  <2>1. PICK n \in Nat : frame \in [1 .. n -> [box : [class : Classes, sight : Sights], id : TrackIds]]
    BY FrameType
  <2> QED BY <2>1
<1>3. vision.tracks \in TrackTables /\ vision.class \in Classes
      /\ vision.target \in TrackIds \union {NoTrack}
  BY TrackersAre DEF VisionInv
<1>4. /\ matched \in TrackTables
      /\ \A id \in TrackIds :
           /\ vision.tracks[id] # NoTrack => /\ matched[id] # NoTrack
                                            /\ matched[id].class = vision.tracks[id].class
           /\ id \in now => matched[id] # NoTrack
  BY <1>3, MatchIs
<1>5. PICK target \in Lock(freed) :
        vision' = [freed EXCEPT !.target = target, !.locked = target # NoTrack,
                                !.sight = IF target = NoTrack THEN 1 ELSE freed.tracks[target].sight]
  <2> HIDE DEF freed
  <2> QED BY <1>1 DEF Updates, freed
<1>f. freed = [kept EXCEPT !.target = held]
  BY <1>3 DEF VisionInv, Trackers, Refresh
<1> HIDE DEF now, matched, freed
<1>6. /\ tracks \in TrackTables
      /\ \A id \in TrackIds :
           /\ tracks[id] # NoTrack => tracks[id] = matched[id]
           /\ (tracks[id] # NoTrack /\ id \notin now) => tracks[id].age <= MaxAge
  BY <1>4, PruneIs
<1> HIDE DEF tracks
<1>7. /\ kept \in Trackers /\ kept.tracks = tracks /\ kept.class = vision.class
      /\ kept.now = now
  BY <1>2, <1>6, TrackersAre DEF VisionInv
<1>8. Tracks(kept) = {id \in TrackIds : tracks[id] # NoTrack}
  BY <1>7 DEF Tracks
<1>9. held \in TrackIds \union {NoTrack}
  BY <1>3
<1> HIDE DEF kept, held
<1>10. /\ freed \in Trackers /\ freed.tracks = tracks /\ freed.class = vision.class
       /\ freed.now = now /\ freed.target = held
  BY <1>f, <1>7, <1>9, TrackersAre
<1>11. Tracks(freed) = Tracks(kept)
  BY <1>7, <1>10 DEF Tracks
<1>12. /\ target \in TrackIds \union {NoTrack}
       /\ target # NoTrack => /\ target \in Tracks(freed)
                              /\ tracks[target].class = vision.class
       /\ held # NoTrack => target = held
  <2>1. Choices(freed) \subseteq {id \in Tracks(freed) : freed.tracks[id].class = freed.class}
    BY DEF Choices
  <2>2. held # NoTrack => held = vision.target /\ held \in Tracks(kept)
    BY DEF held
  <2>3. held # NoTrack => tracks[held].class = vision.class
    BY <1>3, <1>4, <1>6, <1>8, <2>2 DEF VisionInv, Tracks
  <2>4. Tracks(freed) \subseteq TrackIds
    BY DEF Tracks
  <2>5. CASE held # NoTrack
    <3>1. Lock(freed) = {held}
      BY <1>10, <1>11, <2>2, <2>5 DEF Lock
    <3> QED BY <1>9, <1>11, <2>2, <2>3, <2>5, <3>1
  <2>6. CASE held = NoTrack
    <3>1. target \in Choices(freed) \union {NoTrack}
      BY <1>10, <2>6 DEF Lock
    <3> QED BY <1>10, <2>1, <2>4, <2>6, <3>1
  <2> QED BY <2>5, <2>6
<1>13. (IF target = NoTrack THEN 1 ELSE freed.tracks[target].sight) \in Sights
  BY <1>6, <1>10, <1>11, <1>12, <1>8 DEF TrackTables, TrackRecords, Sights
<1>14. /\ vision' \in Trackers /\ vision'.tracks = tracks /\ vision'.class = vision.class
       /\ vision'.now = now /\ vision'.target = target
  <2>1. \A b \in BOOLEAN, s \in Sights :
          /\ [freed EXCEPT !.target = target, !.locked = b, !.sight = s] \in Trackers
          /\ [freed EXCEPT !.target = target, !.locked = b, !.sight = s].tracks = tracks
          /\ [freed EXCEPT !.target = target, !.locked = b, !.sight = s].class = vision.class
          /\ [freed EXCEPT !.target = target, !.locked = b, !.sight = s].now = now
          /\ [freed EXCEPT !.target = target, !.locked = b, !.sight = s].target = target
    BY <1>10, <1>12, TrackersAre
  <2>2. PICK b \in BOOLEAN : b = (target # NoTrack)
    OBVIOUS
  <2>3. PICK s \in Sights : s = IF target = NoTrack THEN 1 ELSE freed.tracks[target].sight
    BY <1>13
  <2>4. vision' = [freed EXCEPT !.target = target, !.locked = b, !.sight = s]
    BY <1>5, <2>2, <2>3
  <2> QED BY <2>1, <2>4
<1>15. Tracks(vision') = Tracks(freed)
  BY <1>10, <1>14 DEF Tracks
<1>16. \A id \in Tracks(vision') \ vision'.now : vision'.tracks[id].age <= MaxAge
  BY <1>6, <1>8, <1>11, <1>14, <1>15
<1>17. VisionInv'
  BY <1>12, <1>14, <1>15, <1>16 DEF VisionInv
<1>18. ASSUME vision.target \in Tracks(vision') PROVE target = vision.target
  <2>1. held = vision.target /\ held # NoTrack
    BY <1>11, <1>15, <1>18, NoTrackIsNone DEF held, Tracks
  <2> QED BY <1>12, <2>1
<1> QED BY <1>14, <1>17, <1>18

\* A step keeps the tracker sound, and the target of a class it goes on
\* seeking.
LEMMA VisionStep ==
  ASSUME VisionInv, [Next]_vars
  PROVE  /\ VisionInv'
         /\ \/ vision' = vision
            \/ (vision.target \in Tracks(vision') /\ vision'.class = vision.class)
                 => vision'.target = vision.target
<1>1. CASE vision' = vision
  BY <1>1 DEF VisionInv, Tracks
<1>2. CASE vision' \in Frames
  BY <1>2, FrameKeeps
<1>3. CASE SetTarget /\ vision' # vision
  <2>1. PICK c \in Classes : c # vision.class /\ vision' = [vision EXCEPT !.class = c, !.target = NoTrack]
    BY <1>3 DEF SetTarget, SetTargetClass
  <2>2. /\ vision' \in Trackers /\ vision'.tracks = vision.tracks /\ vision'.class = c
        /\ vision'.now = vision.now /\ vision'.target = NoTrack
    BY <2>1 DEF VisionInv, Trackers
  <2> QED BY <2>1, <2>2 DEF VisionInv, Tracks
<1> QED BY <1>1, <1>2, <1>3, Movers DEF TrackFrame, ServoTick

\* A new tracker is sound.
LEMMA VisionInit == Init => VisionInv
<1> SUFFICES ASSUME Init PROVE VisionInv
  OBVIOUS
<1>1. vision = NewTracker
  BY DEF Init
<1>2. vision \in Trackers
  BY <1>1, TrackerAssumption DEF NewTracker, Trackers, Sights
<1> QED BY <1>1, <1>2 DEF NewTracker, VisionInv, Tracks

\* The tracker's target is a track it still has, and of the class it was told.
THEOREM TargetsAreOfClass == Spec => []TargetIsOfClass
<1>1. VisionInv => TargetIsOfClass
  BY DEF VisionInv, TargetIsOfClass
<1>2. VisionInv /\ [Next]_vars => VisionInv'
  BY VisionStep
<1> QED BY <1>1, <1>2, VisionInit, PTL DEF Spec

\* A target that is not in the frame is a young one.
THEOREM UnseenTargetsAreYoung == Spec => []UnseenTargetIsYoung
<1>1. VisionInv => UnseenTargetIsYoung
  BY DEF VisionInv, UnseenTargetIsYoung
<1>2. VisionInv /\ [Next]_vars => VisionInv'
  BY VisionStep
<1> QED BY <1>1, <1>2, VisionInit, PTL DEF Spec

\* No other track takes the lock from one that lives.
THEOREM LocksAreKept == Spec => LockIsKept
<1>1. VisionInv /\ [Next]_vars => VisionInv'
  BY VisionStep
<1>2. VisionInv /\ [Next]_vars =>
        [(vision.target \in Tracks(vision') /\ vision'.class = vision.class)
            => vision'.target = vision.target]_vision
  BY VisionStep
<1> QED BY <1>1, <1>2, VisionInit, PTL DEF Spec, LockIsKept
=============================================================================
