------------------------------ MODULE RigCheck ------------------------------
(***************************************************************************)
(* The pre-flight check of the robot (run_checks of check_physical_duck),  *)
(* as one record of its local variables and of what its two connections    *)
(* and its commands did.  gate is where it is, move the movement it does   *)
(* next; telemetry holds the alarms of the last frame robotd sent, which   *)
(* its callback puts there at any moment; sent is the last command that    *)
(* reached the robot.  The exception that leaves the block is a Ctrl-C.    *)
(***************************************************************************)
EXTENDS Integers, Sequences

Alarms == {"low", "fallen"}     \* less than 6.5 V, and the fallen flag

Movements == <<"open", "shut", "tilt", "level", "quack", "stop">>

NewRig ==
  [gate |-> "CONNECT", move |-> 1, telemetry |-> {}, all_passed |-> TRUE,
   line |-> "closed", tof |-> "closed", lost |-> FALSE, interrupted |-> FALSE,
   sent |-> "nothing", beak |-> "shut", head |-> "level", verdict |-> "NONE"]

RigStates ==
  [gate : {"CONNECT", "BATTERY", "SAFETY", "TOF", "DEPTH", "ACTUATE", "FINALLY", "ENDED"},
   move : 1 .. Len(Movements), telemetry : SUBSET Alarms, all_passed : BOOLEAN,
   line : {"closed", "open"}, tof : {"closed", "open"}, lost : BOOLEAN,
   interrupted : BOOLEAN, sent : {"nothing"} \union {Movements[i] : i \in DOMAIN Movements},
   beak : {"shut", "open"}, head : {"level", "tilt"},
   verdict : {"NONE", "PASSED", "FAILED", "RAISED"}]
-----------------------------------------------------------------------------
\* A failure to send is returned by the client and ignored by the check.
Send(r, command) ==
  IF r.lost \/ r.line = "closed" THEN r
  ELSE [r EXCEPT !.sent = command,
                 !.beak = IF command \in {"open", "shut"} THEN command ELSE @,
                 !.head = IF command \in {"tilt", "level"} THEN command ELSE @]

\* The only gate outside the try block
Connect(r, answers) ==
  IF answers THEN [r EXCEPT !.line = "open", !.gate = "BATTERY"]
  ELSE [r EXCEPT !.gate = "ENDED", !.verdict = "FAILED"]

\* Without a frame there is no alarm.
CheckBattery(r) ==
  [r EXCEPT !.gate = "SAFETY", !.all_passed = @ /\ "low" \notin r.telemetry]

CheckSafety(r) ==
  [r EXCEPT !.gate = "TOF", !.all_passed = @ /\ "fallen" \notin r.telemetry]

CheckTof(r, answers) ==
  IF answers THEN [r EXCEPT !.tof = "open", !.gate = "DEPTH"] ELSE [r EXCEPT !.gate = "ACTUATE"]

CloseTof(r) == [r EXCEPT !.tof = "closed", !.gate = "ACTUATE"]

\* One movement, or none with --no-actuate
Actuate(r) ==
  LET s == Send(r, Movements[r.move])
  IN  IF r.move < Len(Movements) THEN [s EXCEPT !.move = @ + 1] ELSE [s EXCEPT !.gate = "FINALLY"]

SkipActuation(r) == [r EXCEPT !.gate = "FINALLY"]

Interrupt_Escapes(r) == [r EXCEPT !.interrupted = TRUE, !.gate = "ENDED", !.verdict = "RAISED"]

Interrupt(r) == [r EXCEPT !.interrupted = TRUE, !.gate = "FINALLY"]

\* stop() and close(), then the verdict unless an exception goes on
Finally(r) ==
  [Send(r, "stop") EXCEPT
     !.line = "closed", !.gate = "ENDED",
     !.verdict = IF r.interrupted THEN "RAISED" ELSE IF r.all_passed THEN "PASSED" ELSE "FAILED"]

\* What the check may do next
Checks(r) ==
  CASE r.gate = "CONNECT" -> {Connect(r, answers) : answers \in BOOLEAN}
    [] r.gate = "BATTERY" -> {CheckBattery(r)}
    [] r.gate = "SAFETY"  -> {CheckSafety(r)}
    [] r.gate = "TOF"     -> {CheckTof(r, answers) : answers \in BOOLEAN}
    [] r.gate = "DEPTH"   -> {CloseTof(r)}
    [] r.gate = "ACTUATE" -> {Actuate(r)} \union (IF r.move = 1 THEN {SkipActuation(r)} ELSE {})
    [] r.gate = "FINALLY" -> {Finally(r)}
    [] r.gate = "ENDED"   -> {}

InTry(r) == r.gate \notin {"CONNECT", "FINALLY", "ENDED"}
=============================================================================
