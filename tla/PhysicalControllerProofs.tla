---------------------- MODULE PhysicalControllerProofs ----------------------
(* Theorems about PhysicalController: every interleaving of the loop, the  *)
(* console, the signal handler, telemetry and the loss of the connection.  *)
EXTENDS PhysicalController, TLAPS

\* Only the loop asks for motion, and only while the call is on its way.
MotionInv ==
  /\ \A t \in Threads : call[t] \in Motion => t = "loop"
  /\ call["loop"] \in Motion => pc["loop"] \in {"send", "sending"}

\* A reason that is gone has no strays; after the one stray of a reason that
\* persists the loop has no motion on its way, and it has not passed the
\* guards of a tick (which read the world, and not the intent).
StrayInv ==
  \A r \in Reasons :
    /\ ~Active(r) => strays[r] = 0
    /\ strays[r] <= 1
    /\ strays[r] = 1 => call["loop"] \notin Motion
    /\ strays[r] = 1 /\ r # "STOP" => pc["loop"] # "intent"

IInv == TypeOK /\ MotionInv /\ StrayInv
-----------------------------------------------------------------------------
\* A STOP never makes the loop move, whatever it has seen.
LEMMA StopDecidesStop == \A obstacle \in BOOLEAN : Decide("STOP", obstacle) = {"stop"}
BY DEF Decide

\* The loop's decisions are calls it may make.
LEMMA DecideType ==
  ASSUME NEW i \in Intents, NEW obstacle \in BOOLEAN
  PROVE  Decide(i, obstacle) \subseteq Calls \ {"quit"}
BY DEF Decide, Intents, Calls

\* The parser returns an intent the system knows.
LEMMA ParseType ==
  ASSUME NEW words \in SUBSET (Intents \ {"WAIT"})
  PROVE  Parse(words) \in Intents
<1>1. CASE words = {}
  BY <1>1 DEF Parse, Intents
<1>2. CASE words # {}
  <2> DEFINE First(i) == Rules[i] \in words /\ \A j \in 1 .. i - 1 : Rules[j] \notin words
  <2>1. DOMAIN Rules = 1 .. 6 /\ \A i \in 1 .. 6 : Rules[i] \in Intents
    BY DEF Rules, Intents
  <2>2. \E i \in 1 .. 6 : Rules[i] \in words
    <3>1. PICK word \in words : word \in {"STOP", "FETCH", "FOLLOW", "SIT", "PATROL", "GO_TO"}
      BY <1>2 DEF Intents
    <3>2. \E i \in 1 .. 6 : Rules[i] = word
      BY <3>1 DEF Rules
    <3> QED BY <3>1, <3>2
  <2>3. \E i \in 1 .. 6 : First(i)
    <3>1. CASE Rules[1] \in words
      <4>1. First(1) BY <3>1
      <4> QED BY <4>1
    <3>2. CASE Rules[1] \notin words /\ Rules[2] \in words
      <4>1. First(2) BY <3>2
      <4> QED BY <4>1
    <3>3. CASE (\A j \in 1 .. 2 : Rules[j] \notin words) /\ Rules[3] \in words
      <4>1. First(3) BY <3>3
      <4> QED BY <4>1
    <3>4. CASE (\A j \in 1 .. 3 : Rules[j] \notin words) /\ Rules[4] \in words
      <4>1. First(4) BY <3>4
      <4> QED BY <4>1
    <3>5. CASE (\A j \in 1 .. 4 : Rules[j] \notin words) /\ Rules[5] \in words
      <4>1. First(5) BY <3>5
      <4> QED BY <4>1
    <3>6. CASE (\A j \in 1 .. 5 : Rules[j] \notin words) /\ Rules[6] \in words
      <4>1. First(6) BY <3>6
      <4> QED BY <4>1
    <3> QED BY <2>2, <3>1, <3>2, <3>3, <3>4, <3>5, <3>6
  <2> HIDE DEF First
  <2>4. (CHOOSE i \in 1 .. 6 : First(i)) \in 1 .. 6
    BY <2>3
  <2>5. Parse(words) = Rules[CHOOSE i \in 1 .. 6 : First(i)]
    BY <1>2, <2>1 DEF Parse, First
  <2> QED BY <2>1, <2>4, <2>5
<1> QED BY <1>1, <1>2
-----------------------------------------------------------------------------
(* The inductive invariant *)

LEMMA InitInv == Init => IInv
<1> SUFFICES ASSUME Init PROVE IInv
  OBVIOUS
<1>1. TypeOK
  <2>1. pc \in [Threads -> {"idle", "intent", "send", "sending", "reply", "close", "done"}]
    BY DEF Init
  <2>2. call \in [Threads -> Calls] /\ strays \in [Reasons -> 0 .. 2]
    BY DEF Init, Calls
  <2>3. intent \in Intents /\ world \in SUBSET Flags /\ sendLock \in Threads \union {"free"}
    BY DEF Init, Intents
  <2> QED BY <2>1, <2>2, <2>3 DEF Init, TypeOK
<1>2. MotionInv
  BY DEF Init, MotionInv, Motion, Threads
<1>3. StrayInv
  BY DEF Init, StrayInv
<1> QED BY <1>1, <1>2, <1>3 DEF IInv

\* Counting keeps the counters in their range.
LEMMA CountType ==
  ASSUME strays \in [Reasons -> 0 .. 2], NEW sent, CountStrays(sent)
  PROVE  strays' \in [Reasons -> 0 .. 2]
BY DEF CountStrays

LEMMA TypeStep == TypeOK /\ [Next]_vars => TypeOK'
<1> SUFFICES ASSUME TypeOK, [Next]_vars PROVE TypeOK'
  OBVIOUS
<1> USE DEF TypeOK, client, Goto, Return
<1>1. ASSUME NEW t \in Threads, Acquire(t) PROVE TypeOK'
  BY <1>1 DEF Acquire
<1>2. ASSUME NEW t \in Threads, Transmit(t) PROVE TypeOK'
  <2>1. velocity' \in {"still", "walk", "scan"}
    BY <1>2 DEF Transmit, Effect, Motion
  <2>2. strays' \in [Reasons -> 0 .. 2]
    BY <1>2, CountType DEF Transmit
  <2> QED BY <1>2, <2>1, <2>2 DEF Transmit, Calls
<1>3. ASSUME NEW t \in Threads, Reply(t) PROVE TypeOK'
  BY <1>3 DEF Reply, Calls
<1>4. ASSUME NEW t \in Threads, Close(t) PROVE TypeOK'
  BY <1>4 DEF Close
<1>5. CASE TickGuarded
  BY <1>5 DEF TickGuarded, Calls
<1>6. CASE Tick
  <2>1. seen' \in BOOLEAN
    BY <1>6 DEF Tick
  <2> QED BY <1>6, <2>1 DEF Tick
<1>7. CASE ReadIntent
  <2>1. PICK c \in Decide(intent, seen) :
          /\ call' = [call EXCEPT !["loop"] = c]
          /\ Goto("loop", IF c = "none" THEN "idle" ELSE "send")
    BY <1>7 DEF ReadIntent
  <2>2. c \in Calls
    BY DecideType
  <2> QED BY <1>7, <2>1, <2>2 DEF ReadIntent
<1>8. CASE LoopEnds
  BY <1>8 DEF LoopEnds
<1>9. ASSUME NEW words \in SUBSET (Intents \ {"WAIT"}), Command(words) PROVE TypeOK'
  <2>1. intent' \in Intents
    BY <1>9, ParseType DEF Command
  <2>2. strays' \in [Reasons -> 0 .. 2]
    BY <1>9, CountType DEF Command
  <2> QED BY <1>9, <2>1, <2>2 DEF Command, Calls
<1>10. CASE ExitCommand
  BY <1>10 DEF ExitCommand, Quit, Calls
<1>11. CASE Signal
  BY <1>11 DEF Signal, Quit, Calls
<1>12. ASSUME NEW f \in Flags, Telemetry(f) PROVE TypeOK'
  <2>1. strays' \in [Reasons -> 0 .. 2]
    BY <1>12, CountType DEF Telemetry
  <2> QED BY <1>12, <2>1 DEF Telemetry
<1>13. CASE ConnectionLost
  BY <1>13 DEF ConnectionLost
<1>14. CASE UNCHANGED vars
  BY <1>14 DEF vars
<1> QED
  BY <1>1, <1>2, <1>3, <1>4, <1>5, <1>6, <1>7, <1>8, <1>9, <1>10, <1>11, <1>12, <1>13, <1>14
     DEF Next, LoopStep, CallStep

LEMMA MotionStep == TypeOK /\ MotionInv /\ [Next]_vars => MotionInv'
<1> SUFFICES ASSUME TypeOK, MotionInv, [Next]_vars PROVE MotionInv'
  OBVIOUS
<1> USE DEF TypeOK, MotionInv, client, Goto, Return, Motion, Threads
<1>1. ASSUME NEW t \in Threads, CallStep(t) PROVE MotionInv'
  <2>1. CASE Acquire(t)
    BY <2>1 DEF Acquire
  <2>2. CASE Transmit(t)
    BY <2>2 DEF Transmit
  <2>3. CASE Reply(t)
    BY <2>3 DEF Reply
  <2>4. CASE Close(t)
    BY <2>4 DEF Close
  <2> QED BY <1>1, <2>1, <2>2, <2>3, <2>4 DEF CallStep
<1>2. CASE LoopStep
  <2>1. CASE TickGuarded
    BY <2>1 DEF TickGuarded
  <2>2. CASE Tick
    BY <2>2 DEF Tick
  <2>3. CASE ReadIntent
    BY <2>3 DEF ReadIntent
  <2>4. CASE LoopEnds
    BY <2>4 DEF LoopEnds
  <2> QED BY <1>2, <2>1, <2>2, <2>3, <2>4 DEF LoopStep
<1>3. ASSUME NEW words \in SUBSET (Intents \ {"WAIT"}), Command(words) PROVE MotionInv'
  BY <1>3 DEF Command
<1>4. CASE ExitCommand \/ Signal
  BY <1>4 DEF ExitCommand, Signal, Quit
<1>5. ASSUME NEW f \in Flags, Telemetry(f) PROVE MotionInv'
  BY <1>5 DEF Telemetry
<1>6. CASE ConnectionLost
  BY <1>6 DEF ConnectionLost
<1>7. CASE UNCHANGED vars
  BY <1>7 DEF vars
<1> QED BY <1>1, <1>2, <1>3, <1>4, <1>5, <1>6, <1>7 DEF Next

\* A step that sends no motion leaves StrayInv as it was, if it does not bring
\* the loop past its guards nor give it a motion.
LEMMA NothingSent ==
  ASSUME TypeOK, StrayInv, CountStrays("none"),
         call'["loop"] \in Motion => call["loop"] \in Motion,
         pc'["loop"] = "intent" => pc["loop"] = "intent"
  PROVE  StrayInv'
BY DEF TypeOK, StrayInv, CountStrays, Motion

\* A step that changes no reason and no counter likewise.
LEMMA NothingCounted ==
  ASSUME StrayInv, UNCHANGED <<world, intent, strays>>,
         call'["loop"] \in Motion => call["loop"] \in Motion,
         pc'["loop"] = "intent" => pc["loop"] = "intent"
  PROVE  StrayInv'
BY DEF StrayInv, Active

LEMMA StrayStep == IInv /\ [Next]_vars => StrayInv'
<1> SUFFICES ASSUME IInv, [Next]_vars PROVE StrayInv'
  OBVIOUS
<1> USE DEF IInv, TypeOK, client, Goto, Return
<1>1. ASSUME NEW t \in Threads, CallStep(t) PROVE StrayInv'
  <2>1. CASE Acquire(t)
    BY <2>1, NothingCounted DEF Acquire
  <2>2. CASE Transmit(t)
    <3>1. CASE ~conn \/ call[t] \notin Motion
      <4>1. CountStrays("none")
        BY <3>1, <2>2 DEF Transmit, CountStrays, Motion
      <4> QED BY <4>1, <2>2, NothingSent DEF Transmit, Motion, Threads
    <3>2. CASE conn /\ call[t] \in Motion
      <4>1. t = "loop" /\ call'["loop"] = "none" /\ pc'["loop"] = "idle"
        BY <3>2, <2>2 DEF Transmit, MotionInv, Threads
      <4>2. \A r \in Reasons : strays[r] = 0
        BY <3>2, <4>1 DEF StrayInv
      <4>3. CountStrays(call[t])
        BY <3>2, <2>2 DEF Transmit
      <4>4. \A r \in Reasons : (~Active(r)' => strays'[r] = 0) /\ strays'[r] <= 1
        BY <4>2, <4>3 DEF CountStrays
      <4> QED BY <4>1, <4>4 DEF StrayInv, Motion
    <3> QED BY <3>1, <3>2
  <2>3. CASE Reply(t)
    BY <2>3, NothingCounted DEF Reply, Motion
  <2>4. CASE Close(t)
    BY <2>4, NothingCounted DEF Close
  <2> QED BY <1>1, <2>1, <2>2, <2>3, <2>4 DEF CallStep
<1>2. CASE TickGuarded
  BY <1>2, NothingCounted DEF TickGuarded, Motion
<1>3. CASE Tick
  <2>1. \A r \in Reasons \ {"STOP"} : strays[r] = 0
    BY <1>3 DEF Tick, StrayInv, Active, Reasons, Intents
  <2> QED BY <1>3, <2>1 DEF Tick, StrayInv, Active
<1>4. CASE ReadIntent
  <2>1. \A r \in Reasons \ {"STOP"} : strays[r] = 0
    BY <1>4 DEF ReadIntent, StrayInv
  <2>2. strays["STOP"] = 1 => call'["loop"] = "stop"
    BY <1>4, StopDecidesStop DEF ReadIntent, StrayInv, Active, Flags, Reasons, Threads
  <2>3. pc'["loop"] # "intent"
    BY <1>4 DEF ReadIntent, Threads
  <2> QED BY <1>4, <2>1, <2>2, <2>3 DEF ReadIntent, StrayInv, Active, Motion
<1>5. CASE LoopEnds
  BY <1>5, NothingCounted DEF LoopEnds
<1>6. ASSUME NEW words \in SUBSET (Intents \ {"WAIT"}), Command(words) PROVE StrayInv'
  <2>1. CountStrays("none")
    BY <1>6 DEF Command
  <2>2. call'["loop"] = call["loop"] /\ pc'["loop"] = pc["loop"]
    BY <1>6 DEF Command, Threads
  <2> QED BY <2>1, <2>2, NothingSent
<1>7. CASE ExitCommand \/ Signal
  BY <1>7, NothingCounted DEF ExitCommand, Signal, Quit, Threads, Motion
<1>8. ASSUME NEW f \in Flags, Telemetry(f) PROVE StrayInv'
  BY <1>8, NothingSent DEF Telemetry
<1>9. CASE ConnectionLost
  BY <1>9, NothingCounted DEF ConnectionLost
<1>10. CASE UNCHANGED vars
  BY <1>10, NothingCounted DEF vars
<1> QED
  BY <1>1, <1>2, <1>3, <1>4, <1>5, <1>6, <1>7, <1>8, <1>9, <1>10 DEF Next, LoopStep
-----------------------------------------------------------------------------
(* Theorems *)

LEMMA Invariance == Spec => []IInv
<1>1. IInv /\ [Next]_vars => IInv'
  BY TypeStep, MotionStep, StrayStep DEF IInv
<1> QED BY InitInv, <1>1, PTL DEF Spec

\* Every variable of the controller, its client and robotd keeps its type.
THEOREM TypeCorrect == Spec => []TypeOK
<1>1. IInv => TypeOK
  BY DEF IInv
<1> QED BY <1>1, Invariance, PTL

\* After a fall, a brownout or a STOP at most one motion is still sent, the one
\* the loop had already decided on, in every interleaving of its threads
\* (run_physical_microduck.py 141-169).
THEOREM AtMostOneStray == Spec => []OneStrayMotion
<1>1. IInv => OneStrayMotion
  BY DEF IInv, StrayInv, OneStrayMotion
<1> QED BY <1>1, Invariance, PTL
=============================================================================
