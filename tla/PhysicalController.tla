------------------------- MODULE PhysicalController -------------------------
(***************************************************************************)
(* The executive that drives the physical robot                            *)
(* (scripts/run_physical_microduck.py): a 20 Hz loop that turns the user's *)
(* intent into velocity commands, a console that changes the intent, a     *)
(* telemetry thread that updates the world state, and the signal handler,  *)
(* all sharing one JSON-RPC client (pollen_bridge.py).                     *)
(*                                                                         *)
(* Threads are interleaved at their shared accesses: self.lock, the        *)
(* client's send_lock and the wire.  robotd obeys the last velocity        *)
(* command it received.  The world state is three flags that change        *)
(* independently of each other, so reading them in one step loses no       *)
(* behaviour although to_dict() reads them one after the other.  The ball  *)
(* detector is not wired to this program: ball_visible stays false.        *)
(***************************************************************************)
EXTENDS Naturals, FiniteSets

VARIABLES
  interactive,            \* --interactive: console in the main thread, loop in
                          \* another one; otherwise the loop is the main thread
  running, intent, lock,  \* the controller: running, active_intent, self.lock
  world,                  \* WorldState: the flags that are TRUE
  sendLock, conn,         \* the client: send_lock's holder, the socket is open
  velocity,               \* robotd: the velocity it was last told
  pc, call, seen,         \* per thread: position, client call; the loop's view
                          \* of obstacle_close
  strays                  \* history, see below

vars == <<interactive, running, intent, lock, world, sendLock, conn, velocity,
          pc, call, seen, strays>>
client == <<interactive, sendLock, conn, velocity>>

Threads == {"loop", "repl", "handler"}
Main    == IF interactive THEN "repl" ELSE "loop"
Flags   == {"obstacle_close", "is_brownout_risk", "is_fallen"}
Reasons == {"is_brownout_risk", "is_fallen", "STOP"}
Intents == {"STOP", "FETCH", "FOLLOW", "SIT", "PATROL", "GO_TO", "WAIT"}
Calls   == {"none", "stop", "walk", "scan", "head", "skill", "sound", "quit"}

TypeOK ==
  /\ running \in BOOLEAN /\ intent \in Intents /\ lock \in BOOLEAN
  /\ world \in SUBSET Flags
  /\ sendLock \in Threads \union {"free"} /\ conn \in BOOLEAN
  /\ velocity \in {"still", "walk", "scan"}
  /\ pc \in [Threads -> {"idle", "intent", "send", "sending", "reply", "close", "done"}]
  /\ call \in [Threads -> Calls] /\ seen \in BOOLEAN
  /\ interactive \in BOOLEAN /\ strays \in [Reasons -> 0 .. 2]

Init ==
  /\ interactive \in BOOLEAN
  /\ running = TRUE /\ intent = "WAIT" /\ lock = FALSE
  /\ world = {}
  /\ sendLock = "free" /\ conn = TRUE /\ velocity = "still"
  /\ pc = [t \in Threads |-> IF t = "repl" /\ ~interactive THEN "done" ELSE "idle"]
  /\ call = [t \in Threads |-> "none"] /\ seen = FALSE
  /\ strays = [r \in Reasons |-> 0]
-----------------------------------------------------------------------------
(* parse_intent_fallback: the first group of words the text contains wins, *)
(* and anything unknown, "quack" and "wait" included, is a STOP.           *)

Rules == <<"STOP", "FETCH", "FOLLOW", "SIT", "PATROL", "GO_TO">>

Parse(words) ==
  IF words = {} THEN "STOP"
  ELSE Rules[CHOOSE i \in DOMAIN Rules :
               /\ Rules[i] \in words
               /\ \A j \in 1 .. i - 1 : Rules[j] \notin words]

\* (A definition named X_... is a faulty variant of X, for the mutation runs.)
Decide_Blind(i, obstacle) ==
  CASE i = "STOP"             -> {"stop"}
    [] i \in {"COME", "FOLLOW"} -> {"walk"}
    [] i = "WAIT"             -> {"head", "none"}
    [] OTHER                  -> {"none"}

\* What the loop does for an intent (tick_behavior_tree 166-214); WAIT moves
\* the head on every tenth tick.
Decide(i, obstacle) ==
  CASE i = "STOP"       -> {"stop"}
    [] i = "COME"       -> {IF obstacle THEN "stop" ELSE "walk"}
    [] i = "FOLLOW"     -> {IF obstacle THEN "stop" ELSE "walk"}
    [] i = "FETCH_BALL" -> {"scan"}
    [] i = "WAIT"       -> {"head", "none"}
    [] OTHER            -> {"none"}
-----------------------------------------------------------------------------
(* The history: strays[r] counts the motions sent since r became a reason  *)
(* to be still.                                                            *)

Active(r) == r \in world \/ r = intent

Motion == {"walk", "scan"}

CountStrays(sent) ==
  strays' = [r \in Reasons |-> IF ~Active(r)' THEN 0
                               ELSE IF sent \in Motion /\ strays[r] < 2
                                    THEN strays[r] + 1 ELSE strays[r]]

\* The handler runs in the main thread, which never resumes: sys.exit.
Runs(t) == t = Main => pc["handler"] = "idle"

\* Once the main thread has finished the process is gone.
Exited == pc["handler"] = "done" \/ (interactive /\ pc["repl"] = "done")

Goto(t, to) == pc' = [pc EXCEPT ![t] = to]

\* Thread t is done with its call and goes on.
Return(t, to) == Goto(t, to) /\ call' = [call EXCEPT ![t] = "none"]
-----------------------------------------------------------------------------
(* A call of the client by thread t: take send_lock, send, and for a       *)
(* request wait for the answer or the timeout.  A request also holds the   *)
(* lock a moment earlier, to number the call: one hold stands for both.    *)

Acquire(t) ==
  /\ pc[t] = "send" /\ Runs(t) /\ sendLock = "free"
  /\ sendLock' = t
  /\ Goto(t, "sending")
  /\ UNCHANGED <<interactive, running, intent, lock, world, conn, velocity,
                 call, seen, strays>>

Effect_Raw(c) == c

Effect(c) == CASE c \in {"stop", "quit"} -> "still"
               [] c \in Motion           -> c
               [] OTHER                  -> velocity

Transmit(t) ==
  /\ pc[t] = "sending" /\ Runs(t)
  /\ sendLock' = "free"
  /\ velocity' = IF conn THEN Effect(call[t]) ELSE velocity
  /\ IF call[t] \in Motion \union {"head"}
       THEN Return(t, "idle") ELSE Goto(t, "reply") /\ UNCHANGED call
  /\ UNCHANGED <<interactive, running, intent, lock, world, conn, seen>>
  /\ CountStrays(IF conn THEN call[t] ELSE "none")

Reply_NoClose(t) ==
  /\ pc[t] = "reply" /\ Runs(t)
  /\ Return(t, "idle")
  /\ lock' = (lock /\ t # "repl")
  /\ UNCHANGED <<running, intent, world, client, seen, strays>>

\* The caller goes on: the loop sleeps, set_intent releases self.lock, and
\* controller.stop() goes on to close the connection.
Reply(t) ==
  /\ pc[t] = "reply" /\ Runs(t)
  /\ Return(t, IF call[t] = "quit" THEN "close" ELSE "idle")
  /\ lock' = (lock /\ t # "repl")
  /\ UNCHANGED <<running, intent, world, client, seen, strays>>

\* client.close() and tof_client.close(): the end of controller.stop()
Close(t) ==
  /\ pc[t] = "close" /\ Runs(t)
  /\ conn' = FALSE
  /\ Goto(t, "done")
  /\ UNCHANGED <<interactive, running, intent, lock, world, sendLock, velocity,
                 call, seen, strays>>
-----------------------------------------------------------------------------
(* The loop *)

TickGuarded_Silent ==
  /\ pc["loop"] = "idle" /\ Runs("loop") /\ running
  /\ {"is_brownout_risk", "is_fallen"} \cap world # {}
  /\ UNCHANGED vars

\* run_loop takes the next tick: the guards come first (lines 143-160).
TickGuarded ==
  /\ pc["loop"] = "idle" /\ Runs("loop") /\ running
  /\ {"is_brownout_risk", "is_fallen"} \cap world # {}
  /\ call' = [call EXCEPT !["loop"] = "stop"]
  /\ Goto("loop", "send")
  /\ UNCHANGED <<running, intent, lock, world, client, seen, strays>>

Tick_Unguarded ==
  /\ pc["loop"] = "idle" /\ Runs("loop") /\ running
  /\ seen' = ("obstacle_close" \in world)
  /\ Goto("loop", "intent")
  /\ UNCHANGED <<running, intent, lock, world, client, call, strays>>

Tick ==
  /\ pc["loop"] = "idle" /\ Runs("loop") /\ running
  /\ {"is_brownout_risk", "is_fallen"} \cap world = {}
  /\ seen' = ("obstacle_close" \in world)
  /\ Goto("loop", "intent")
  /\ UNCHANGED <<running, intent, lock, world, client, call, strays>>

\* The intent is read under self.lock and acted on after its release.
ReadIntent ==
  /\ pc["loop"] = "intent" /\ Runs("loop") /\ ~lock
  /\ \E c \in Decide(intent, seen) :
       /\ call' = [call EXCEPT !["loop"] = c]
       /\ Goto("loop", IF c = "none" THEN "idle" ELSE "send")
  /\ seen' = FALSE
  /\ UNCHANGED <<running, intent, lock, world, client, strays>>

LoopEnds ==
  /\ pc["loop"] = "idle" /\ Runs("loop") /\ ~running
  /\ Goto("loop", "done")
  /\ UNCHANGED <<running, intent, lock, world, client, call, seen, strays>>
-----------------------------------------------------------------------------
(* The console and the signal handler *)

\* set_intent: the lock is held while a STOP or SIT request is answered.
Command(words) ==
  /\ pc["repl"] = "idle" /\ Runs("repl") /\ running /\ ~lock
  /\ LET i == Parse(words)
         c == CASE i = "STOP" -> "stop" [] i = "SIT" -> "skill"
                [] i = "QUACK" -> "sound" [] OTHER -> "none"
     IN /\ intent' = i
        /\ lock' = (c # "none")
        /\ call' = [call EXCEPT !["repl"] = c]
        /\ Goto("repl", IF c = "none" THEN "idle" ELSE "send")
  /\ UNCHANGED <<running, world, client, seen>>
  /\ CountStrays("none")

Quit(t) ==
  /\ running' = FALSE
  /\ call' = [call EXCEPT ![t] = "quit"]
  /\ Goto(t, "send")
  /\ UNCHANGED <<intent, lock, world, client, seen, strays>>

ExitCommand == pc["repl"] = "idle" /\ Runs("repl") /\ running /\ Quit("repl")

Signal == pc["handler"] = "idle" /\ pc[Main] # "done" /\ Quit("handler")

\* A telemetry frame of robotd, or a depth frame of tofd, changes a flag.
Telemetry(f) ==
  /\ conn \/ (f = "obstacle_close" /\ running)
  /\ world' = IF f \in world THEN world \ {f} ELSE world \union {f}
  /\ UNCHANGED <<running, intent, lock, client, pc, call, seen>>
  /\ CountStrays("none")

\* robotd goes away.  Nobody notices: the loop goes on with the flags it last
\* heard of, its sends have no effect, and the client never connects again.
ConnectionLost ==
  /\ conn /\ conn' = FALSE
  /\ UNCHANGED <<interactive, running, intent, lock, world, sendLock, velocity,
                 pc, call, seen, strays>>

LoopStep == TickGuarded \/ Tick \/ ReadIntent \/ LoopEnds
CallStep(t) == Acquire(t) \/ Transmit(t) \/ Reply(t) \/ Close(t)

Next == /\ ~Exited
        /\ \/ LoopStep
           \/ \E t \in Threads : CallStep(t)
           \/ \E words \in SUBSET (Intents \ {"WAIT"}) : Command(words)
           \/ ExitCommand \/ Signal
           \/ \E f \in Flags : Telemetry(f)
           \/ ConnectionLost

Spec == Init /\ [][Next]_vars

\* Threads keep running.  The locks are held for one send or one request, so
\* a thread that keeps asking for one gets it.
Fairness ==
  /\ WF_vars(~Exited /\ (TickGuarded \/ Tick \/ LoopEnds))
  /\ SF_vars(~Exited /\ ReadIntent)
  /\ \A t \in Threads : /\ SF_vars(~Exited /\ Acquire(t))
                        /\ WF_vars(~Exited /\ (Transmit(t) \/ Reply(t) \/ Close(t)))

FairSpec == Spec /\ Fairness
-----------------------------------------------------------------------------
(* Properties *)

\* A fall, a brownout or a STOP may be overtaken by the one motion the loop
\* had already decided on, never by a second one (lines 141-169).
OneStrayMotion == \A r \in Reasons : strays[r] <= 1

\* If a reason to be still persists, robotd stays connected and the controller
\* is not being shut down, the robot ends up still for good.
StaysStill ==
  \A r \in Reasons :
    <>[](Active(r) /\ running /\ conn) => <>[](velocity = "still")

\* FOLLOW ends up still in front of an obstacle that stays.
FollowAvoids ==
  <>[](intent = "FOLLOW" /\ "obstacle_close" \in world /\ running /\ conn)
    => <>[](velocity = "still")

\* The handler brings the process down even while the loop is sending, unless
\* it interrupted the main thread inside a send.
SignalQuits ==
  pc["handler"] = "send" /\ sendLock # Main ~> Exited

\* "Stops robot and terminates cleanly" (docs/physical_robot_setup.md 125)
ExitLeavesStill == pc["repl"] = "done" /\ interactive => velocity = "still"

\* "fetch ball: Scans for ball, ..." (docs/physical_robot_setup.md 120): a
\* command that stays in force on a healthy robot gets a scan.
FetchScans ==
  <>[](intent = "FETCH" /\ world = {} /\ running /\ conn) => <>(velocity = "scan")
=============================================================================
