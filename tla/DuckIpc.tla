------------------------------ MODULE DuckIpc -------------------------------
(***************************************************************************)
(* Tier 4: the motor daemon robotd (robotd_main.cpp), the behaviour-tree   *)
(* bridge (bt_bridge_node.cpp) and the POSIX shared memory segment between *)
(* them (shm_client.hpp), with time.  robotd owns the segment: it creates  *)
(* or reinitialises it when it starts and unlinks it when it exits; the    *)
(* bridge maps whatever the name refers to and never looks again, so that  *)
(* after an exit of robotd it goes on writing to an orphan nobody reads.   *)
(* Both may be killed at any instruction; systemd restarts robotd.  The    *)
(* variables odd, cmd and fodd are the segment the name refers to.         *)
(*                                                                         *)
(* The two sequence-lock channels are those of module SeqLock.  Here their *)
(* counters are reduced to parity, a read attempt is clean when no store   *)
(* hits the counter between its two loads, and a payload moves in the      *)
(* chunks of fields that the compiler copies at once (constant Chunks).    *)
(* The feedback payload is left out: robotd always publishes               *)
(* stability_state 0, so the bridge's clamp on state 2 never applies.      *)
(*                                                                         *)
(* Time is counted in ticks.  A moving or leaning command carries the      *)
(* instant it was issued as its value (history: the code's floats do not   *)
(* know it), so that the age of what the robot does can be stated.         *)
(***************************************************************************)
EXTENDS Naturals

CONSTANTS Chunks,        \* a partition of Fields: what one copy instruction moves
          LoopPeriod,    \* robotd's LOOP_PERIOD_NS (20 ms)
          TickPeriod,    \* the bridge's LOOP_PERIOD_NS (50 ms)
          Timeout,       \* COMMAND_TIMEOUT_NS (250 ms)
          MaxRetries,    \* of SeqLockChannel::read
          MaxTime,       \* bound on the clock
          TimeModulus,   \* 2^64: differences of uint64_t wrap
          Punctual       \* which of "robotd", "bridge" are never descheduled
                         \* for a tick where they hold the other up

ASSUME PeriodAssumption == /\ LoopPeriod \in Nat \ {0}
                           /\ TickPeriod \in Nat \ {0}
                           /\ Timeout \in Nat /\ MaxTime \in Nat \ {0}
                           /\ TimeModulus \in Nat /\ TimeModulus > MaxTime + Timeout
ASSUME RetryAssumption  == MaxRetries \in Nat \ {0}

VARIABLES
  now,                        \* steady_clock
  linked,                     \* MICRODUCK_SHM_NAME exists
  odd, cmd, fodd,             \* the segment: parity of cmd_channel, its data,
                              \* parity of feedback_channel
  rpc, start, local, rleft, clean, tries, acting,
                              \* robotd: position, start_time, cmd, and the
                              \* locals of the read in progress; the velocity
                              \* handed on for this iteration
  bpc, mapped, bwait, bseq, bcmd, bleft,
                              \* bridge: position, whose segment it maps,
                              \* ticks to sleep,
                              \* parity of `seq`, cmd, chunks not yet copied
  broken                      \* history: a bridge died inside write() and the
                              \* counter has not been reset since

clockVars  == <<now, broken>>
segVars    == <<linked, odd, cmd, fodd>>
robotdVars == <<rpc, start, local, rleft, clean, tries, acting>>
bridgeVars == <<bpc, mapped, bwait, bseq, bcmd, bleft>>
vars       == <<clockVars, segVars, robotdVars, bridgeVars>>

Fields  == {"motion", "lean", "emergency_stop", "timestamp"}
ASSUME ChunksAssumption == Chunks \subseteq SUBSET Fields /\ UNION Chunks = Fields

Times   == 0 .. MaxTime
Still   == 0                  \* the clock starts at 1
Command == [motion: Times, lean: Times, emergency_stop: BOOLEAN, timestamp: Times]
ZeroCommand == [motion |-> Still, lean |-> Still, emergency_stop |-> FALSE,
                timestamp |-> 0]

TypeOK ==
  /\ now \in Times /\ broken \in BOOLEAN
  /\ linked \in BOOLEAN /\ odd \in BOOLEAN /\ fodd \in BOOLEAN
  /\ cmd \in Command
  /\ rpc \in {"down", "sleep", "load", "copy", "apply", "publish"}
  /\ start \in Times /\ local \in Command /\ rleft \in SUBSET Chunks
  /\ clean \in BOOLEAN /\ tries \in 0 .. MaxRetries
  /\ acting \in Times
  /\ bpc \in {"down", "sleep", "feedback", "loaded", "copy"}
  /\ mapped \in {"none", "live", "orphan"}
  /\ bwait \in 0 .. TickPeriod
  /\ bseq \in BOOLEAN /\ bcmd \in Command /\ bleft \in SUBSET Chunks

Init ==
  /\ now = 1 /\ broken = FALSE
  /\ linked = FALSE /\ odd = FALSE /\ fodd = FALSE /\ cmd = ZeroCommand
  /\ rpc = "down" /\ start = 0 /\ local = ZeroCommand
  /\ rleft = {} /\ clean = FALSE /\ tries = 0 /\ acting = Still
  /\ bpc = "down" /\ mapped = "none" /\ bwait = 0 /\ bseq = FALSE
  /\ bcmd = ZeroCommand /\ bleft = {}
-----------------------------------------------------------------------------
(* robotd *)

\* (A definition named X_... is a faulty variant of X, for the mutation runs.)
RobotdStart_KeepsSegment ==
  /\ rpc = "down" /\ rpc' = "sleep"
  /\ linked' = TRUE
  /\ UNCHANGED <<clockVars, odd, cmd, fodd, start, local, rleft, clean, tries,
                 acting, bridgeVars>>

\* ShmClient(true) and the locals of main().  shm_open without O_EXCL reuses
\* an object a killed robotd left behind; placement new then clears it under
\* the feet of a bridge that has it mapped.
RobotdStart ==
  /\ rpc = "down"
  /\ linked' = TRUE /\ odd' = FALSE /\ fodd' = FALSE /\ cmd' = ZeroCommand
  /\ rpc' = "sleep"
  /\ broken' = (broken /\ mapped = "live" /\ bpc \in {"loaded", "copy"})
  /\ UNCHANGED <<now, start, local, rleft, clean, tries, acting, bridgeVars>>

\* The top of the loop: the period has passed (the first time: at once).
BeginLoop ==
  /\ rpc = "sleep" /\ (start = 0 \/ now >= start + LoopPeriod)
  /\ start' = now /\ tries' = 0 /\ rpc' = "load"
  /\ UNCHANGED <<clockVars, segVars, local, rleft, clean, acting, bridgeVars>>

\* An odd counter is loaded again without counting a retry: no step here.
Spinning == rpc = "load" /\ odd

LoadS1 ==
  /\ rpc = "load" /\ ~odd
  /\ rpc' = "copy" /\ rleft' = Chunks /\ clean' = TRUE
  /\ UNCHANGED <<clockVars, segVars, start, local, tries, acting, bridgeVars>>

CopyOut ==
  /\ rpc = "copy"
  /\ \E F \in rleft :
       /\ local' = [f \in Fields |-> IF f \in F THEN cmd[f] ELSE local[f]]
       /\ rleft' = rleft \ {F}
  /\ UNCHANGED <<clockVars, segVars, rpc, start, clean, tries, acting, bridgeVars>>

Retry ==
  /\ rpc = "copy" /\ rleft = {} /\ ~clean /\ tries + 1 < MaxRetries
  /\ tries' = tries + 1 /\ rpc' = "load"
  /\ UNCHANGED <<clockVars, segVars, start, local, rleft, clean, acting, bridgeVars>>

\* start_time - cmd.timestamp_ns, in uint64_t
Elapsed(t0, t) == (t0 + TimeModulus - t) % TimeModulus

Expired_NeverTimesOut(c) == c.emergency_stop

Expired(c) == Elapsed(start, c.timestamp) > Timeout \/ c.emergency_stop

\* read() returns and the command is checked (robotd_main.cpp 57-72).
ValidRead ==
  /\ rpc = "copy" /\ rleft = {} /\ clean
  /\ rpc' = "apply" /\ tries' = 0 /\ clean' = FALSE
  /\ local' = IF Expired(local)
                THEN [local EXCEPT !.motion = Still, !.lean = Still]
                ELSE local
  /\ UNCHANGED <<clockVars, segVars, start, rleft, acting, bridgeVars>>

FailedRead ==
  /\ rpc = "copy" /\ rleft = {} /\ ~clean /\ tries + 1 >= MaxRetries
  /\ rpc' = "apply" /\ tries' = 0
  /\ local' = [local EXCEPT !.motion = Still]
  /\ UNCHANGED <<clockVars, segVars, start, rleft, clean, acting, bridgeVars>>

\* The checked command goes to the control step and into the feedback, which
\* feedback_channel.write publishes: odd store, copy, even store.
BeginPublish ==
  /\ rpc = "apply"
  /\ rpc' = "publish" /\ acting' = local.motion
  /\ fodd' = ~fodd
  /\ UNCHANGED <<clockVars, linked, odd, cmd, start, local, rleft, clean,
                 tries, bridgeVars>>

EndPublish ==
  /\ rpc = "publish"
  /\ rpc' = "sleep" /\ fodd' = ~fodd
  /\ UNCHANGED <<clockVars, linked, odd, cmd, start, local, rleft, clean,
                 tries, acting, bridgeVars>>

RobotdGone ==
  /\ rpc' = "down" /\ local' = ZeroCommand
  /\ start' = 0 /\ rleft' = {} /\ clean' = FALSE /\ tries' = 0
  /\ acting' = Still
  /\ UNCHANGED <<clockVars, odd, cmd, fodd, bpc, bwait, bseq, bcmd, bleft>>

\* SIGTERM is seen at the top of the loop; ~ShmClient unlinks the name.
RobotdExit ==
  /\ rpc = "sleep"
  /\ RobotdGone
  /\ linked' = FALSE
  /\ mapped' = IF mapped = "live" THEN "orphan" ELSE mapped

RobotdKilled == rpc # "down" /\ RobotdGone /\ UNCHANGED <<linked, mapped>>

ReadStep == LoadS1 \/ CopyOut \/ Retry \/ ValidRead \/ FailedRead
RobotdLoop == BeginLoop \/ ReadStep \/ BeginPublish \/ EndPublish
-----------------------------------------------------------------------------
(* The bridge *)

\* ShmClient(false): shm_open throws while the name does not exist.
BridgeStart ==
  /\ bpc = "down" /\ linked
  /\ bpc' = "sleep" /\ mapped' = "live" /\ bwait' = 0
  /\ UNCHANGED <<clockVars, segVars, robotdVars, bseq, bcmd, bleft>>

BeginTick_Late ==
  /\ bpc = "sleep" /\ bwait = 0
  /\ bpc' = "feedback" /\ bwait' = TickPeriod + 1
  /\ UNCHANGED <<clockVars, segVars, robotdVars, mapped, bseq, bcmd, bleft>>

\* WalkActionBTNode::tick: the read of the feedback channel
BeginTick ==
  /\ bpc = "sleep" /\ bwait = 0
  /\ bpc' = "feedback" /\ bwait' = TickPeriod
  /\ UNCHANGED <<clockVars, segVars, robotdVars, mapped, bseq, bcmd, bleft>>

\* ... which spins on an odd counter; whether it then succeeds or gives up
\* makes no difference.  The command is filled in, and write() loads `seq`.
Compose ==
  /\ bpc = "feedback" /\ (mapped = "live" => ~fodd)
  /\ \E at \in {Still, now} :
       bcmd' = [motion |-> at, lean |-> at, emergency_stop |-> FALSE,
                timestamp |-> now]
  /\ bseq' = (mapped = "live" /\ odd)
  /\ bpc' = "loaded"
  /\ UNCHANGED <<clockVars, segVars, robotdVars, mapped, bwait, bleft>>

\* A store of the bridge to the counter: an attempt to read the segment that
\* is under way will find the counter changed.
StoreParity(p) == IF mapped = "live" THEN odd' = p /\ clean' = FALSE
                                     ELSE UNCHANGED <<odd, clean>>

BeginWrite ==
  /\ bpc = "loaded"
  /\ StoreParity(~bseq)
  /\ bpc' = "copy" /\ bleft' = Chunks
  /\ UNCHANGED <<clockVars, linked, cmd, fodd, rpc, start, local, rleft,
                 tries, acting, mapped, bwait, bseq, bcmd>>

CopyIn ==
  /\ bpc = "copy"
  /\ \E F \in bleft :
       /\ cmd' = IF mapped = "live"
                   THEN [f \in Fields |-> IF f \in F THEN bcmd[f] ELSE cmd[f]]
                   ELSE cmd
       /\ bleft' = bleft \ {F}
  /\ UNCHANGED <<clockVars, linked, odd, fodd, robotdVars, bpc, mapped, bwait, bseq, bcmd>>

EndWrite ==
  /\ bpc = "copy" /\ bleft = {}
  /\ StoreParity(bseq)
  /\ bpc' = "sleep" /\ bcmd' = ZeroCommand /\ bseq' = FALSE
  /\ UNCHANGED <<clockVars, linked, cmd, fodd, rpc, start, local, rleft,
                 tries, acting, mapped, bwait, bleft>>

\* 200 ticks done, SIGTERM, or killed anywhere.
BridgeGone ==
  /\ bpc # "down"
  /\ bpc' = "down" /\ mapped' = "none" /\ bwait' = 0 /\ bseq' = FALSE
  /\ bcmd' = ZeroCommand /\ bleft' = {}
  /\ broken' = (broken \/ (bpc = "copy" /\ mapped = "live"))
  /\ UNCHANGED <<now, segVars, robotdVars>>

BridgeStep == BridgeStart \/ BeginTick \/ Compose \/ BeginWrite \/ CopyIn \/ EndWrite
-----------------------------------------------------------------------------
(* Time passes, but a punctual robotd finishes its iteration within the    *)
(* period unless it spins on an odd counter, and a punctual bridge is not  *)
(* descheduled between stamping a command and finishing its write.         *)

Tick ==
  /\ now < MaxTime
  /\ "robotd" \in Punctual =>
       rpc = "down" \/ Spinning \/ (start # 0 /\ now < start + LoopPeriod)
  /\ "bridge" \in Punctual => bpc \notin {"loaded", "copy"}
  /\ now' = now + 1
  /\ bwait' = IF bwait = 0 THEN 0 ELSE bwait - 1
  /\ UNCHANGED <<broken, segVars, robotdVars, bpc, mapped, bseq, bcmd, bleft>>

Next == \/ RobotdStart \/ RobotdLoop \/ RobotdExit \/ RobotdKilled
        \/ BridgeStep \/ BridgeGone
        \/ Tick

Spec == Init /\ [][Next]_vars

\* systemd restarts robotd (Restart=always); live processes keep running, and
\* robotd's 20 ms sleeps leave the feedback counter even again and again.
Fairness == /\ WF_vars(RobotdStart)
            /\ WF_vars(ReadStep \/ BeginPublish \/ EndPublish)
            /\ SF_vars(Compose)

FairSpec == Spec /\ Fairness
-----------------------------------------------------------------------------
(* Properties *)

Age(t) == IF t = Still THEN 0 ELSE now - t

\* What the robot is doing was asked for at most one timeout and two loop
\* periods ago: a command is checked at the start of one iteration and acted
\* on until the end of the next (robotd_main.cpp 59, "Watchdog check: Has BT
\* stopped publishing or timed out?").
Fresh == Age(acting) <= Timeout + 2 * LoopPeriod

\* The same while no bridge died inside write() since robotd last reset the
\* counter: the watchdog stops the robot whatever else is killed or restarted,
\* unlinks the segment or reinitialises it under the bridge's hands.
FreshUnlessBroken == broken \/ Fresh

\* The bridge never waits for ever on a feedback channel that a killed robotd
\* left odd: the next robotd reinitialises the very segment it has mapped.
BridgeReturns == bpc = "feedback" ~> bpc # "feedback"

\* A command that has not timed out is obeyed (robotd_main.cpp 59).
FreshCommandIsObeyed ==
  [][ValidRead /\ now - local.timestamp <= Timeout => local' = local]_vars
=============================================================================
