--------------------------- MODULE DuckIpcProofs ---------------------------
(* Theorems about DuckIpc, for every loop period, timeout, number of       *)
(* retries, clock width and way the compiler cuts up the 64-byte copy.     *)
EXTENDS DuckIpc, TLAPS

Writing == bpc = "copy" /\ mapped = "live"

\* Who is connected to what, and the instant of the iteration.
LinkInv ==
  /\ mapped = "live" => linked
  /\ rpc # "down" => linked
  /\ rpc = "down" => start = 0
  /\ rpc \notin {"down", "sleep"} => start # 0
  /\ start = 0 => acting = Still
  /\ now >= 1 /\ start <= now

\* A command that moves was issued no earlier than its timestamp says.
Sound(c) == c.motion = Still \/ c.timestamp <= c.motion

\* The bridge stamps a moving command with the instant it was issued.
StampInv == bcmd.motion = Still \/ bcmd.motion = bcmd.timestamp

\* Each field is from the command being written or from the cleared segment.
Mixed(value, f) == value = bcmd[f] \/ value = ZeroCommand[f]

\* The segment, while no bridge has died inside write().  An even counter does
\* not mean that nobody writes: a robotd that restarts clears it under the
\* bridge's hands, which then goes on copying into the cleared payload.
SegmentInv ==
  ~broken /\ linked =>
    /\ odd => Writing
    /\ mapped = "live" /\ bpc \in {"loaded", "copy"} => ~bseq
    /\ ~odd => Sound(cmd)
    /\ Writing /\ odd => \A F \in Chunks \ bleft : \A f \in F : cmd[f] = bcmd[f]
    /\ Writing /\ ~odd => \A f \in Fields : Mixed(cmd[f], f)

\* What a read that still is clean has copied is in the segment, or was when
\* it was copied.
ReadInv ==
  ~broken /\ rpc = "copy" /\ clean =>
    /\ ~odd
    /\ \A F \in Chunks \ rleft : \A f \in F :
         local[f] = cmd[f] \/ (Writing /\ Mixed(local[f], f))

\* How old the checked command and the velocity in use can be.
AgeInv ==
  ~broken =>
    /\ rpc = "apply" => local.motion = Still \/ local.motion + Timeout >= start
    /\ \/ acting = Still
       \/ rpc \in {"load", "copy", "apply"} /\ acting + Timeout + LoopPeriod >= start
       \/ acting + Timeout >= start

\* A punctual robotd, whom no write of a punctual bridge holds up.
TimeInv == ~broken /\ start # 0 => now <= start + LoopPeriod

IInv == TypeOK /\ LinkInv /\ StampInv /\ SegmentInv /\ ReadInv /\ AgeInv /\ TimeInv
-----------------------------------------------------------------------------
(* Commands *)

\* Copying some fields of one command over another makes a command.
LEMMA CopyType ==
  ASSUME NEW c \in Command, NEW d \in Command, NEW F
  PROVE  /\ [f \in Fields |-> IF f \in F THEN c[f] ELSE d[f]] \in Command
         /\ \A f \in Fields :
              [g \in Fields |-> IF g \in F THEN c[g] ELSE d[g]][f]
                = IF f \in F THEN c[f] ELSE d[f]
BY DEF Command, Fields

\* The motion of a command and its timestamp are two of its fields.
LEMMA FieldsOf ==
  ASSUME NEW c \in Command
  PROVE  /\ c.motion = c["motion"] /\ c.timestamp = c["timestamp"]
         /\ c.motion \in Times /\ c.timestamp \in Times
         /\ "motion" \in Fields /\ "timestamp" \in Fields
BY DEF Command, Fields

\* The cleared segment holds a command that does not move.
LEMMA ZeroIsSound == ZeroCommand \in Command /\ Sound(ZeroCommand)
BY PeriodAssumption DEF ZeroCommand, Command, Times, Sound, Still

\* A command put together from the fields of one being written and of the
\* cleared segment still moves only if it was issued no earlier than it says.
LEMMA MixedIsSound ==
  ASSUME TypeOK, StampInv, NEW c \in Command, \A f \in Fields : Mixed(c[f], f)
  PROVE  Sound(c)
<1>1. bcmd \in Command
  BY DEF TypeOK
<1>2. /\ c.motion \in {bcmd.motion, Still} /\ c.timestamp \in {bcmd.timestamp, 0}
  BY <1>1, FieldsOf, ZeroIsSound DEF Mixed, ZeroCommand
<1>3. bcmd.motion \in Nat /\ bcmd.timestamp \in Nat
  BY <1>1, FieldsOf DEF Times
<1> QED BY <1>2, <1>3 DEF StampInv, Sound, Still

\* The subtraction of uint64_t's: a difference that is not above the timeout
\* is the difference of the instants, the timestamp not being a later one.
LEMMA ElapsedIs ==
  ASSUME NEW t0 \in Times, NEW t \in Times, ~(Elapsed(t0, t) > Timeout)
  PROVE  t + Timeout >= t0
<1>1. CASE t > t0
  <2>1. Elapsed(t0, t) = t0 + TimeModulus - t
    BY <1>1, PeriodAssumption DEF Elapsed, Times
  <2> QED BY <1>1, <2>1, PeriodAssumption DEF Times
<1>2. CASE t <= t0
  <2>1. Elapsed(t0, t) = t0 - t
    <3>1. t0 - t \in 0 .. TimeModulus - 1
      BY <1>2, PeriodAssumption DEF Times
    <3>2. t0 + TimeModulus - t = (t0 - t) + TimeModulus
      BY PeriodAssumption DEF Times
    <3>3. \A k \in 0 .. TimeModulus - 1 : (k + TimeModulus) % TimeModulus = k
      BY PeriodAssumption
    <3> QED BY <3>1, <3>2, <3>3 DEF Elapsed
  <2> QED BY <2>1, PeriodAssumption DEF Times
<1> QED BY <1>1, <1>2 DEF Times
-----------------------------------------------------------------------------
(* The inductive invariant *)

LEMMA InitInv == Init => IInv
<1> SUFFICES ASSUME Init PROVE IInv
  OBVIOUS
<1>1. TypeOK
  <2>1. 0 \in Times /\ 1 \in Times /\ Still \in Times
    BY PeriodAssumption DEF Times, Still
  <2>2. 0 \in 0 .. MaxRetries /\ 0 \in 0 .. TickPeriod
    BY PeriodAssumption, RetryAssumption
  <2> QED BY <2>1, <2>2, ZeroIsSound DEF Init, TypeOK
<1>2. LinkInv /\ StampInv
  BY DEF Init, LinkInv, StampInv, ZeroCommand
<1>3. SegmentInv /\ ReadInv /\ AgeInv /\ TimeInv
  BY DEF Init, SegmentInv, ReadInv, AgeInv, TimeInv
<1> QED BY <1>1, <1>2, <1>3 DEF IInv

LEMMA TypeStep == TypeOK /\ [Next]_vars => TypeOK'
<1> SUFFICES ASSUME TypeOK, [Next]_vars PROVE TypeOK'
  OBVIOUS
<1> USE DEF TypeOK, clockVars, segVars, robotdVars, bridgeVars
<1>0. /\ 0 \in Times /\ Still \in Times /\ ZeroCommand \in Command
      /\ 0 \in 0 .. MaxRetries /\ 0 \in 0 .. TickPeriod
  BY ZeroIsSound, PeriodAssumption, RetryAssumption DEF Times, Still
<1>1. CASE RobotdStart
  BY <1>1, ZeroIsSound DEF RobotdStart
<1>2. CASE BeginLoop
  BY <1>2, RetryAssumption DEF BeginLoop
<1>3. CASE LoadS1
  BY <1>3 DEF LoadS1
<1>4. CASE CopyOut
  BY <1>4, CopyType DEF CopyOut
<1>5. CASE Retry
  BY <1>5, RetryAssumption DEF Retry
<1>6. CASE ValidRead
  <2>1. [local EXCEPT !.motion = Still, !.lean = Still] \in Command
    BY <1>0 DEF Command
  <2>2. local' \in Command
    BY <1>6, <2>1 DEF ValidRead
  <2> QED BY <1>0, <1>6, <2>2 DEF ValidRead
<1>7. CASE FailedRead
  <2>1. [local EXCEPT !.motion = Still] \in Command
    BY <1>0 DEF Command
  <2> QED BY <1>0, <1>7, <2>1 DEF FailedRead
<1>8. CASE BeginPublish
  BY <1>8, FieldsOf DEF BeginPublish
<1>9. CASE EndPublish
  BY <1>9 DEF EndPublish
<1>10. CASE RobotdExit \/ RobotdKilled
  <2>1. CASE RobotdExit
    BY <1>0, <2>1 DEF RobotdExit, RobotdGone
  <2>2. CASE RobotdKilled
    BY <1>0, <2>2 DEF RobotdKilled, RobotdGone
  <2> QED BY <1>10, <2>1, <2>2
<1>11. CASE BridgeStart
  BY <1>11, PeriodAssumption DEF BridgeStart
<1>12. CASE BeginTick
  BY <1>12, PeriodAssumption DEF BeginTick
<1>13. CASE Compose
  <2>1. bcmd' \in Command
    BY <1>13, <1>0 DEF Compose, Command
  <2> QED BY <1>13, <2>1 DEF Compose
<1>14. CASE BeginWrite
  BY <1>14, ZenonT(30) DEF BeginWrite, StoreParity
<1>15. CASE CopyIn
  BY <1>15, CopyType DEF CopyIn
<1>16. CASE EndWrite
  BY <1>16, ZeroIsSound, ZenonT(30) DEF EndWrite, StoreParity
<1>17. CASE BridgeGone
  BY <1>0, <1>17 DEF BridgeGone
<1>18. CASE Tick
  <2>1. now' \in Times
    BY <1>18, PeriodAssumption DEF Tick, Times
  <2>2. bwait' \in 0 .. TickPeriod
    BY <1>18, PeriodAssumption DEF Tick
  <2> QED BY <1>18, <2>1, <2>2 DEF Tick
<1>19. CASE UNCHANGED vars
  BY <1>19 DEF vars
<1> QED
  BY <1>1, <1>2, <1>3, <1>4, <1>5, <1>6, <1>7, <1>8, <1>9, <1>10, <1>11, <1>12,
     <1>13, <1>14, <1>15, <1>16, <1>17, <1>18, <1>19
     DEF Next, RobotdLoop, ReadStep, BridgeStep

LEMMA LinkStep == TypeOK /\ LinkInv /\ [Next]_vars => LinkInv'
<1> SUFFICES ASSUME TypeOK, LinkInv, [Next]_vars PROVE LinkInv'
  OBVIOUS
<1> USE DEF LinkInv, clockVars, segVars, robotdVars, bridgeVars
<1>0. now \in Nat /\ start \in Nat
  BY DEF TypeOK, Times
<1>1. CASE RobotdStart
  BY <1>1 DEF RobotdStart
<1>2. CASE BeginLoop
  BY <1>2, <1>0 DEF BeginLoop
<1>3. CASE ReadStep
  BY <1>3 DEF ReadStep, LoadS1, CopyOut, Retry, ValidRead, FailedRead
<1>4. CASE BeginPublish \/ EndPublish
  BY <1>4 DEF BeginPublish, EndPublish
<1>5. CASE RobotdExit
  BY <1>5, <1>0 DEF RobotdExit, RobotdGone
<1>6. CASE RobotdKilled
  BY <1>6, <1>0 DEF RobotdKilled, RobotdGone
<1>7. CASE BridgeStart \/ BeginTick \/ Compose \/ BeginWrite \/ CopyIn
  BY <1>7 DEF BridgeStart, BeginTick, Compose, BeginWrite, CopyIn, StoreParity
<1>8. CASE EndWrite \/ BridgeGone
  BY <1>8 DEF EndWrite, BridgeGone, StoreParity
<1>9. CASE Tick
  BY <1>9, <1>0 DEF Tick
<1>10. CASE UNCHANGED vars
  BY <1>10 DEF vars
<1> QED
  BY <1>1, <1>2, <1>3, <1>4, <1>5, <1>6, <1>7, <1>8, <1>9, <1>10
     DEF Next, RobotdLoop, BridgeStep

LEMMA StampStep == StampInv /\ [Next]_vars => StampInv'
<1> SUFFICES ASSUME StampInv, [Next]_vars PROVE StampInv'
  OBVIOUS
<1> USE DEF StampInv, clockVars, segVars, robotdVars, bridgeVars
<1>1. CASE RobotdStart \/ RobotdExit \/ RobotdKilled
  BY <1>1 DEF RobotdStart, RobotdExit, RobotdKilled, RobotdGone
<1>2. CASE RobotdLoop
  BY <1>2 DEF RobotdLoop, ReadStep, BeginLoop, LoadS1, CopyOut, Retry, ValidRead,
              FailedRead, BeginPublish, EndPublish
<1>3. CASE Compose
  BY <1>3 DEF Compose
<1>4. CASE BridgeStart \/ BeginTick \/ BeginWrite \/ CopyIn
  BY <1>4 DEF BridgeStart, BeginTick, BeginWrite, CopyIn
<1>5. CASE EndWrite \/ BridgeGone
  BY <1>5 DEF EndWrite, BridgeGone, ZeroCommand
<1>6. CASE Tick \/ UNCHANGED vars
  BY <1>6 DEF Tick, vars
<1> QED BY <1>1, <1>2, <1>3, <1>4, <1>5, <1>6 DEF Next, BridgeStep

\* What robotd does between its start and its end is not seen in the segment
\* that commands go through, nor by the bridge.
LEMMA RobotdLoopReads ==
  RobotdLoop => UNCHANGED <<now, broken, linked, odd, cmd, bridgeVars>>
BY DEF RobotdLoop, ReadStep, BeginLoop, LoadS1, CopyOut, Retry, ValidRead, FailedRead,
       BeginPublish, EndPublish, clockVars, segVars

LEMMA SegmentStep ==
  TypeOK /\ LinkInv /\ StampInv /\ SegmentInv /\ [Next]_vars => SegmentInv'
<1> SUFFICES ASSUME TypeOK, LinkInv, StampInv, SegmentInv, [Next]_vars PROVE SegmentInv'
  OBVIOUS
<1>0. bcmd \in Command /\ cmd \in Command /\ bleft \in SUBSET Chunks
  BY DEF TypeOK
<1>1. CASE RobotdStart
  <2>1. Sound(cmd') /\ ~odd' /\ \A f \in Fields : cmd'[f] = ZeroCommand[f]
    BY <1>1, ZeroIsSound DEF RobotdStart
  <2>2. UNCHANGED <<bpc, mapped, bseq, bcmd, bleft>>
    BY <1>1 DEF RobotdStart, bridgeVars
  <2>3. ~broken' => (mapped = "live" /\ bpc \in {"loaded", "copy"} => ~broken /\ linked)
    BY <1>1 DEF RobotdStart, LinkInv
  <2>4. ~broken' => (mapped' = "live" /\ bpc' \in {"loaded", "copy"} => ~bseq')
    BY <2>2, <2>3 DEF SegmentInv
  <2> QED BY <2>1, <2>2, <2>4 DEF SegmentInv, Mixed
<1>2. CASE RobotdLoop
  BY <1>2, RobotdLoopReads DEF SegmentInv, Writing, Mixed, Sound, bridgeVars
<1>3. CASE RobotdExit
  BY <1>3 DEF RobotdExit, SegmentInv
<1>4. CASE RobotdKilled
  BY <1>4 DEF RobotdKilled, RobotdGone, clockVars, SegmentInv, Writing, Mixed, Sound
<1>5. CASE BridgeStart \/ BeginTick
  BY <1>5 DEF BridgeStart, BeginTick, clockVars, segVars, SegmentInv, Writing, Sound
<1>6. CASE Compose
  BY <1>6 DEF Compose, clockVars, segVars, SegmentInv, Writing, Sound
<1>7. CASE BeginWrite
  <2>1. CASE mapped = "live"
    BY <1>7, <2>1 DEF BeginWrite, StoreParity, clockVars, SegmentInv, Writing
  <2>2. CASE mapped # "live"
    BY <1>7, <2>2 DEF BeginWrite, StoreParity, clockVars, SegmentInv, Writing, Sound
  <2> QED BY <2>1, <2>2
<1>8. CASE CopyIn
  <2>1. CASE mapped = "live" /\ ~broken
    <3>1. PICK F \in bleft :
            /\ cmd' = [f \in Fields |-> IF f \in F THEN bcmd[f] ELSE cmd[f]]
            /\ bleft' = bleft \ {F}
      BY <1>8, <2>1 DEF CopyIn
    <3>2. \A f \in Fields : cmd'[f] = IF f \in F THEN bcmd[f] ELSE cmd[f]
      BY <1>0, <3>1, CopyType
    <3>3. cmd' \in Command
      BY <1>0, <3>1, CopyType
    <3>4. UNCHANGED <<broken, linked, odd, bpc, mapped, bseq, bcmd>> /\ bpc = "copy" /\ linked
      BY <1>8, <2>1 DEF CopyIn, clockVars, LinkInv
    <3>5. ASSUME odd, NEW G \in Chunks \ bleft', NEW f \in G PROVE cmd'[f] = bcmd[f]
      <4>1. f \in Fields
        BY ChunksAssumption
      <4>2. CASE G = F
        BY <3>2, <4>1, <4>2
      <4>3. CASE G # F
        BY <2>1, <3>1, <3>2, <3>4, <3>5, <4>1, <4>3 DEF SegmentInv, Writing
      <4> QED BY <4>2, <4>3
    <3>6. ~odd => \A f \in Fields : Mixed(cmd'[f], f)
      BY <2>1, <3>2, <3>4 DEF SegmentInv, Writing, Mixed
    <3>7. ~odd => Sound(cmd')
      BY <3>3, <3>6, MixedIsSound
    <3> QED BY <2>1, <3>4, <3>5, <3>6, <3>7 DEF SegmentInv, Writing, Mixed
  <2>2. CASE mapped # "live" \/ broken
    BY <1>8, <2>2 DEF CopyIn, clockVars, SegmentInv, Writing, Sound
  <2> QED BY <2>1, <2>2
<1>9. CASE EndWrite
  <2>1. CASE mapped = "live" /\ ~broken
    <3>1. Writing /\ linked /\ bleft = {} /\ cmd' = cmd /\ odd' = bseq
          /\ bpc' = "sleep" /\ UNCHANGED <<broken, linked, mapped>>
      BY <1>9, <2>1 DEF EndWrite, StoreParity, clockVars, Writing, LinkInv
    <3>2. ~bseq
      BY <2>1, <3>1 DEF SegmentInv, Writing
    <3>3. Sound(cmd)
      <4>1. CASE odd
        <5>1. \A f \in Fields : cmd[f] = bcmd[f]
          BY <2>1, <3>1, <4>1, ChunksAssumption DEF SegmentInv
        <5> QED BY <1>0, <5>1, MixedIsSound DEF Mixed
      <4>2. CASE ~odd
        BY <2>1, <3>1, <4>2 DEF SegmentInv
      <4> QED BY <4>1, <4>2
    <3> QED BY <2>1, <3>1, <3>2, <3>3 DEF SegmentInv, Writing
  <2>2. CASE mapped # "live" \/ broken
    BY <1>9, <2>2 DEF EndWrite, StoreParity, clockVars, SegmentInv, Writing, Sound
  <2> QED BY <2>1, <2>2
<1>10. CASE BridgeGone
  BY <1>10 DEF BridgeGone, segVars, SegmentInv, Writing, Sound
<1>11. CASE Tick \/ UNCHANGED vars
  BY <1>11 DEF Tick, vars, clockVars, segVars, bridgeVars, SegmentInv, Writing, Mixed, Sound
<1> QED
  BY <1>1, <1>2, <1>3, <1>4, <1>5, <1>6, <1>7, <1>8, <1>9, <1>10, <1>11
     DEF Next, BridgeStep

LEMMA ReadInvStep ==
  TypeOK /\ LinkInv /\ SegmentInv /\ ReadInv /\ [Next]_vars => ReadInv'
<1> SUFFICES ASSUME TypeOK, LinkInv, SegmentInv, ReadInv, [Next]_vars,
                    ~broken', rpc' = "copy", clean'
             PROVE  /\ ~odd'
                    /\ \A F \in Chunks \ rleft' : \A f \in F :
                         local'[f] = cmd'[f] \/ (Writing /\ Mixed(local[f], f))'
  BY DEF ReadInv
<1> DEFINE Goal == /\ ~odd'
                   /\ \A F \in Chunks \ rleft' : \A f \in F :
                        local'[f] = cmd'[f] \/ (Writing /\ Mixed(local[f], f))'
<1>0. cmd \in Command /\ local \in Command /\ rleft \in SUBSET Chunks
  BY DEF TypeOK
<1>1. CASE LoadS1
  BY <1>1 DEF LoadS1, segVars
<1>2. CASE CopyOut
  <2>1. PICK F \in rleft :
          /\ local' = [f \in Fields |-> IF f \in F THEN cmd[f] ELSE local[f]]
          /\ rleft' = rleft \ {F}
    BY <1>2 DEF CopyOut
  <2>2. \A f \in Fields : local'[f] = IF f \in F THEN cmd[f] ELSE local[f]
    BY <1>0, <2>1, CopyType
  <2>3. /\ UNCHANGED <<broken, odd, cmd, clean, bpc, mapped, bcmd>>
        /\ rpc = "copy" /\ ~broken /\ clean
    BY <1>2 DEF CopyOut, clockVars, segVars, bridgeVars
  <2>4. ASSUME NEW G \in Chunks \ rleft', NEW f \in G
        PROVE  local'[f] = cmd'[f] \/ (Writing /\ Mixed(local[f], f))'
    <3>1. f \in Fields
      BY ChunksAssumption
    <3>2. CASE f \in F
      BY <2>2, <2>3, <3>1, <3>2
    <3>3. CASE f \notin F
      <4>1. local'[f] = local[f]
        BY <2>2, <3>1, <3>3
      <4>2. G \in Chunks \ rleft
        BY <2>1, <3>3
      <4>3. local[f] = cmd[f] \/ (Writing /\ Mixed(local[f], f))
        BY <2>3, <4>2 DEF ReadInv
      <4> QED BY <2>3, <4>1, <4>3 DEF Writing, Mixed
    <3> QED BY <3>2, <3>3
  <2> QED BY <2>3, <2>4 DEF ReadInv
<1>3. CASE CopyIn
  <2>1. /\ UNCHANGED <<broken, odd, rpc, local, rleft, clean, bpc, mapped, bcmd>>
        /\ bpc = "copy" /\ ~broken /\ clean /\ rpc = "copy"
    BY <1>3 DEF CopyIn, clockVars, robotdVars
  <2>2. linked /\ ~odd
    BY <2>1 DEF LinkInv, ReadInv
  <2>3. ASSUME NEW G \in Chunks \ rleft, NEW f \in G
        PROVE  local'[f] = cmd'[f] \/ (Writing /\ Mixed(local[f], f))'
    <3>1. f \in Fields
      BY ChunksAssumption
    <3>2. local[f] = cmd[f] \/ (Writing /\ Mixed(local[f], f))
      BY <2>1, <2>3 DEF ReadInv
    <3>3. CASE mapped = "live"
      <4>1. Mixed(cmd[f], f)
        BY <2>1, <2>2, <3>1, <3>3 DEF SegmentInv, Writing
      <4>2. Mixed(local[f], f)
        BY <3>2, <4>1
      <4> QED BY <2>1, <3>3, <4>2 DEF Writing, Mixed
    <3>4. CASE mapped # "live"
      BY <1>3, <2>1, <3>2, <3>4 DEF CopyIn, Writing
    <3> QED BY <3>3, <3>4
  <2> QED BY <2>1, <2>2, <2>3
<1>4. CASE BridgeGone
  <2>1. /\ ~broken /\ ~Writing
        /\ UNCHANGED <<odd, cmd, rpc, local, rleft, clean>>
    BY <1>4 DEF BridgeGone, Writing, segVars, robotdVars
  <2> QED BY <2>1 DEF ReadInv
<1>5. CASE BridgeStart \/ BeginTick \/ Compose
  <2>1. /\ UNCHANGED <<broken, odd, cmd, rpc, local, rleft, clean>> /\ bpc # "copy"
    BY <1>5 DEF BridgeStart, BeginTick, Compose, clockVars, segVars, robotdVars
  <2> QED BY <2>1 DEF ReadInv, Writing
<1>6. CASE BeginWrite \/ EndWrite
  <2>1. /\ mapped # "live"
        /\ UNCHANGED <<broken, odd, cmd, rpc, local, rleft, clean>>
    BY <1>6 DEF BeginWrite, EndWrite, StoreParity, clockVars
  <2> QED BY <2>1 DEF ReadInv, Writing
<1>7. CASE RobotdStart \/ RobotdExit \/ RobotdKilled
  BY <1>7 DEF RobotdStart, RobotdExit, RobotdKilled, RobotdGone
<1>8. CASE BeginLoop \/ Retry \/ ValidRead \/ FailedRead \/ BeginPublish \/ EndPublish
  BY <1>8 DEF BeginLoop, Retry, ValidRead, FailedRead, BeginPublish, EndPublish
<1>9. CASE Tick \/ UNCHANGED vars
  <2>1. UNCHANGED <<broken, odd, cmd, rpc, local, rleft, clean, bpc, mapped, bcmd>>
    BY <1>9 DEF Tick, vars, clockVars, segVars, robotdVars, bridgeVars
  <2> QED BY <2>1 DEF ReadInv, Writing, Mixed
<1> QED
  BY <1>1, <1>2, <1>3, <1>4, <1>5, <1>6, <1>7, <1>8, <1>9
     DEF Next, RobotdLoop, ReadStep, BridgeStep

\* A command that a clean read returns is one that was written whole.
LEMMA CleanReadIsSound ==
  ASSUME TypeOK, StampInv, LinkInv, SegmentInv, ReadInv, ~broken,
         rpc = "copy", clean, rleft = {}
  PROVE  Sound(local)
<1>1. ~odd /\ linked /\ local \in Command /\ cmd \in Command
  BY DEF ReadInv, LinkInv, TypeOK
<1>2. \A f \in Fields : local[f] = cmd[f] \/ (Writing /\ Mixed(local[f], f))
  BY ChunksAssumption DEF ReadInv
<1>3. CASE Writing
  <2>1. \A f \in Fields : Mixed(local[f], f)
    BY <1>1, <1>2, <1>3 DEF SegmentInv
  <2> QED BY <1>1, <2>1, MixedIsSound
<1>4. CASE ~Writing
  <2>1. local.motion = cmd.motion /\ local.timestamp = cmd.timestamp
    BY <1>1, <1>2, <1>4, FieldsOf
  <2> QED BY <1>1, <2>1 DEF SegmentInv, Sound
<1> QED BY <1>3, <1>4

\* The bridge moves neither robotd nor the clock.
LEMMA BridgeKeepsRobotd ==
  BridgeStep \/ BridgeGone =>
    UNCHANGED <<now, rpc, start, local, acting>> /\ (~broken' => ~broken)
<1> USE DEF clockVars, segVars, robotdVars
<1>1. BridgeStart \/ BeginTick \/ Compose \/ CopyIn =>
        UNCHANGED <<now, broken, rpc, start, local, acting>>
  BY DEF BridgeStart, BeginTick, Compose, CopyIn
<1>2. BeginWrite \/ EndWrite => UNCHANGED <<now, broken, rpc, start, local, acting>>
  BY DEF BeginWrite, EndWrite
<1>3. BridgeGone =>
        UNCHANGED <<now, rpc, start, local, acting>> /\ (~broken' => ~broken)
  BY DEF BridgeGone
<1> QED BY <1>1, <1>2, <1>3 DEF BridgeStep

LEMMA AgeStep ==
  IInv /\ [Next]_vars => AgeInv'
<1> SUFFICES ASSUME IInv, [Next]_vars, ~broken'
             PROVE  /\ rpc' = "apply" => local'.motion = Still \/ local'.motion + Timeout >= start'
                    /\ \/ acting' = Still
                       \/ rpc' \in {"load", "copy", "apply"} /\ acting' + Timeout + LoopPeriod >= start'
                       \/ acting' + Timeout >= start'
  BY DEF AgeInv
<1> USE DEF clockVars, segVars, robotdVars, bridgeVars
<1>0. TypeOK /\ LinkInv /\ AgeInv /\ TimeInv
  BY DEF IInv
<1>n. /\ now \in Nat /\ start \in Nat /\ acting \in Nat /\ Timeout \in Nat
      /\ LoopPeriod \in Nat /\ local \in Command
  BY <1>0, PeriodAssumption DEF TypeOK, Times
<1>1. CASE RobotdStart
  BY <1>0, <1>1 DEF RobotdStart, LinkInv
<1>2. CASE BeginLoop
  <2>1. /\ ~broken /\ start' = now /\ rpc' = "load" /\ acting' = acting
        /\ rpc = "sleep"
    BY <1>2 DEF BeginLoop
  <2>2. acting = Still \/ (acting + Timeout >= start /\ start # 0)
    BY <1>0, <2>1 DEF AgeInv, LinkInv
  <2>3. start # 0 => now <= start + LoopPeriod
    BY <1>0, <2>1 DEF TimeInv
  <2> QED BY <1>n, <2>1, <2>2, <2>3
<1>3. CASE LoadS1 \/ CopyOut \/ Retry
  BY <1>0, <1>3 DEF LoadS1, CopyOut, Retry, AgeInv
<1>4. CASE ValidRead
  <2>1. /\ ~broken /\ UNCHANGED <<start, acting>> /\ rpc = "copy" /\ rpc' = "apply"
        /\ clean /\ rleft = {}
    BY <1>4 DEF ValidRead
  <2>2. local'.motion = Still \/ local'.motion + Timeout >= start
    <3>1. CASE Expired(local)
      <4>1. local' = [local EXCEPT !.motion = Still, !.lean = Still]
        BY <1>4, <3>1 DEF ValidRead
      <4> QED BY <1>n, <4>1 DEF Command
    <3>2. CASE ~Expired(local)
      <4>1. local' = local
        BY <1>4, <3>2 DEF ValidRead
      <4>2. local.timestamp + Timeout >= start
        <5>1. ~(Elapsed(start, local.timestamp) > Timeout)
          BY <3>2 DEF Expired
        <5>2. start \in Times /\ local.timestamp \in Times
          BY <1>0, <1>n, FieldsOf DEF TypeOK
        <5> QED BY <5>1, <5>2, ElapsedIs
      <4>3. local.motion = Still \/ local.timestamp <= local.motion
        BY <2>1, CleanReadIsSound DEF IInv, Sound
      <4>4. local.motion \in Nat /\ local.timestamp \in Nat
        BY <1>n, FieldsOf DEF Times
      <4> QED BY <1>n, <4>1, <4>2, <4>3, <4>4
    <3> QED BY <3>1, <3>2
  <2> QED BY <1>0, <2>1, <2>2 DEF AgeInv
<1>5. CASE FailedRead
  <2>1. local'.motion = Still
    BY <1>5, <1>n DEF FailedRead, Command
  <2> QED BY <1>0, <1>5, <2>1 DEF FailedRead, AgeInv
<1>6. CASE BeginPublish
  BY <1>0, <1>6 DEF BeginPublish, AgeInv
<1>7. CASE EndPublish
  BY <1>0, <1>7 DEF EndPublish, AgeInv
<1>8. CASE RobotdExit \/ RobotdKilled
  BY <1>8 DEF RobotdExit, RobotdKilled, RobotdGone
<1>9. CASE BridgeStep \/ BridgeGone
  <2>1. UNCHANGED <<rpc, local, start, acting>> /\ ~broken
    BY <1>9, BridgeKeepsRobotd
  <2> QED BY <1>0, <2>1 DEF AgeInv
<1>10. CASE Tick \/ UNCHANGED vars
  <2>1. UNCHANGED <<rpc, local, start, acting, broken>>
    BY <1>10 DEF Tick, vars
  <2> QED BY <1>0, <2>1 DEF AgeInv
<1> QED
  BY <1>1, <1>2, <1>3, <1>4, <1>5, <1>6, <1>7, <1>8, <1>9, <1>10
     DEF Next, RobotdLoop, ReadStep

\* Neither process loses a tick where it holds the other up (robotd.service
\* gives robotd a core of its own under SCHED_FIFO; the bridge is only niced,
\* and the bound below is lost with this assumption).
BothPunctual == {"robotd", "bridge"} \subseteq Punctual

LEMMA TimeStep ==
  BothPunctual /\ IInv /\ [Next]_vars => TimeInv'
<1> SUFFICES ASSUME BothPunctual, IInv, [Next]_vars, ~broken', start' # 0
             PROVE  now' <= start' + LoopPeriod
  BY DEF TimeInv
<1> USE DEF clockVars, segVars, robotdVars, bridgeVars
<1>0. TypeOK /\ LinkInv /\ SegmentInv /\ TimeInv
  BY DEF IInv
<1>n. now \in Nat /\ start \in Nat /\ LoopPeriod \in Nat
  BY <1>0, PeriodAssumption DEF TypeOK, Times
<1>1. CASE RobotdStart
  BY <1>0, <1>1 DEF RobotdStart, LinkInv
<1>2. CASE BeginLoop
  BY <1>n, <1>2 DEF BeginLoop
<1>3. CASE ReadStep \/ BeginPublish \/ EndPublish
  <2>1. UNCHANGED <<now, start, broken>>
    BY <1>3 DEF ReadStep, LoadS1, CopyOut, Retry, ValidRead, FailedRead, BeginPublish,
                EndPublish
  <2> QED BY <1>0, <2>1 DEF TimeInv
<1>4. CASE RobotdExit \/ RobotdKilled
  BY <1>4 DEF RobotdExit, RobotdKilled, RobotdGone
<1>5. CASE BridgeStep \/ BridgeGone
  <2>1. UNCHANGED <<now, start>> /\ ~broken
    BY <1>5, BridgeKeepsRobotd
  <2> QED BY <1>0, <2>1 DEF TimeInv
<1>6. CASE Tick
  <2>1. /\ ~broken /\ start # 0 /\ start' = start /\ now' = now + 1
        /\ bpc # "copy" /\ (rpc = "down" \/ Spinning \/ now < start + LoopPeriod)
    BY <1>6 DEF Tick, BothPunctual
  <2>2. ~Spinning
    <3>1. SUFFICES ASSUME rpc = "load", odd PROVE FALSE
      BY DEF Spinning
    <3>2. linked
      BY <1>0, <3>1 DEF LinkInv
    <3> QED BY <1>0, <2>1, <3>1, <3>2 DEF SegmentInv, Writing
  <2>3. rpc # "down"
    BY <1>0, <2>1 DEF LinkInv
  <2> QED BY <1>n, <2>1, <2>2, <2>3
<1>7. CASE UNCHANGED vars
  BY <1>0, <1>7 DEF vars, TimeInv
<1> QED
  BY <1>1, <1>2, <1>3, <1>4, <1>5, <1>6, <1>7 DEF Next, RobotdLoop

LEMMA Invariance == ASSUME BothPunctual PROVE Spec => []IInv
<1>1. IInv /\ [Next]_vars => IInv'
  BY TypeStep, LinkStep, StampStep, SegmentStep, ReadInvStep, AgeStep, TimeStep DEF IInv
<1> QED BY <1>1, InitInv, PTL DEF Spec
-----------------------------------------------------------------------------

\* Every variable keeps its type, however robotd and the bridge are scheduled,
\* killed and restarted.
THEOREM TypeCorrect == Spec => []TypeOK
<1>1. Init => TypeOK
  BY InitInv DEF IInv
<1> QED BY <1>1, TypeStep, PTL DEF Spec

\* The watchdog works (robotd_main.cpp 59): while no bridge has died inside
\* write(), what the robot does was asked for at most one timeout and two loop
\* periods ago, although the payload is copied in pieces while it is written,
\* robotd may clear the segment under the bridge's hands, and either may be
\* killed at any instruction.
THEOREM WatchdogStopsTheRobot == ASSUME BothPunctual PROVE Spec => []FreshUnlessBroken
<1>1. IInv => FreshUnlessBroken
  <2> SUFFICES ASSUME IInv, ~broken PROVE Fresh
    BY DEF FreshUnlessBroken
  <2>1. /\ now \in Nat /\ start \in Nat /\ acting \in Nat /\ Timeout \in Nat
        /\ LoopPeriod \in Nat
    BY PeriodAssumption DEF IInv, TypeOK, Times
  <2>2. acting = Still \/ (acting + Timeout + LoopPeriod >= start /\ start # 0)
    BY <2>1 DEF IInv, AgeInv, LinkInv
  <2>3. start # 0 => now <= start + LoopPeriod
    BY DEF IInv, TimeInv
  <2>4. CASE acting = Still
    BY <2>1, <2>4 DEF Fresh, Age
  <2>5. CASE acting # Still
    BY <2>1, <2>2, <2>3, <2>5 DEF Fresh, Age
  <2> QED BY <2>4, <2>5
<1> QED BY <1>1, Invariance, PTL
=============================================================================
