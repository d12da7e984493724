---------------------------- MODULE SensorProofs ----------------------------
(* What the sensor filters keep in the world state, and the frame in which *)
(* the programs of Simulations run: the windows and their majorities, the  *)
(* loop counters and the past, and each method of WorldState.              *)
EXTENDS BrainProofs

-----------------------------------------------------------------------------
(* Windows *)

Windows == UNION {[1 .. n -> BOOLEAN] : n \in 0 .. Window}

\* A window is a sequence of at most Window samples.
LEMMA WindowIs ==
  ASSUME NEW w
  PROVE  w \in Windows <=> (w \in Seq(BOOLEAN) /\ Len(w) <= Window)
<1>1. ASSUME w \in Windows PROVE w \in Seq(BOOLEAN) /\ Len(w) <= Window
  <2>1. PICK n \in 0 .. Window : w \in [1 .. n -> BOOLEAN]
    BY <1>1 DEF Windows
  <2>2. n \in Nat /\ n <= Window
    BY <2>1, WindowAssumption
  <2> QED BY <2>1, <2>2
<1>2. ASSUME w \in Seq(BOOLEAN), Len(w) <= Window PROVE w \in Windows
  <2>1. Len(w) \in 0 .. Window /\ w \in [1 .. Len(w) -> BOOLEAN]
    BY <1>2, WindowAssumption
  <2> QED BY <2>1 DEF Windows
<1> QED BY <1>1, <1>2

\* A deque with maxlen: the new sample is last, the others move one place.
LEMMA SlideIs ==
  ASSUME NEW w \in Windows, NEW sample \in BOOLEAN
  PROVE  /\ Slide(w, sample) \in Windows
         /\ Len(Slide(w, sample)) = IF Len(w) < Window THEN Len(w) + 1 ELSE Window
         /\ Slide(w, sample)[Len(Slide(w, sample))] = sample
         /\ \A k \in 1 .. Len(Slide(w, sample)) - 1 :
              Slide(w, sample)[Len(Slide(w, sample)) - k] = w[Len(w) - k + 1]
<1>1. w \in Seq(BOOLEAN) /\ Len(w) <= Window /\ Len(w) \in Nat /\ Window \in Nat \ {0}
  BY WindowIs, WindowAssumption
<1>2. CASE Len(w) < Window
  <2>1. Slide(w, sample) = Append(w, sample)
    BY <1>2 DEF Slide
  <2>2. Append(w, sample) \in Seq(BOOLEAN) /\ Len(Append(w, sample)) = Len(w) + 1
    BY <1>1
  <2>3. Append(w, sample) \in Windows
    <3>1. Len(Append(w, sample)) <= Window
      BY <1>1, <1>2, <2>2
    <3> QED BY <2>2, <3>1, WindowIs
  <2>4. \A i \in 1 .. Len(w) : Append(w, sample)[i] = w[i]
    BY <1>1
  <2>5. Append(w, sample)[Len(w) + 1] = sample
    BY <1>1
  <2> QED BY <1>1, <1>2, <2>1, <2>2, <2>3, <2>4, <2>5
<1>3. CASE Len(w) = Window
  <2> DEFINE u == Tail(w)
  <2>1. u \in Seq(BOOLEAN) /\ Len(u) = Len(w) - 1 /\ \A i \in 1 .. Len(w) - 1 : u[i] = w[i + 1]
    BY <1>1, <1>3
  <2> HIDE DEF u
  <2>2. Slide(w, sample) = Append(u, sample)
    BY <1>3 DEF Slide, u
  <2>3. Append(u, sample) \in Seq(BOOLEAN) /\ Len(Append(u, sample)) = Len(w)
    BY <1>1, <2>1
  <2>4. Append(u, sample) \in Windows
    BY <1>1, <2>3, WindowIs
  <2>5. \A i \in 1 .. Len(w) - 1 : Append(u, sample)[i] = u[i]
    BY <1>1, <2>1
  <2>6. Append(u, sample)[Len(w)] = sample
    BY <1>1, <2>1
  <2> QED BY <1>1, <1>3, <2>1, <2>2, <2>3, <2>4, <2>5, <2>6
<1> QED BY <1>1, <1>2, <1>3

\* A majority is a truth value.
LEMMA MajorityType == ASSUME NEW w \in Windows PROVE Majority(w) \in BOOLEAN
BY DEF Majority

\* At least four fifths ...
LEMMA MajorityOf ==
  ASSUME NEW w \in Windows, Window <= 5
  PROVE  /\ (Len(w) >= 4 /\ \A k \in 0 .. 3 : w[Len(w) - k]) => Majority(w)
         /\ (Len(w) >= 2 /\ \A k \in 0 .. 1 : ~w[Len(w) - k]) => ~Majority(w)
<1> DEFINE trues == {i \in DOMAIN w : w[i]}
<1>0. w \in Seq(BOOLEAN) /\ Len(w) <= Window
  BY WindowIs
<1>1. Len(w) \in Nat /\ Len(w) <= 5 /\ DOMAIN w = 1 .. Len(w)
  <2>1. Len(w) \in Nat /\ DOMAIN w = 1 .. Len(w)
    BY <1>0
  <2> QED BY <1>0, <2>1, WindowAssumption
<1>2. IsFiniteSet(trues) /\ Cardinality(trues) \in Nat
  <2>1. trues \subseteq 1 .. Len(w)
    BY <1>1
  <2>2. IsFiniteSet(1 .. Len(w))
    BY <1>1, FS_Interval
  <2>3. IsFiniteSet(trues)
    BY <2>1, <2>2, FS_Subset
  <2> QED BY <2>3, FS_CardinalityType
<1>n. PICK n \in 0 .. 5 : n = Len(w)
  BY <1>1
<1>3. ASSUME n >= 4, \A k \in 0 .. 3 : w[n - k] PROVE Majority(w)
  <2>1. (n - 3) .. n \subseteq trues
    <3>1. ASSUME NEW i \in (n - 3) .. n PROVE i \in trues
      <4>1. n - i \in 0 .. 3 /\ i = n - (n - i) /\ i \in 1 .. n
        BY <1>3
      <4> QED BY <1>1, <1>n, <1>3, <4>1
    <3> QED BY <3>1
  <2>2. Cardinality((n - 3) .. n) = 4
    BY FS_Interval
  <2>3. Cardinality(trues) >= 4
    BY <1>2, <2>1, <2>2, FS_Subset
  <2> HIDE DEF trues
  <2>4. 10 * Cardinality(trues) >= 8 * n
    BY <1>2, <2>3
  <2> QED BY <1>n, <2>4 DEF Majority, trues
<1>4. ASSUME n >= 2, \A k \in 0 .. 1 : ~w[n - k] PROVE ~Majority(w)
  <2>1. trues \subseteq 1 .. (n - 2)
    <3>1. ASSUME NEW i \in 1 .. n, i >= n - 1 PROVE ~w[i]
      <4>1. n - i \in 0 .. 1 /\ i = n - (n - i)
        BY <3>1
      <4> QED BY <1>4, <4>1
    <3> QED BY <1>1, <1>n, <3>1
  <2>2. IsFiniteSet(1 .. (n - 2)) /\ Cardinality(1 .. (n - 2)) = n - 2
    <3>1. 1 \in Int /\ n - 2 \in Int
      OBVIOUS
    <3>2. IsFiniteSet(1 .. (n - 2)) /\ Cardinality(1 .. (n - 2)) = IF 1 > n - 2 THEN 0 ELSE (n - 2) - 1 + 1
      BY <3>1, FS_Interval
    <3> QED BY <1>4, <3>2
  <2>3. Cardinality(trues) <= n - 2
    BY <2>1, <2>2, FS_Subset
  <2> QED BY <1>n, <1>2, <2>3 DEF Majority
<1> QED BY <1>n, <1>3, <1>4

-----------------------------------------------------------------------------
(* The frame: what every program keeps in its place *)

Phases == {"SEARCH", "APPROACH", "PICKUP", "COMPLETE", "LYING", "HELD", "DROPPED", "COLLECT",
           "ROLLOUT"}

Loops ==
  [step : Nat, pickup : Nat, pushes : Nat, done : Seq(SUBSET (1 .. NumEnvs)), iteration : Nat,
   phase : Phases]

Pasts ==
  [volts : Int, near : 0 .. Window, far : 0 .. Window, fast : 0 .. MaxTrim, beat : 0 .. 1,
   episode : [1 .. NumEnvs -> 0 .. 1]]

FrameInv ==
  /\ program \in Programs /\ running \in BOOLEAN
  /\ DOMAIN envs = 1 .. NumEnvs
  /\ past \in Pasts
  /\ program # "rig" => loop \in Loops

\* A new value in a field keeps a record of the kind.
LEMMA LoopsWith ==
  ASSUME NEW l \in Loops
  PROVE  /\ l.step \in Nat /\ l.pushes \in Nat /\ l.iteration \in Nat /\ l.phase \in Phases
         /\ l.done \in Seq(SUBSET (1 .. NumEnvs))
         /\ \A s \in Nat : [l EXCEPT !.step = s] \in Loops
         /\ \A s, p \in Nat : [l EXCEPT !.step = s, !.pushes = p] \in Loops
         /\ \A n \in Nat : [l EXCEPT !.step = 0, !.pushes = 0, !.iteration = n] \in Loops
         /\ \A s \in Nat, phase \in Phases : [l EXCEPT !.step = s, !.phase = phase] \in Loops
         /\ [l EXCEPT !.phase = "ROLLOUT", !.step = 0, !.done = <<>>] \in Loops
         /\ \A s \in Nat, done \in Seq(SUBSET (1 .. NumEnvs)) :
              [l EXCEPT !.step = s, !.done = done] \in Loops
         /\ \A n \in Nat : [l EXCEPT !.phase = "COLLECT", !.iteration = n] \in Loops
<1>1. <<>> \in Seq(SUBSET (1 .. NumEnvs))
  OBVIOUS
<1> QED BY <1>1 DEF Loops, Phases

\* A new value in a field keeps the past of the kind.
LEMMA PastsWith ==
  ASSUME NEW p \in Pasts
  PROVE  /\ p.near \in 0 .. Window /\ p.far \in 0 .. Window
         /\ p.episode \in [1 .. NumEnvs -> 0 .. 1]
         /\ \A volts \in Int : [p EXCEPT !.volts = volts] \in Pasts
         /\ \A near, far \in 0 .. Window : /\ [p EXCEPT !.near = near, !.far = far] \in Pasts
                                          /\ [p EXCEPT !.far = far, !.near = near] \in Pasts
         /\ \A episode \in [1 .. NumEnvs -> 0 .. 1] : [p EXCEPT !.episode = episode] \in Pasts
BY DEF Pasts

\* A phase of the evaluation keeps the loop of the kind.
LEMMA EvalLoop ==
  ASSUME NEW l \in Loops, NEW w, NEW tilt
  PROVE  EvalPhase(l, w, tilt)[1] \in Loops
<1> DEFINE pushed == IF l.step = 50 THEN [l EXCEPT !.pushes = @ + 1] ELSE l
<1>1. pushed \in Loops
  BY DEF Loops
<1>2. pushed.step = l.step
  BY DEF Loops
<1>3. [pushed EXCEPT !.phase = "PICKUP", !.pickup = l.step] \in Loops
  <2> HIDE DEF pushed
  <2> QED BY <1>1 DEF Loops, Phases
<1>4. [l EXCEPT !.phase = "APPROACH"] \in Loops /\ [l EXCEPT !.phase = "COMPLETE"] \in Loops
  BY DEF Loops, Phases
<1>5. EvalPhase(l, w, tilt)[1] \in
        {l, pushed, [pushed EXCEPT !.phase = "PICKUP", !.pickup = l.step],
         [l EXCEPT !.phase = "APPROACH"], [l EXCEPT !.phase = "COMPLETE"]}
  BY DEF EvalPhase
<1> HIDE DEF pushed
<1> QED BY <1>1, <1>3, <1>4, <1>5

\* Every step keeps the frame.
LEMMA FrameStep == FrameInv /\ [Next]_vars => FrameInv'
<1> SUFFICES ASSUME FrameInv, [Next]_vars PROVE FrameInv'
  OBVIOUS
<1> USE DEF FrameInv
<1>0. program' = program
  BY Movers
<1>1. CASE TelemetryFrame
  BY <1>0, <1>1 DEF TelemetryFrame, Pasts, RobotFrames
<1>2. CASE DepthFrame
  <2>1. PICK depths \in SUBSET {0, 250, 300} :
          past' \in {[past EXCEPT !.near = IF @ < Window THEN @ + 1 ELSE @, !.far = 0], past,
                     [past EXCEPT !.far = IF @ < Window THEN @ + 1 ELSE @, !.near = 0]}
    BY <1>2, SMTT(30) DEF DepthFrame
  <2>2. past' \in Pasts
    <3>1. \A n \in 0 .. Window : (IF n < Window THEN n + 1 ELSE n) \in 0 .. Window
      BY WindowAssumption
    <3>2. 0 \in 0 .. Window
      BY WindowAssumption
    <3>3. past.near \in 0 .. Window /\ past.far \in 0 .. Window
      BY DEF Pasts
    <3>4. \/ past' = [past EXCEPT !.near = IF past.near < Window THEN past.near + 1 ELSE past.near, !.far = 0]
          \/ past' = past
          \/ past' = [past EXCEPT !.far = IF past.far < Window THEN past.far + 1 ELSE past.far, !.near = 0]
      BY <2>1 DEF Pasts
    <3>5. /\ (IF past.near < Window THEN past.near + 1 ELSE past.near) \in 0 .. Window
          /\ (IF past.far < Window THEN past.far + 1 ELSE past.far) \in 0 .. Window
      BY <3>1, <3>3
    <3>6. PICK up \in 0 .. Window, on \in 0 .. Window :
            /\ up = IF past.near < Window THEN past.near + 1 ELSE past.near
            /\ on = IF past.far < Window THEN past.far + 1 ELSE past.far
      BY <3>5
    <3>7. \/ past' = [past EXCEPT !.near = up, !.far = 0]
          \/ past' = past
          \/ past' = [past EXCEPT !.far = on, !.near = 0]
      BY <3>4, <3>6
    <3>8. /\ [past EXCEPT !.near = up, !.far = 0] \in Pasts
          /\ [past EXCEPT !.far = on, !.near = 0] \in Pasts
      BY <3>2, PastsWith, ZenonT(30)
    <3> QED BY <3>7, <3>8
  <2> QED BY <1>0, <1>2, <2>2 DEF DepthFrame
<1>3. CASE \/ ImuVariance \/ TrackFrame \/ SetTarget \/ ServoTick \/ PlannerTick \/ PlannerAbort
  BY <1>0, <1>3 DEF ImuVariance, TrackFrame, SetTarget, ServoTick, PlannerTick, PlannerAbort
<1>4. CASE DemoTick \/ RoutineTick
  BY <1>0, <1>4 DEF DemoTick, RoutineTick, Beat, Pasts
<1>5. CASE Preempt
  BY <1>0, <1>5 DEF Preempt, Loops
<1>6. CASE RigStep \/ RigInterrupted \/ RigHears
  BY <1>0, <1>6 DEF RigStep, RigInterrupted, RigHears
<1>7. CASE MuJoCoTick
  BY <1>0, <1>7 DEF MuJoCoTick, Loops
<1>8. CASE EvalTick
  <2>1. loop' \in Loops
    <3>1. PICK l \in Loops : loop' = [l EXCEPT !.step = @ + 1]
      BY <1>8, EvalLoop DEF EvalTick
    <3> QED BY <3>1 DEF Loops
  <2> QED BY <1>0, <1>8, <2>1 DEF EvalTick
<1>9. CASE EnvelopeTick
  <2>1. loop \in Loops
    BY <1>9 DEF EnvelopeTick
  <2>2. PICK here \in Loops : loop' = here \/ loop' = [here EXCEPT !.step = 0, !.pushes = 0, !.iteration = @ + 1]
    <3>1. PICK n \in Nat : n = IF loop.step = 10 THEN loop.pushes + 1 ELSE loop.pushes
      BY <2>1 DEF Loops
    <3>2. [loop EXCEPT !.step = @ + 1, !.pushes = IF loop.step = 10 THEN @ + 1 ELSE @]
            = [loop EXCEPT !.step = @ + 1, !.pushes = n]
      BY <2>1, <3>1 DEF Loops
    <3>3. [loop EXCEPT !.step = @ + 1, !.pushes = n] \in Loops
      <4>1. loop.step + 1 \in Nat
        BY <2>1 DEF Loops
      <4> QED BY <2>1, <4>1 DEF Loops
    <3> QED BY <1>9, <3>2, <3>3, ZenonT(30) DEF EnvelopeTick
  <2>3. loop' \in Loops
    <3>1. here.iteration + 1 \in Nat
      BY DEF Loops
    <3>2. [here EXCEPT !.step = 0, !.pushes = 0, !.iteration = @ + 1]
            = [here EXCEPT !.step = 0, !.pushes = 0, !.iteration = here.iteration + 1]
      BY DEF Loops
    <3>3. [here EXCEPT !.step = 0, !.pushes = 0, !.iteration = here.iteration + 1] \in Loops
      BY <3>1, LoopsWith
    <3> QED BY <2>2, <3>2, <3>3
  <2>4. past' \in Pasts
    <3>1. past' = past \/ past' = [past EXCEPT !.episode[1] = 1 - past.episode[1]]
      BY <1>9 DEF EnvelopeTick, Pasts
    <3>2. past.episode[1] \in 0 .. 1
      BY BrainAssumption DEF Pasts
    <3>3. 1 - past.episode[1] \in 0 .. 1
      BY <3>2
    <3>4. [past.episode EXCEPT ![1] = 1 - past.episode[1]] \in [1 .. NumEnvs -> 0 .. 1]
      BY <3>3, PastsWith
    <3>5. [past EXCEPT !.episode[1] = 1 - past.episode[1]]
            = [past EXCEPT !.episode = [past.episode EXCEPT ![1] = 1 - past.episode[1]]]
      BY DEF Pasts
    <3> QED BY <3>1, <3>4, <3>5, PastsWith, ZenonT(30)
  <2>5. DOMAIN envs' = DOMAIN envs /\ running' \in BOOLEAN
    BY <1>9 DEF EnvelopeTick
  <2> QED BY <1>0, <2>3, <2>4, <2>5
<1>10. CASE VideoTick
  <2>1. loop \in Loops
    BY <1>10 DEF VideoTick
  <2>2. MarkerAfter(loop.phase, loop.step) \in Phases /\ loop.step + 1 \in Nat
    BY <2>1 DEF Loops, MarkerAfter, Phases
  <2>3. loop' = [loop EXCEPT !.step = loop.step + 1, !.phase = MarkerAfter(loop.phase, loop.step)]
    BY <1>10, <2>1 DEF VideoTick, Loops
  <2>4. loop' \in Loops
    BY <2>1, <2>2, <2>3, LoopsWith
  <2>5. DOMAIN envs' = DOMAIN envs /\ running' \in BOOLEAN /\ past' = past
    BY <1>10 DEF VideoTick
  <2> QED BY <1>0, <2>4, <2>5
<1>11. CASE CollectRollouts
  <2>1. loop' \in Loops
    <3>1. loop \in Loops /\ loop' = [loop EXCEPT !.phase = "ROLLOUT", !.step = 0, !.done = <<>>]
      BY <1>11 DEF CollectRollouts
    <3>2. <<>> \in Seq(SUBSET (1 .. NumEnvs))
      OBVIOUS
    <3> QED BY <3>1, <3>2 DEF Loops, Phases
  <2>2. past' \in Pasts
    <3>1. past' = [past EXCEPT !.episode = [i \in DOMAIN envs |-> 1 - past.episode[i]]]
      BY <1>11 DEF CollectRollouts, Pasts
    <3>2. [i \in DOMAIN envs |-> 1 - past.episode[i]] \in [1 .. NumEnvs -> 0 .. 1]
      <4>1. \A k \in 0 .. 1 : 1 - k \in 0 .. 1
        OBVIOUS
      <4> QED BY <4>1 DEF Pasts
    <3> QED BY <3>1, <3>2 DEF Pasts
  <2> QED BY <1>0, <1>11, <2>1, <2>2 DEF CollectRollouts
<1>12. CASE RolloutStep
  <2>1. PICK done \in SUBSET (1 .. NumEnvs) :
          /\ past' = [past EXCEPT !.episode =
                        [i \in DOMAIN envs |-> IF i \in done THEN 1 - @[i] ELSE @[i]]]
          /\ loop' = [loop EXCEPT !.step = @ + 1, !.done = Append(@, done)]
    BY <1>12 DEF RolloutStep
  <2>2. loop \in Loops
    BY <1>12 DEF RolloutStep
  <2>3. loop' \in Loops
    <3>1. Append(loop.done, done) \in Seq(SUBSET (1 .. NumEnvs))
      BY <2>2 DEF Loops
    <3>2. loop' = [loop EXCEPT !.step = @ + 1, !.done = Append(loop.done, done)]
      BY <2>1, <2>2 DEF Loops
    <3>3. loop.step + 1 \in Nat
      BY <2>2 DEF Loops
    <3> QED BY <2>2, <3>1, <3>2, <3>3, LoopsWith
  <2>4. past' \in Pasts
    <3>1. [i \in DOMAIN envs |-> IF i \in done THEN 1 - past.episode[i] ELSE past.episode[i]]
            \in [1 .. NumEnvs -> 0 .. 1]
      <4>1. \A k \in 0 .. 1 : 1 - k \in 0 .. 1
        OBVIOUS
      <4> QED BY <4>1 DEF Pasts
    <3>2. past' = [past EXCEPT !.episode =
                     [i \in DOMAIN envs |-> IF i \in done THEN 1 - past.episode[i] ELSE past.episode[i]]]
      BY <2>1 DEF Pasts
    <3> QED BY <3>1, <3>2 DEF Pasts
  <2>5. DOMAIN envs' = DOMAIN envs /\ running' = running
    BY <1>12 DEF RolloutStep
  <2> QED BY <1>0, <2>3, <2>4, <2>5
<1>13. CASE Update
  <2>1. loop \in Loops
    BY <1>13 DEF Update
  <2>2. PICK n \in Nat : loop' = [loop EXCEPT !.phase = "COLLECT", !.iteration = n]
    <3>1. (IF loop.iteration < Iterations THEN loop.iteration + 1 ELSE loop.iteration) \in Nat
      BY <2>1 DEF Loops
    <3>2. loop' = [loop EXCEPT !.phase = "COLLECT", !.iteration =
                     IF loop.iteration < Iterations THEN loop.iteration + 1 ELSE loop.iteration]
      BY <1>13, <2>1 DEF Update, Loops
    <3> QED BY <3>1, <3>2
  <2>3. loop' \in Loops
    BY <2>1, <2>2 DEF Loops, Phases
  <2> QED BY <1>0, <1>13, <2>3 DEF Update
<1>14. CASE Command
  <2>1. past' \in Pasts
    BY <1>14, LocomotionAssumption, SMTT(30) DEF Command, Pasts
  <2> QED BY <1>0, <1>14, <2>1 DEF Command
<1>15. CASE UNCHANGED vars
  BY <1>15 DEF vars
<1> QED
  BY <1>1, <1>2, <1>3, <1>4, <1>5, <1>6, <1>7, <1>8, <1>9, <1>10, <1>11, <1>12, <1>13, <1>14, <1>15
     DEF Next, BrainNext, SimulationNext

\* Every program starts within the frame.
LEMMA FrameInit == Init => FrameInv
<1> SUFFICES ASSUME Init PROVE FrameInv
  OBVIOUS
<1>1. past \in Pasts
  BY WindowAssumption, LocomotionAssumption DEF Init, NewPast, Pasts
<1>2. program # "rig" => loop \in Loops
  <2>1. <<>> \in Seq(SUBSET (1 .. NumEnvs))
    OBVIOUS
  <2> QED BY <2>1 DEF Init, NewLoop, Loops, Phases
<1> QED BY <1>1, <1>2 DEF Init, FrameInv

\* Which action may change what of the history
LEMMA PastMovers ==
  ASSUME FrameInv, [Next]_vars
  PROVE  /\ TelemetryFrame \/ past'.volts = past.volts
         /\ DepthFrame \/ (past'.near = past.near /\ past'.far = past.far)
         /\ Command \/ past'.fast = past.fast
         /\ EnvelopeTick \/ CollectRollouts \/ RolloutStep \/ past'.episode = past.episode
<1> USE DEF FrameInv
<1>1. CASE TelemetryFrame
  BY <1>1 DEF TelemetryFrame, Pasts
<1>2. CASE DepthFrame
  <2>1. \E n, f : \/ past' = [past EXCEPT !.near = n, !.far = f] \/ past' = past
                  \/ past' = [past EXCEPT !.far = f, !.near = n]
    BY <1>2, ZenonT(30) DEF DepthFrame
  <2> QED BY <1>2, <2>1 DEF Pasts
<1>3. CASE \/ ImuVariance \/ TrackFrame \/ SetTarget \/ ServoTick \/ Preempt \/ PlannerTick
           \/ PlannerAbort \/ RigStep \/ RigInterrupted \/ RigHears
  BY <1>3 DEF ImuVariance, TrackFrame, SetTarget, ServoTick, Preempt, PlannerTick, PlannerAbort,
     RigStep, RigInterrupted, RigHears
<1>4. CASE DemoTick \/ RoutineTick
  BY <1>4 DEF DemoTick, RoutineTick, Beat, Pasts
<1>5. CASE MuJoCoTick \/ EvalTick \/ VideoTick \/ Update \/ UNCHANGED vars
  BY <1>5 DEF MuJoCoTick, EvalTick, VideoTick, Update, vars
<1>6. CASE EnvelopeTick
  <2>1. past' = past \/ past' = [past EXCEPT !.episode[1] = 1 - past.episode[1]]
    BY <1>6 DEF EnvelopeTick, Pasts
  <2>2. [past EXCEPT !.episode[1] = 1 - past.episode[1]]
          = [past EXCEPT !.episode = [past.episode EXCEPT ![1] = 1 - past.episode[1]]]
    BY DEF Pasts
  <2>3. past' = past \/ \E x : past' = [past EXCEPT !.episode = x]
    BY <2>1, <2>2
  <2> QED BY <1>6, <2>3 DEF Pasts
<1>7. CASE CollectRollouts \/ RolloutStep
  <2>1. \E x : past' = [past EXCEPT !.episode = x]
    BY <1>7 DEF CollectRollouts, RolloutStep
  <2> QED BY <1>7, <2>1 DEF Pasts
<1>8. CASE Command
  <2>1. \E x : past' = past \/ past' = [past EXCEPT !.fast = x]
    BY <1>8 DEF Command
  <2> QED BY <1>8, <2>1 DEF Pasts
<1>9. CASE BrainNext
  BY <1>1, <1>2, <1>3, <1>4, <1>9 DEF BrainNext
<1>10. CASE SimulationNext
  BY <1>5, <1>6, <1>7, <1>8, <1>10 DEF SimulationNext
<1> QED BY <1>5, <1>9, <1>10 DEF Next

-----------------------------------------------------------------------------
(* The sensor filters *)

\* A state of the sensors with the battery and the obstacle of another one
Aside(w, v) ==
  /\ v \in WorldStates
  /\ v.obstacles = w.obstacles /\ v.obstacle_close = w.obstacle_close
  /\ v.battery = w.battery /\ v.is_brownout_risk = w.is_brownout_risk

\* The fields of a world state.
LEMMA WorldStatesAre ==
  WorldStates =
    [stability : Levels, roughness : Levels, battery : {"LOW", "HIGH"},
     balls : Windows, obstacles : Windows,
     ball_visible : BOOLEAN, obstacle_close : BOOLEAN, is_brownout_risk : BOOLEAN,
     is_fallen : BOOLEAN, is_limp : BOOLEAN, is_near_fall : BOOLEAN,
     forward_clearance : Nat, target_locked : BOOLEAN, visual : 0 .. 1 \union {None}]
BY DEF WorldStates, Windows

\* update_orientation leaves battery and obstacles alone.
LEMMA OrientationIs ==
  ASSUME NEW w \in WorldStates, NEW tilt \in Int PROVE Aside(w, UpdateOrientation(w, tilt))
<1>1. \A b \in BOOLEAN, level \in Levels :
        Aside(w, [w EXCEPT !.is_near_fall = b, !.stability = level])
  BY DEF Aside, WorldStates
<1> DEFINE b == tilt >= 44
<1>2. b \in BOOLEAN
  OBVIOUS
<1>3. PICK level \in Levels : level = MultiLevel(w.stability, IF tilt > 100 THEN 0 ELSE 100 - tilt)
  <2>1. w.stability \in Levels
    BY DEF WorldStates
  <2> QED BY <2>1 DEF MultiLevel, Levels
<1>4. UpdateOrientation(w, tilt) = [w EXCEPT !.is_near_fall = b, !.stability = level]
  BY <1>3 DEF UpdateOrientation, WorldStates
<1> HIDE DEF b
<1> QED BY <1>1, <1>2, <1>4

\* update_roughness leaves battery and obstacles alone.
LEMMA RoughnessIs ==
  ASSUME NEW w \in WorldStates, NEW variance \in Int PROVE Aside(w, UpdateRoughness(w, variance))
<1>1. MultiLevel(w.roughness, variance) \in Levels
  BY DEF MultiLevel, Levels, WorldStates
<1> QED BY <1>1 DEF UpdateRoughness, Aside, WorldStates

\* update_ball_visible leaves battery and obstacles alone.
LEMMA BallIs ==
  ASSUME NEW w \in WorldStates, NEW raw \in BOOLEAN PROVE Aside(w, UpdateBallVisible(w, raw))
<1>1. \A u \in Windows, b \in BOOLEAN : Aside(w, [w EXCEPT !.balls = u, !.ball_visible = b])
  BY WorldStatesAre DEF Aside
<1>2. w.balls \in Windows
  BY WorldStatesAre
<1>3. PICK u \in Windows : u = Slide(w.balls, raw)
  BY <1>2, SlideIs
<1>4. PICK b \in BOOLEAN : b = Majority(u)
  BY MajorityType
<1> QED BY <1>1, <1>3, <1>4 DEF UpdateBallVisible

\* update_obstacle_close slides its window and takes the majority.
LEMMA ObstacleIs ==
  ASSUME NEW w \in WorldStates, NEW raw \in BOOLEAN
  PROVE  /\ UpdateObstacleClose(w, raw) \in WorldStates
         /\ UpdateObstacleClose(w, raw).battery = w.battery
         /\ UpdateObstacleClose(w, raw).is_brownout_risk = w.is_brownout_risk
         /\ UpdateObstacleClose(w, raw).obstacles = Slide(w.obstacles, raw)
         /\ UpdateObstacleClose(w, raw).obstacle_close = Majority(Slide(w.obstacles, raw))
<1>1. \A u \in Windows, b \in BOOLEAN :
        /\ [w EXCEPT !.obstacles = u, !.obstacle_close = b] \in WorldStates
        /\ [w EXCEPT !.obstacles = u, !.obstacle_close = b].battery = w.battery
        /\ [w EXCEPT !.obstacles = u, !.obstacle_close = b].is_brownout_risk = w.is_brownout_risk
        /\ [w EXCEPT !.obstacles = u, !.obstacle_close = b].obstacles = u
        /\ [w EXCEPT !.obstacles = u, !.obstacle_close = b].obstacle_close = b
  BY WorldStatesAre
<1>2. w.obstacles \in Windows
  BY WorldStatesAre
<1> DEFINE u == Slide(w.obstacles, raw)
           b == Majority(u)
<1>3. u \in Windows
  BY <1>2, SlideIs
<1>4. b \in BOOLEAN
  BY <1>3, MajorityType
<1>5. UpdateObstacleClose(w, raw) = [w EXCEPT !.obstacles = u, !.obstacle_close = b]
  BY DEF UpdateObstacleClose
<1>6. b = Majority(u)
  OBVIOUS
<1> HIDE DEF b, u
<1>7. /\ [w EXCEPT !.obstacles = u, !.obstacle_close = b] \in WorldStates
      /\ [w EXCEPT !.obstacles = u, !.obstacle_close = b].battery = w.battery
      /\ [w EXCEPT !.obstacles = u, !.obstacle_close = b].is_brownout_risk = w.is_brownout_risk
      /\ [w EXCEPT !.obstacles = u, !.obstacle_close = b].obstacles = u
      /\ [w EXCEPT !.obstacles = u, !.obstacle_close = b].obstacle_close = b
  BY <1>1, <1>3, <1>4, Zenon
<1>8. /\ UpdateObstacleClose(w, raw) \in WorldStates
      /\ UpdateObstacleClose(w, raw).battery = w.battery
      /\ UpdateObstacleClose(w, raw).is_brownout_risk = w.is_brownout_risk
      /\ UpdateObstacleClose(w, raw).obstacles = u
      /\ UpdateObstacleClose(w, raw).obstacle_close = b
  BY <1>5, <1>7, Zenon
<1> QED BY <1>6, <1>8, Zenon DEF u

\* update_battery_voltage: the two thresholds of the hysteresis, and the risk
\* that goes with LOW.
LEMMA BatteryIs ==
  ASSUME NEW w \in WorldStates, NEW volts \in Int
  PROVE  /\ UpdateBatteryVoltage(w, volts) \in WorldStates
         /\ UpdateBatteryVoltage(w, volts).obstacles = w.obstacles
         /\ UpdateBatteryVoltage(w, volts).obstacle_close = w.obstacle_close
         /\ UpdateBatteryVoltage(w, volts).battery =
              IF volts >= 68 THEN "HIGH" ELSE IF volts <= 65 THEN "LOW" ELSE w.battery
         /\ UpdateBatteryVoltage(w, volts).is_brownout_risk
              = (UpdateBatteryVoltage(w, volts).battery = "LOW")
<1>1. \A state \in {"LOW", "HIGH"}, b \in BOOLEAN :
        /\ [w EXCEPT !.battery = state, !.is_brownout_risk = b] \in WorldStates
        /\ [w EXCEPT !.battery = state, !.is_brownout_risk = b].obstacles = w.obstacles
        /\ [w EXCEPT !.battery = state, !.is_brownout_risk = b].obstacle_close = w.obstacle_close
        /\ [w EXCEPT !.battery = state, !.is_brownout_risk = b].battery = state
        /\ [w EXCEPT !.battery = state, !.is_brownout_risk = b].is_brownout_risk = b
  BY DEF WorldStates
<1>2. Schmitt(w.battery, volts, 65, 68) =
        IF volts >= 68 THEN "HIGH" ELSE IF volts <= 65 THEN "LOW" ELSE w.battery
  BY DEF Schmitt, WorldStates
<1>3. PICK state \in {"LOW", "HIGH"} : state = Schmitt(w.battery, volts, 65, 68)
  BY <1>2 DEF WorldStates
<1> DEFINE b == state = "LOW"
<1>4. b \in BOOLEAN
  OBVIOUS
<1>5. UpdateBatteryVoltage(w, volts) = [w EXCEPT !.battery = state, !.is_brownout_risk = b]
  BY <1>3 DEF UpdateBatteryVoltage
<1> HIDE DEF b
<1>8. /\ [w EXCEPT !.battery = state, !.is_brownout_risk = b] \in WorldStates
      /\ [w EXCEPT !.battery = state, !.is_brownout_risk = b].obstacles = w.obstacles
      /\ [w EXCEPT !.battery = state, !.is_brownout_risk = b].obstacle_close = w.obstacle_close
      /\ [w EXCEPT !.battery = state, !.is_brownout_risk = b].battery = state
      /\ [w EXCEPT !.battery = state, !.is_brownout_risk = b].is_brownout_risk = b
  BY <1>1, <1>4, Zenon
<1>6. /\ UpdateBatteryVoltage(w, volts) \in WorldStates
      /\ UpdateBatteryVoltage(w, volts).obstacles = w.obstacles
      /\ UpdateBatteryVoltage(w, volts).obstacle_close = w.obstacle_close
      /\ UpdateBatteryVoltage(w, volts).battery = state
      /\ UpdateBatteryVoltage(w, volts).is_brownout_risk = b
  BY <1>5, <1>8, Zenon
<1>7. UpdateBatteryVoltage(w, volts).is_brownout_risk
        = (UpdateBatteryVoltage(w, volts).battery = "LOW")
  BY <1>6 DEF b
<1> QED BY <1>2, <1>3, <1>6, <1>7

\* A clearance leaves battery and obstacles alone.
LEMMA ClearanceIs ==
  ASSUME NEW w \in WorldStates, NEW n \in Nat
  PROVE  Aside(w, [w EXCEPT !.forward_clearance = n])
BY DEF Aside, WorldStates

\* update_visual_tracking leaves battery and obstacles alone.
LEMMA SensesAside ==
  ASSUME NEW w \in WorldStates, NEW locked \in BOOLEAN, NEW sight \in 0 .. 1
  PROVE  Aside(w, UpdateVisualTracking(w, locked, sight))
<1> DEFINE v == [w EXCEPT !.target_locked = locked, !.visual = sight]
<1>1. Aside(w, v)
  BY DEF Aside, WorldStates
<1>2. UpdateVisualTracking(w, locked, sight) = IF locked THEN UpdateBallVisible(v, TRUE) ELSE v
  BY DEF UpdateVisualTracking
<1> HIDE DEF v
<1>3. Aside(v, UpdateBallVisible(v, TRUE))
  BY <1>1, BallIs DEF Aside
<1> QED BY <1>1, <1>2, <1>3 DEF Aside

\* What the filters remember: the side of the hysteresis the voltage was last
\* on, and the newest samples of the obstacle window.
BatteryInv ==
  /\ ws.is_brownout_risk <=> ws.battery = "LOW"
  /\ ws.battery = "LOW" <=> past.volts <= 65

ObstacleInv ==
  /\ program # "depth" => past.near = 0 /\ past.far = 0
  /\ past.near <= Len(ws.obstacles) /\ past.far <= Len(ws.obstacles)
  /\ past.near > 0 => past.far = 0
  /\ \A k \in 0 .. past.near - 1 : ws.obstacles[Len(ws.obstacles) - k]
  /\ \A k \in 0 .. past.far - 1 : ~ws.obstacles[Len(ws.obstacles) - k]
  /\ Len(ws.obstacles) > 0 => (ws.obstacle_close <=> Majority(ws.obstacles))

SensorInv == ws \in WorldStates /\ BatteryInv /\ ObstacleInv

\* Steps that leave battery and obstacles alone keep the sensors sound.
LEMMA AsideKeeps ==
  ASSUME SensorInv, Aside(ws, ws'), program' = program,
         past'.volts = past.volts, past'.near = past.near, past'.far = past.far
  PROVE  SensorInv'
BY DEF SensorInv, Aside, BatteryInv, ObstacleInv

\* A telemetry frame keeps the sensors sound.
LEMMA TelemetryKeeps == SensorInv /\ FrameInv /\ TelemetryFrame => SensorInv'
<1> SUFFICES ASSUME SensorInv, FrameInv, TelemetryFrame PROVE SensorInv'
  OBVIOUS
<1>1. PICK frame \in RobotFrames :
        /\ ws' = UpdateFromRobotState(ws, frame)
        /\ past' = IF frame.volts = None \/ frame.volts \in 66 .. 67 THEN past
                   ELSE [past EXCEPT !.volts = frame.volts]
  BY DEF TelemetryFrame
<1> DEFINE safe    == [ws EXCEPT !.is_fallen = "fallen" \in frame.safety,
                                 !.is_limp = "limp" \in frame.safety]
           leaning == IF frame.tilt = None THEN safe ELSE UpdateOrientation(safe, frame.tilt)
<1>2. Aside(ws, safe)
  <2>1. \A b, c \in BOOLEAN : Aside(ws, [ws EXCEPT !.is_fallen = b, !.is_limp = c])
    BY DEF Aside, SensorInv, WorldStates
  <2> DEFINE b == "fallen" \in frame.safety
             c == "limp" \in frame.safety
  <2>2. b \in BOOLEAN /\ c \in BOOLEAN /\ safe = [ws EXCEPT !.is_fallen = b, !.is_limp = c]
    OBVIOUS
  <2> HIDE DEF b, c, safe
  <2> QED BY <2>1, <2>2
<1> HIDE DEF safe
<1>3. Aside(ws, leaning)
  <2>1. frame.tilt # None => frame.tilt \in Int
    BY DEF RobotFrames
  <2>2. safe \in WorldStates
    BY <1>2 DEF Aside
  <2> QED BY <1>2, <2>1, <2>2, OrientationIs DEF Aside
<1>4. ws' = IF frame.volts = None THEN leaning ELSE UpdateBatteryVoltage(leaning, frame.volts)
  BY <1>1 DEF UpdateFromRobotState, safe
<1> HIDE DEF leaning
<1>5. program' = program
  BY DEF TelemetryFrame
<1>6. CASE frame.volts = None
  BY <1>1, <1>3, <1>4, <1>5, <1>6, AsideKeeps
<1>7. CASE frame.volts # None
  <2>1. frame.volts \in {64, 65, 66, 68, 70}
    BY <1>7 DEF RobotFrames
  <2>2. leaning \in WorldStates
    BY <1>3 DEF Aside
  <2>3. /\ ws' \in WorldStates
        /\ ws'.obstacles = leaning.obstacles /\ ws'.obstacle_close = leaning.obstacle_close
        /\ ws'.battery = IF frame.volts >= 68 THEN "HIGH" ELSE IF frame.volts <= 65 THEN "LOW"
                         ELSE leaning.battery
        /\ ws'.is_brownout_risk = (ws'.battery = "LOW")
    <3>1. frame.volts \in Int
      BY <2>1
    <3>2. ws' = UpdateBatteryVoltage(leaning, frame.volts)
      BY <1>4, <1>7
    <3> QED BY <2>2, <3>1, <3>2, BatteryIs, Zenon
  <2>4. /\ past'.near = past.near /\ past'.far = past.far
        /\ past'.volts = IF frame.volts = 66 THEN past.volts ELSE frame.volts
    BY <1>1, <1>7, <2>1 DEF FrameInv, Pasts
  <2>5. ObstacleInv'
    BY <1>3, <1>5, <2>3, <2>4 DEF SensorInv, ObstacleInv, Aside
  <2>6. BatteryInv'
    <3>1. ws'.is_brownout_risk <=> ws'.battery = "LOW"
      BY <2>3, Zenon
    <3>2. ws'.battery = "LOW" <=> past'.volts <= 65
      BY <1>3, <2>1, <2>3, <2>4 DEF SensorInv, BatteryInv, Aside
    <3> QED BY <3>1, <3>2 DEF BatteryInv
  <2> QED BY <2>3, <2>5, <2>6 DEF SensorInv
<1> QED BY <1>6, <1>7

\* A sample that agrees with what the history says of it
LEMMA SampleKeeps ==
  ASSUME SensorInv, FrameInv, program = "depth", program' = program,
         NEW b \in BOOLEAN, NEW w, Aside(ws, w), ws' = UpdateObstacleClose(w, b),
         past'.volts = past.volts,
         past'.near = IF b THEN (IF past.near < Window THEN past.near + 1 ELSE past.near) ELSE 0,
         past'.far = IF b THEN 0 ELSE (IF past.far < Window THEN past.far + 1 ELSE past.far)
  PROVE  SensorInv'
<1>5. /\ ws' \in WorldStates
      /\ ws'.battery = ws.battery /\ ws'.is_brownout_risk = ws.is_brownout_risk
      /\ ws'.obstacles = Slide(ws.obstacles, b)
      /\ ws'.obstacle_close = Majority(ws'.obstacles)
  <2>1. /\ w \in WorldStates /\ w.obstacles = ws.obstacles
        /\ w.battery = ws.battery /\ w.is_brownout_risk = ws.is_brownout_risk
    BY DEF Aside
  <2>2. /\ UpdateObstacleClose(w, b) \in WorldStates
        /\ UpdateObstacleClose(w, b).battery = w.battery
        /\ UpdateObstacleClose(w, b).is_brownout_risk = w.is_brownout_risk
        /\ UpdateObstacleClose(w, b).obstacles = Slide(w.obstacles, b)
        /\ UpdateObstacleClose(w, b).obstacle_close = Majority(Slide(w.obstacles, b))
    BY <2>1, ObstacleIs
  <2> QED BY <2>1, <2>2
<1>7. /\ ws.obstacles \in Windows
      /\ Len(ws.obstacles) \in Nat /\ Len(ws.obstacles) <= Window /\ Window \in Nat \ {0}
      /\ past.near \in 0 .. Window /\ past.far \in 0 .. Window
  <2>1. ws.obstacles \in Windows
    BY WorldStatesAre DEF SensorInv
  <2> QED BY <2>1, WindowIs, WindowAssumption DEF FrameInv, Pasts
<1> DEFINE new == Len(ws'.obstacles)
           old == Len(ws.obstacles)
<1>8. /\ new = IF old < Window THEN old + 1 ELSE Window
      /\ ws'.obstacles[new] = b
      /\ \A k \in 1 .. new - 1 : ws'.obstacles[new - k] = ws.obstacles[old - k + 1]
  <2>1. b \in BOOLEAN
    OBVIOUS
  <2>2. ws.obstacles \in Windows
    BY <1>7, Zenon
  <2> DEFINE slid == Slide(ws.obstacles, b)
  <2>3. Len(slid) = IF Len(ws.obstacles) < Window THEN Len(ws.obstacles) + 1 ELSE Window
    BY <2>1, <2>2, SlideIs
  <2>4. slid[Len(slid)] = b
    BY <2>1, <2>2, SlideIs, Zenon
  <2>5. \A k \in 1 .. Len(slid) - 1 : slid[Len(slid) - k] = ws.obstacles[Len(ws.obstacles) - k + 1]
    BY <2>1, <2>2, SlideIs, Zenon
  <2>6. ws'.obstacles = slid
    BY <1>5
  <2> HIDE DEF slid
  <2>7. new = Len(slid) /\ old = Len(ws.obstacles)
    BY <2>6 DEF new, old
  <2>8. new = IF old < Window THEN old + 1 ELSE Window
    BY <2>3, <2>7
  <2>9. ws'.obstacles[new] = b
    BY <2>4, <2>6, <2>7, Zenon
  <2>10. \A k \in 1 .. new - 1 : ws'.obstacles[new - k] = ws.obstacles[old - k + 1]
    BY <2>5, <2>6, <2>7
  <2> QED BY <2>8, <2>9, <2>10, Zenon
<1>9. /\ past.near <= old /\ past.far <= old
      /\ \A k \in 0 .. past.near - 1 : ws.obstacles[old - k]
      /\ \A k \in 0 .. past.far - 1 : ~ws.obstacles[old - k]
  BY DEF SensorInv, ObstacleInv
<1> HIDE DEF new, old
<1>10. old \in Nat /\ old <= Window
  BY <1>7 DEF old
<1>11. past'.near <= new /\ past'.far <= new /\ (past'.near > 0 => past'.far = 0)
  BY <1>7, <1>8, <1>9, <1>10
<1>12. \A k \in 0 .. past'.near - 1 : ws'.obstacles[new - k]
  <2>1. ASSUME b, NEW k \in 0 .. past'.near - 1 PROVE ws'.obstacles[new - k]
    <3>1. CASE k = 0
      <4>1. new - k = new
        BY <1>7, <1>8, <1>10, <3>1
      <4> QED BY <1>8, <2>1, <4>1, Zenon
    <3>2. CASE k > 0
      <4>1. k \in 1 .. new - 1 /\ k - 1 \in 0 .. past.near - 1 /\ old - k + 1 = old - (k - 1)
        BY <1>7, <1>8, <1>9, <1>10, <1>11, <2>1, <3>2
      <4>2. ws'.obstacles[new - k] = ws.obstacles[old - (k - 1)]
        BY <1>8, <4>1
      <4>3. ws.obstacles[old - (k - 1)]
        BY <1>9, <4>1
      <4> QED BY <4>2, <4>3, Zenon
    <3>3. k = 0 \/ k > 0
      OBVIOUS
    <3> QED BY <3>1, <3>2, <3>3, Zenon
  <2> QED BY <2>1
<1>13. \A k \in 0 .. past'.far - 1 : ~ws'.obstacles[new - k]
  <2>1. ASSUME ~b, NEW k \in 0 .. past'.far - 1 PROVE ~ws'.obstacles[new - k]
    <3>1. CASE k = 0
      BY <1>8, <1>10, <1>7, <2>1, <3>1
    <3>2. CASE k > 0
      <4>1. k \in 1 .. new - 1 /\ k - 1 \in 0 .. past.far - 1 /\ old - k + 1 = old - (k - 1)
        BY <1>7, <1>8, <1>9, <1>10, <1>11, <2>1, <3>2
      <4> QED BY <1>8, <1>9, <4>1
    <3> QED BY <2>1, <3>1, <3>2
  <2> QED BY <2>1
<1>14. ObstacleInv'
  BY <1>5, <1>11, <1>12, <1>13 DEF ObstacleInv, new
<1>15. BatteryInv'
  BY <1>5 DEF SensorInv, BatteryInv
<1> QED BY <1>5, <1>14, <1>15 DEF SensorInv
\* A depth frame keeps the sensors sound.
LEMMA DepthKeeps == SensorInv /\ FrameInv /\ DepthFrame => SensorInv'
<1> SUFFICES ASSUME SensorInv, FrameInv, DepthFrame PROVE SensorInv'
  OBVIOUS
<1>1. PICK depths \in SUBSET {0, 250, 300} :
        /\ ws' = UpdateFromTofFrame(ws, depths)
        /\ past' = CASE 250 \in depths    -> [past EXCEPT !.near = IF @ < Window THEN @ + 1 ELSE @,
                                                         !.far = 0]
                     [] depths \subseteq {0} -> past
                     [] OTHER             -> [past EXCEPT !.far = IF @ < Window THEN @ + 1 ELSE @,
                                                         !.near = 0]
  BY DEF DepthFrame
<1>2. program' = program /\ program = "depth"
  BY DEF DepthFrame
<1>3. CASE depths \subseteq {0}
  <2>1. ws' = ws /\ past' = past
    BY <1>1, <1>3 DEF UpdateFromTofFrame
  <2> QED BY <1>2, <2>1, AsideKeeps DEF Aside, SensorInv
<1>4. CASE 250 \in depths
  <2>1. ws' = UpdateObstacleClose([ws EXCEPT !.forward_clearance = 250], TRUE)
    <3> DEFINE valid == {d \in depths : d > 10}
               nearest == CHOOSE d \in valid : \A e \in valid : d <= e
    <3>1. 250 \in valid /\ \A e \in valid : 250 <= e
      BY <1>4
    <3>2. nearest = 250
      <4>1. nearest \in valid /\ \A e \in valid : nearest <= e
        <5> HIDE DEF valid
        <5> QED BY <3>1
      <4>2. \A e \in valid : e \in Int
        OBVIOUS
      <4> HIDE DEF valid, nearest
      <4> QED BY <3>1, <4>1, <4>2
    <3>3. ws' = UpdateObstacleClose([ws EXCEPT !.forward_clearance = nearest], nearest < 300)
      BY <1>1, <3>1 DEF UpdateFromTofFrame
    <3> HIDE DEF nearest
    <3>4. (nearest < 300) = TRUE
      BY <3>2
    <3> QED BY <3>2, <3>3, <3>4
  <2>2. Aside(ws, [ws EXCEPT !.forward_clearance = 250])
    <3>1. ws \in WorldStates
      BY DEF SensorInv
    <3>2. 250 \in Nat
      OBVIOUS
    <3> QED BY <3>1, <3>2, ClearanceIs
  <2>3. /\ past'.volts = past.volts
        /\ past'.near = IF past.near < Window THEN past.near + 1 ELSE past.near
        /\ past'.far = 0
    BY <1>1, <1>4 DEF FrameInv, Pasts
  <2> QED BY <1>2, <2>1, <2>2, <2>3, SampleKeeps, ZenonT(30)
<1>5. CASE 250 \notin depths /\ 300 \in depths
  <2>1. ws' = UpdateObstacleClose([ws EXCEPT !.forward_clearance = 300], FALSE)
    <3> DEFINE valid == {d \in depths : d > 10}
               nearest == CHOOSE d \in valid : \A e \in valid : d <= e
    <3>1. 300 \in valid /\ \A e \in valid : 300 <= e
      BY <1>5
    <3>2. nearest = 300
      <4>1. nearest \in valid /\ \A e \in valid : nearest <= e
        <5> HIDE DEF valid
        <5> QED BY <3>1
      <4>2. \A e \in valid : e \in Int
        OBVIOUS
      <4> HIDE DEF valid, nearest
      <4> QED BY <3>1, <4>1, <4>2
    <3>3. ws' = UpdateObstacleClose([ws EXCEPT !.forward_clearance = nearest], nearest < 300)
      BY <1>1, <3>1 DEF UpdateFromTofFrame
    <3> HIDE DEF nearest
    <3>4. (nearest < 300) = FALSE
      BY <3>2
    <3> QED BY <3>2, <3>3, <3>4
  <2>2. Aside(ws, [ws EXCEPT !.forward_clearance = 300])
    <3>1. ws \in WorldStates
      BY DEF SensorInv
    <3>2. 300 \in Nat
      OBVIOUS
    <3> QED BY <3>1, <3>2, ClearanceIs
  <2>3. /\ past'.volts = past.volts
        /\ past'.near = 0
        /\ past'.far = IF past.far < Window THEN past.far + 1 ELSE past.far
    BY <1>1, <1>5 DEF FrameInv, Pasts
  <2> QED BY <1>2, <2>1, <2>2, <2>3, SampleKeeps, ZenonT(30)
<1> QED BY <1>3, <1>4, <1>5
=============================================================================
