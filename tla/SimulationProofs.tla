-------------------------- MODULE SimulationProofs --------------------------
(* Theorems about the programs that run a simulated robot: the actuator's  *)
(* delay, the end of a fallen episode, the sensors, the attitude filter,   *)
(* the training's advantages, and the scripts of evaluation and video.     *)
EXTENDS TreeProofs

-----------------------------------------------------------------------------
(* The simulated robot *)

Positions == [low : BOOLEAN, tilt : Nat, contacts : SUBSET {"foot", "mouth", "body"}]
Twists == {"zero", "walk", "turn", "spin"}

Currents == 15 .. Servos * 140 + 15

Volts == 600 .. 820
Limits == 0 .. 576
Queues == [1 .. DelaySteps -> ActionNames]

Bams ==
  [queue : Queues, voltage : Volts, torque : Int, limit : Limits, current : Currents]

Sensed == [last_action : ActionNames, command : Twists, tilt : Nat]

EnvRecords ==
  [command : Twists, last_action : ActionNames, step_count : Nat, bam : Bams, force : Limits,
   due : ActionNames, posture : Positions, allow_mouth_contact : BOOLEAN, terminated : BOOLEAN,
   reward : {-50, 0, 1}, obs : Sensed]

\* The environments are the records of the kind.
LEMMA EnvsAre == Envs(ActionNames) = EnvRecords
BY DEF EnvRecords, Sensed, Envs, Bams, Positions, Twists, Volts, Limits, Currents, Queues

\* A new value in a field keeps a record of the kind.
LEMMA BamsWith ==
  ASSUME NEW bam \in Bams
  PROVE  /\ bam.queue \in Queues /\ bam.voltage \in Volts /\ bam.limit \in Limits
         /\ \A c \in Currents, v \in Volts :
              /\ [bam EXCEPT !.current = c, !.voltage = v] \in Bams
              /\ [bam EXCEPT !.current = c, !.voltage = v].queue = bam.queue
         /\ \A l \in Limits, t \in Int :
              /\ [bam EXCEPT !.limit = l, !.torque = t] \in Bams
              /\ [bam EXCEPT !.limit = l, !.torque = t].queue = bam.queue
         /\ \A q \in Queues :
              /\ [bam EXCEPT !.queue = q] \in Bams
              /\ [bam EXCEPT !.queue = q].queue = q
<1>1. /\ bam.queue \in Queues /\ bam.voltage \in Volts /\ bam.limit \in Limits
  BY DEF Bams
<1>2. \A c \in Currents, v \in Volts :
              /\ [bam EXCEPT !.current = c, !.voltage = v] \in Bams
              /\ [bam EXCEPT !.current = c, !.voltage = v].queue = bam.queue
  BY DEF Bams
<1>3. \A l \in Limits, t \in Int :
              /\ [bam EXCEPT !.limit = l, !.torque = t] \in Bams
              /\ [bam EXCEPT !.limit = l, !.torque = t].queue = bam.queue
  BY DEF Bams
<1>4. \A q \in Queues :
              /\ [bam EXCEPT !.queue = q] \in Bams
              /\ [bam EXCEPT !.queue = q].queue = q
  BY DEF Bams
<1> QED BY <1>1, <1>2, <1>3, <1>4

\* The voltage model keeps the actuator of the kind and its queue as it is.
LEMMA BatteryRange ==
  ASSUME NEW bam \in Bams, NEW demand \in Int
  PROVE  /\ UpdateBattery(bam, demand) \in Bams
         /\ UpdateBattery(bam, demand).queue = bam.queue
<1> DEFINE each  == Smaller((Smaller(Size(demand), 520) * 25) \div 100, 140)
           total == Servos * each + 15
           volts == Larger(600, 820 - (total * 18) \div 100)
<1>1. each \in 0 .. 140
  BY DEF Smaller, Size
<1> HIDE DEF each
<1>2. Servos \in Nat
  BY BamAssumption
<1>3. Servos * each \in Nat /\ Servos * each <= Servos * 140
  BY <1>1, <1>2
<1>4. total \in Currents
  <2> DEFINE p == Servos * each
             q == Servos * 140
  <2>1. p \in Nat /\ q \in Nat /\ p <= q
    BY <1>2, <1>3
  <2>2. total = p + 15
    OBVIOUS
  <2> HIDE DEF p, total
  <2> SUFFICES total \in 15 .. q + 15
    BY DEF Currents
  <2> HIDE DEF q
  <2> QED BY <2>1, <2>2
<1>5. total \in Nat /\ total >= 15
  <2>1. Servos * 140 + 15 \in Int
    BY <1>2
  <2> HIDE DEF total
  <2> QED BY <1>4, <2>1 DEF Currents
<1>6. UpdateBattery(bam, demand) = [bam EXCEPT !.current = total, !.voltage = volts]
  BY DEF UpdateBattery, each
<1> HIDE DEF total
<1>7. volts \in Volts
  BY <1>5 DEF Larger, Volts
<1> HIDE DEF volts
<1>8. /\ [bam EXCEPT !.current = total, !.voltage = volts] \in Bams
      /\ [bam EXCEPT !.current = total, !.voltage = volts].queue = bam.queue
  BY <1>4, <1>7, BamsWith, ZenonT(30)
<1> QED BY <1>6, <1>8

\* The torques keep the actuator of the kind and its queue as it is.
LEMMA ServoIs ==
  ASSUME NEW bam \in Bams, NEW demand \in Int, NEW speed \in Int
  PROVE  /\ ComputeTorques(bam, demand, speed) \in Bams
         /\ ComputeTorques(bam, demand, speed).queue = bam.queue
<1> DEFINE sagged == UpdateBattery(bam, demand)
           limit  == TorqueLimit(sagged.voltage, speed)
           torque == NetTorque(demand, speed, limit)
<1>1. sagged \in Bams /\ sagged.queue = bam.queue
  BY BatteryRange
<1>2. ComputeTorques(bam, demand, speed) = [sagged EXCEPT !.limit = limit, !.torque = torque]
  BY DEF ComputeTorques
<1> HIDE DEF sagged
<1>3. limit \in Limits
  <2>1. sagged.voltage \in 600 .. 820
    BY <1>1, BamsWith, ZenonT(30) DEF Volts
  <2> DEFINE left == Larger(0, sagged.voltage - (115 * Size(speed)) \div 100)
  <2>2. left \in 0 .. 820
    <3>1. Size(speed) \in Nat
      BY DEF Size
    <3> DEFINE p == (115 * Size(speed)) \div 100
    <3>2. p \in Nat
      <4> HIDE DEF Size
      <4> QED BY <3>1
    <3> HIDE DEF p
    <3>3. Larger(0, sagged.voltage - p) \in 0 .. 820
      <4>1. \A v \in 600 .. 820 : Larger(0, v - p) \in 0 .. 820
        BY <3>2 DEF Larger
      <4> QED BY <2>1, <4>1, ZenonT(30)
    <3> QED BY <3>3 DEF p
  <2>3. limit = (520 * left) \div 740
    BY DEF TorqueLimit
  <2> HIDE DEF left, limit
  <2> QED BY <2>2, <2>3 DEF Limits
<1> HIDE DEF limit
<1>4. torque \in Int
  BY <1>3 DEF Limits, NetTorque, Larger, Smaller, Size
<1> HIDE DEF torque
<1>5. /\ [sagged EXCEPT !.limit = limit, !.torque = torque] \in Bams
      /\ [sagged EXCEPT !.limit = limit, !.torque = torque].queue = sagged.queue
  <2>1. sagged \in Bams
    BY <1>1
  <2>2. \A l \in Limits, t \in Int :
              /\ [sagged EXCEPT !.limit = l, !.torque = t] \in Bams
              /\ [sagged EXCEPT !.limit = l, !.torque = t].queue = sagged.queue
    BY <2>1, BamsWith
  <2> QED BY <1>3, <1>4, <2>2, Zenon
<1> QED BY <1>1, <1>2, <1>5

\* The delay line: the oldest setpoint comes out and the newest goes in last.
LEMMA DelayIs ==
  ASSUME NEW bam \in Bams, NEW target \in ActionNames
  PROVE  /\ StepDelay(bam, target).bam \in Bams
         /\ StepDelay(bam, target).due = IF DelaySteps = 0 THEN target ELSE bam.queue[1]
         /\ StepDelay(bam, target).due \in ActionNames
         /\ StepDelay(bam, target).bam.queue =
              [k \in 1 .. DelaySteps |-> IF k < DelaySteps THEN bam.queue[k + 1] ELSE target]
<1> DEFINE q == Append(bam.queue, target)
<1>0. DelaySteps \in Nat
  BY BamAssumption
<1>1. bam.queue \in [1 .. DelaySteps -> ActionNames] /\ bam.queue \in Seq(ActionNames) /\ Len(bam.queue) = DelaySteps
  <2> DEFINE u == bam.queue
  <2>1. u \in [1 .. DelaySteps -> ActionNames]
    BY BamsWith DEF Queues
  <2> HIDE DEF u
  <2>2. u \in Seq(ActionNames) /\ Len(u) = DelaySteps
    BY <1>0, <2>1
  <2> QED BY <2>1, <2>2 DEF u
<1>2. /\ q \in Seq(ActionNames) /\ Len(q) = DelaySteps + 1 /\ q # <<>>
      /\ \A k \in 1 .. DelaySteps : q[k] = bam.queue[k]
      /\ q[DelaySteps + 1] = target
  BY <1>0, <1>1
<1>3. StepDelay(bam, target) = [due |-> Head(q), bam |-> [bam EXCEPT !.queue = Tail(q)]]
  BY DEF StepDelay
<1> HIDE DEF q
<1>4. Head(q) = q[1] /\ q[1] \in ActionNames
  BY <1>0, <1>2
<1>5. Tail(q) = [k \in 1 .. DelaySteps |-> q[k + 1]] /\ Tail(q) \in [1 .. DelaySteps -> ActionNames]
  <2>1. Tail(q) \in Seq(ActionNames) /\ Len(Tail(q)) = DelaySteps
    BY <1>0, <1>2
  <2>2. \A k \in 1 .. DelaySteps : Tail(q)[k] = q[k + 1]
    BY <1>0, <1>2
  <2>3. Tail(q) \in [1 .. DelaySteps -> ActionNames]
    <3> DEFINE u == Tail(q)
    <3>1. u \in Seq(ActionNames) /\ Len(u) = DelaySteps
      BY <2>1
    <3> HIDE DEF u
    <3>2. u \in [1 .. DelaySteps -> ActionNames]
      BY <1>0, <3>1
    <3> QED BY <3>2 DEF u
  <2> QED BY <2>2, <2>3
<1>6. \A k \in 1 .. DelaySteps : q[k + 1] = IF k < DelaySteps THEN bam.queue[k + 1] ELSE target
  BY <1>0, <1>2
<1>7. [k \in 1 .. DelaySteps |-> q[k + 1]] =
        [k \in 1 .. DelaySteps |-> IF k < DelaySteps THEN bam.queue[k + 1] ELSE target]
  BY <1>6
<1>8. q[1] = IF DelaySteps = 0 THEN target ELSE bam.queue[1]
  BY <1>0, <1>2
<1>9. /\ StepDelay(bam, target).due = q[1]
      /\ StepDelay(bam, target).bam = [bam EXCEPT !.queue = Tail(q)]
  BY <1>3, <1>4
<1>10. [bam EXCEPT !.queue = Tail(q)] \in Bams /\ [bam EXCEPT !.queue = Tail(q)].queue = Tail(q)
  BY <1>5, BamsWith DEF Queues
<1> QED BY <1>4, <1>5, <1>7, <1>8, <1>9, <1>10

\* What a step of the environment leaves: the setpoint in force, the queue, and
\* a robot that fell terminated.
LEMMA StepIs ==
  ASSUME NEW e \in Envs(ActionNames), NEW action \in ActionNames, NEW posture \in Positions,
         NEW load, load[1] \in Int, load[2] \in Int
  PROVE  /\ Step(e, action, posture, load) \in Envs(ActionNames)
         /\ Step(e, action, posture, load).command = e.command
         /\ Step(e, action, posture, load).allow_mouth_contact = e.allow_mouth_contact
         /\ Step(e, action, posture, load).step_count = e.step_count + 1
         /\ Step(e, action, posture, load).due =
              IF DelaySteps = 0 THEN action ELSE e.bam.queue[1]
         /\ \A k \in 1 .. DelaySteps :
              Step(e, action, posture, load).bam.queue[k] =
                IF k < DelaySteps THEN e.bam.queue[k + 1] ELSE action
         /\ Step(e, action, posture, load).posture = posture
         /\ (posture.low \/ posture.tilt > 104) => Step(e, action, posture, load).terminated
         /\ posture = Fallen => Step(e, action, posture, load).terminated
<1> DEFINE delayed == StepDelay(e.bam, action)
           bam     == ComputeTorques(delayed.bam, load[1], load[2])
           count   == e.step_count + 1
           moved   == [e EXCEPT !.bam = bam, !.force = bam.limit, !.due = delayed.due,
                                !.posture = posture, !.step_count = count]
           fallen  == IsTerminated(moved)
           reward  == Reward(fallen)
           obs     == Observation(moved)
<1>0. e \in EnvRecords
  BY EnvsAre
<1>1. /\ delayed.bam \in Bams
      /\ delayed.due = IF DelaySteps = 0 THEN action ELSE e.bam.queue[1]
      /\ delayed.due \in ActionNames
      /\ delayed.bam.queue =
           [k \in 1 .. DelaySteps |-> IF k < DelaySteps THEN e.bam.queue[k + 1] ELSE action]
  BY <1>0, DelayIs DEF EnvRecords
<1>2. bam \in Bams /\ bam.queue = delayed.bam.queue
  <2> HIDE DEF delayed
  <2> QED BY <1>1, ServoIs
<1>3. Step(e, action, posture, load) =
        [moved EXCEPT !.obs = obs, !.terminated = fallen, !.reward = reward, !.last_action = action]
  BY <1>0 DEF Step, EnvRecords
<1> HIDE DEF delayed, bam
<1>4. count \in Nat
  BY <1>0 DEF EnvRecords
<1> HIDE DEF count
<1>5. bam.limit \in Limits
  BY <1>2, BamsWith
<1>6. moved \in EnvRecords
  BY <1>0, <1>1, <1>2, <1>4, <1>5 DEF EnvRecords
<1>7. /\ moved.command = e.command /\ moved.allow_mouth_contact = e.allow_mouth_contact
      /\ moved.step_count = count /\ moved.due = delayed.due /\ moved.bam = bam
      /\ moved.posture = posture /\ moved.last_action = e.last_action
  BY <1>0 DEF EnvRecords
<1> HIDE DEF moved
<1>8. obs \in Sensed
  <2>1. moved.posture.tilt \in Nat /\ moved.last_action \in ActionNames /\ moved.command \in Twists
    BY <1>0, <1>7 DEF Positions, EnvRecords
  <2> QED BY <2>1 DEF Observation, Sensed
<1>9. fallen \in BOOLEAN
  BY DEF IsTerminated, Collides
<1>10. reward \in {-50, 0, 1}
  BY DEF Reward
<1>11. (posture.low \/ posture.tilt > 104) => fallen
  BY <1>7 DEF IsTerminated
<1>12. posture = Fallen => fallen
  <2>1. SUFFICES ASSUME posture = Fallen PROVE Collides(moved)
    BY DEF IsTerminated
  <2>2. "body" \in moved.posture.contacts
    BY <1>7, <2>1 DEF Fallen
  <2> QED BY <2>2 DEF Collides
<1> HIDE DEF obs, fallen, reward
<1> DEFINE s == [moved EXCEPT !.obs = obs, !.terminated = fallen, !.reward = reward, !.last_action = action]
<1>13. \A b \in BOOLEAN :
         /\ [moved EXCEPT !.obs = obs, !.terminated = b, !.reward = reward, !.last_action = action] \in Envs(ActionNames)
         /\ [moved EXCEPT !.obs = obs, !.terminated = b, !.reward = reward, !.last_action = action].terminated = b
  <2>1. moved \in EnvRecords
    BY <1>6
  <2>2. SUFFICES ASSUME NEW b \in BOOLEAN
        PROVE  /\ [moved EXCEPT !.obs = obs, !.terminated = b, !.reward = reward, !.last_action = action] \in Envs(ActionNames)
               /\ [moved EXCEPT !.obs = obs, !.terminated = b, !.reward = reward, !.last_action = action].terminated = b
    OBVIOUS
  <2>3. [moved EXCEPT !.obs = obs, !.terminated = b, !.reward = reward, !.last_action = action].terminated = b
    BY <2>1 DEF EnvRecords
  <2>4. [moved EXCEPT !.obs = obs, !.terminated = b, !.reward = reward, !.last_action = action]
          \in EnvRecords
    BY <1>8, <1>10, <2>1 DEF EnvRecords
  <2> QED BY <2>3, <2>4, EnvsAre
<1>14. s \in Envs(ActionNames) /\ s.terminated = fallen
  BY <1>9, <1>13, Zenon
<1>15. /\ s.command = moved.command /\ s.allow_mouth_contact = moved.allow_mouth_contact
       /\ s.step_count = moved.step_count /\ s.due = moved.due /\ s.bam = moved.bam
       /\ s.posture = moved.posture
  BY <1>6 DEF EnvRecords
<1>16. Step(e, action, posture, load) = s
  BY <1>3
<1> HIDE DEF s
<1>17. /\ s.command = e.command /\ s.allow_mouth_contact = e.allow_mouth_contact
       /\ s.step_count = e.step_count + 1 /\ s.posture = posture
  BY <1>7, <1>15 DEF count
<1>18. s.due = IF DelaySteps = 0 THEN action ELSE e.bam.queue[1]
  BY <1>1, <1>7, <1>15
<1>19. \A k \in 1 .. DelaySteps :
         s.bam.queue[k] = IF k < DelaySteps THEN e.bam.queue[k + 1] ELSE action
  <2>1. s.bam.queue =
          [k \in 1 .. DelaySteps |-> IF k < DelaySteps THEN e.bam.queue[k + 1] ELSE action]
    BY <1>1, <1>2, <1>7, <1>15
  <2> QED BY <2>1
<1>20. (posture.low \/ posture.tilt > 104 => s.terminated) /\ (posture = Fallen => s.terminated)
  BY <1>11, <1>12, <1>14, Zenon
<1> QED BY <1>14, <1>16, <1>17, <1>18, <1>19, <1>20, Zenon

\* The setpoints under way, and the one in force, after n steps of an episode
QueueAt(run, count) ==
  [k \in 1 .. DelaySteps |-> IF count + k <= DelaySteps THEN Stance
                             ELSE <<run, count + k - 1 - DelaySteps>>]

DueAt(run, count) == IF count <= DelaySteps THEN Stance ELSE <<run, count - 1 - DelaySteps>>

\* A robot that is not up has been declared fallen.
EnvOk(e, episode) ==
  /\ e \in Envs(ActionNames)
  /\ e.bam.queue = QueueAt(episode, e.step_count)
  /\ e.due = DueAt(episode, e.step_count)
  /\ (e.posture = Fallen \/ e.posture.low \/ e.posture.tilt > 104) => e.terminated

\* The fields of an environment.
LEMMA EnvFields ==
  ASSUME NEW e \in Envs(ActionNames)
  PROVE  /\ e.step_count \in Nat /\ e.command \in Twists /\ e.posture \in Positions
         /\ e.bam \in Bams /\ e.due \in ActionNames /\ e.terminated \in BOOLEAN
         /\ e.allow_mouth_contact \in BOOLEAN /\ e.obs.tilt \in Nat /\ e.posture.tilt \in Nat
BY EnvsAre DEF Positions, EnvRecords, Sensed

\* A step with the setpoint of its own step keeps the delay of the episode.
LEMMA StepKeeps ==
  ASSUME NEW e, NEW episode \in 0 .. 1, EnvOk(e, episode), NEW posture \in Positions,
         NEW load, load[1] \in Int, load[2] \in Int
  PROVE  /\ EnvOk(Step(e, <<episode, e.step_count>>, posture, load), episode)
         /\ Step(e, <<episode, e.step_count>>, posture, load).command = e.command
         /\ Step(e, <<episode, e.step_count>>, posture, load).allow_mouth_contact
              = e.allow_mouth_contact
<1> DEFINE n == e.step_count
           a == <<episode, n>>
           s == Step(e, a, posture, load)
<1>0. e \in Envs(ActionNames) /\ n \in Nat /\ DelaySteps \in Nat
  BY EnvFields, BamAssumption DEF EnvOk
<1>1. a \in ActionNames
  BY <1>0 DEF ActionNames
<1> HIDE DEF a
<1>2. /\ s \in Envs(ActionNames) /\ s.step_count = n + 1
      /\ s.due = IF DelaySteps = 0 THEN a ELSE e.bam.queue[1]
      /\ \A k \in 1 .. DelaySteps : s.bam.queue[k] = IF k < DelaySteps THEN e.bam.queue[k + 1] ELSE a
      /\ s.posture = posture /\ s.command = e.command
  BY <1>0, <1>1, StepIs
<1>m. s.allow_mouth_contact = e.allow_mouth_contact
  BY <1>0, <1>1, StepIs
<1>3. (posture.low \/ posture.tilt > 104 \/ posture = Fallen) => s.terminated
  BY <1>0, <1>1, StepIs, Zenon
<1>4. e.bam.queue = QueueAt(episode, n)
  BY DEF EnvOk
<1> HIDE DEF s, n
<1>5. s.due = DueAt(episode, n + 1)
  <2>1. CASE DelaySteps = 0
    <3> DEFINE m == n + 1 - 1 - DelaySteps
    <3>1. m = n /\ ~(n + 1 <= DelaySteps)
      BY <1>0, <2>1
    <3>2. DueAt(episode, n + 1) = <<episode, m>>
      BY <1>0, <3>1 DEF DueAt
    <3> HIDE DEF m
    <3> QED BY <1>2, <2>1, <3>1, <3>2 DEF a
  <2>2. CASE DelaySteps # 0
    <3>1. 1 \in 1 .. DelaySteps
      BY <1>0, <2>2
    <3>2. s.due = IF n + 1 <= DelaySteps THEN Stance ELSE <<episode, n + 1 - 1 - DelaySteps>>
      <4>1. s.due = e.bam.queue[1]
        BY <1>2, <2>2
      <4>2. e.bam.queue[1] = IF n + 1 <= DelaySteps THEN Stance ELSE <<episode, n + 1 - 1 - DelaySteps>>
        BY <1>4, <3>1 DEF QueueAt
      <4> QED BY <4>1, <4>2, Zenon
    <3> QED BY <1>0, <3>2 DEF DueAt
  <2> QED BY <2>1, <2>2
<1>6. s.bam.queue = QueueAt(episode, n + 1)
  <2> DEFINE here(j) == IF j < DelaySteps THEN e.bam.queue[j + 1] ELSE a
             there(j) == IF (n + 1) + j <= DelaySteps THEN Stance
                         ELSE <<episode, (n + 1) + j - 1 - DelaySteps>>
  <2>1. ASSUME NEW k \in 1 .. DelaySteps PROVE here(k) = there(k)
    <3>2. CASE k < DelaySteps
      <4>1. k + 1 \in 1 .. DelaySteps
        BY <1>0, <3>2
      <4>2. e.bam.queue[k + 1] = IF n + (k + 1) <= DelaySteps THEN Stance
                                 ELSE <<episode, n + (k + 1) - 1 - DelaySteps>>
        BY <1>4, <4>1 DEF QueueAt
      <4>3. n + (k + 1) = (n + 1) + k
        BY <1>0
      <4>4. n + (k + 1) - 1 = (n + 1) + k - 1
        BY <1>0
      <4>5. e.bam.queue[k + 1] = there(k)
        <5> DEFINE x == n + (k + 1)
                   y == (n + 1) + k
        <5>3. x = y /\ x \in Int /\ DelaySteps \in Int
          BY <1>0, <4>3
        <5>1. e.bam.queue[k + 1] = IF x <= DelaySteps THEN Stance ELSE <<episode, x - 1 - DelaySteps>>
          BY <1>0, <4>2
        <5>2. there(k) = IF y <= DelaySteps THEN Stance ELSE <<episode, y - 1 - DelaySteps>>
          BY <1>0
        <5> HIDE DEF x, y, there
        <5> QED BY <5>1, <5>2, <5>3
      <4> QED BY <3>2, <4>5
    <3>3. CASE k = DelaySteps
      <4>1. (n + 1) + k - 1 - DelaySteps = n /\ ~((n + 1) + k <= DelaySteps)
        BY <1>0, <3>3
      <4> QED BY <3>3, <4>1 DEF a
    <3> QED BY <1>0, <3>2, <3>3
  <2>2. \A k \in 1 .. DelaySteps : s.bam.queue[k] = here(k)
    BY <1>2
  <2>4. s.bam.queue \in Queues
    BY <1>2, EnvFields, BamsWith
  <2>3. QueueAt(episode, n + 1) = [k \in 1 .. DelaySteps |-> there(k)]
    BY DEF QueueAt
  <2> HIDE DEF here, there
  <2> QED BY <2>1, <2>2, <2>3, <2>4 DEF Queues
<1>7. s.step_count = n + 1
  BY <1>2
<1>8. EnvOk(s, episode)
  BY <1>2, <1>3, <1>5, <1>6, <1>7 DEF EnvOk
<1> QED BY <1>2, <1>m, <1>8 DEF s, n, a

\* A new command changes nothing else.
LEMMA CommandKeeps ==
  ASSUME NEW e, NEW episode, EnvOk(e, episode), NEW c \in Twists
  PROVE  /\ EnvOk(SetCommand(e, c), episode)
         /\ SetCommand(e, c).command = c
         /\ SetCommand(e, c).step_count = e.step_count
         /\ SetCommand(e, c).terminated = e.terminated
         /\ SetCommand(e, c).allow_mouth_contact = e.allow_mouth_contact
<1>1. /\ SetCommand(e, c) \in Envs(ActionNames)
      /\ SetCommand(e, c).command = c
      /\ SetCommand(e, c).step_count = e.step_count
      /\ SetCommand(e, c).allow_mouth_contact = e.allow_mouth_contact
      /\ SetCommand(e, c).bam = e.bam
      /\ SetCommand(e, c).due = e.due
      /\ SetCommand(e, c).posture = e.posture
  BY EnvsAre DEF EnvRecords, EnvOk, SetCommand
<1>2. SetCommand(e, c).terminated = e.terminated
  BY EnvsAre DEF EnvRecords, EnvOk, SetCommand
<1> QED BY <1>1, <1>2 DEF EnvOk

\* Allowing contacts of the mouth changes nothing else.
LEMMA MouthKeeps ==
  ASSUME NEW e, NEW episode, EnvOk(e, episode), NEW b \in BOOLEAN
  PROVE  /\ EnvOk([e EXCEPT !.allow_mouth_contact = b], episode)
         /\ [e EXCEPT !.allow_mouth_contact = b].command = e.command
         /\ [e EXCEPT !.allow_mouth_contact = b].step_count = e.step_count
         /\ [e EXCEPT !.allow_mouth_contact = b].allow_mouth_contact = b
<1> DEFINE r == [e EXCEPT !.allow_mouth_contact = b]
<1>1. /\ r \in Envs(ActionNames)
      /\ r.command = e.command /\ r.step_count = e.step_count
      /\ r.bam = e.bam /\ r.due = e.due /\ r.posture = e.posture
  BY EnvsAre DEF EnvRecords, EnvOk
<1>2. r.terminated = e.terminated
  BY EnvsAre DEF EnvRecords, EnvOk
<1>3. r.allow_mouth_contact = b
  BY EnvsAre DEF EnvRecords, EnvOk
<1> HIDE DEF r
<1>4. EnvOk(r, episode)
  BY <1>1, <1>2 DEF EnvOk
<1> QED BY <1>1, <1>3, <1>4 DEF r

\* After a reset the actuator holds the stance.
LEMMA FreshQueue ==
  ASSUME NEW episode
  PROVE  /\ ResetBam(0, Stance).queue = QueueAt(episode, 0) /\ Stance = DueAt(episode, 0)
         /\ \A bam : ResetBam(bam, Stance) = ResetBam(0, Stance)
         /\ ResetBam(0, Stance) \in Bams /\ Stance \in ActionNames
<1>0. DelaySteps \in Nat /\ Servos \in Nat
  BY BamAssumption
<1>1. Stance = DueAt(episode, 0) /\ Stance \in ActionNames
  BY <1>0 DEF DueAt, ActionNames
<1>2. ResetBam(0, Stance).queue = QueueAt(episode, 0)
  BY <1>0 DEF ResetBam, QueueAt
<1>3. ResetBam(0, Stance) \in Bams
  <2>1. [k \in 1 .. DelaySteps |-> Stance] \in Queues
    BY <1>1 DEF Queues
  <2>2. 15 \in Currents /\ 820 \in Volts /\ 520 \in Limits
    <3>1. Servos * 140 \in Nat
      BY <1>0
    <3> DEFINE p == Servos * 140
    <3> HIDE DEF p
    <3>2. p \in Nat => 15 \in 15 .. p + 15
      OBVIOUS
    <3>3. 15 \in Currents
      BY <3>1, <3>2 DEF p, Currents
    <3> QED BY <3>3 DEF Volts, Limits
  <2> QED BY <2>1, <2>2 DEF ResetBam, Bams
<1> QED BY <1>1, <1>2, <1>3 DEF ResetBam

\* A reset begins an episode.
LEMMA ResetKeeps ==
  ASSUME NEW e \in Envs(ActionNames), NEW episode
  PROVE  /\ EnvOk(Reset(e), episode)
         /\ Reset(e).step_count = 0 /\ Reset(e).terminated = FALSE
<1> DEFINE bam == ResetBam(0, Stance)
           r == [e EXCEPT !.posture = Standing, !.bam = bam,
                          !.last_action = Stance, !.step_count = 0, !.due = Stance]
           obs == Observation(r)
           s == [r EXCEPT !.obs = obs, !.terminated = FALSE]
<1>1. /\ bam \in Bams /\ bam.queue = QueueAt(episode, 0) /\ Stance = DueAt(episode, 0)
      /\ Stance \in ActionNames
  BY FreshQueue
<1>2. Reset(e) = s
  <2>1. ResetBam(e.bam, Stance) = bam
    BY FreshQueue
  <2>2. [e EXCEPT !.posture = Standing, !.bam = ResetBam(@, Stance),
                  !.last_action = Stance, !.step_count = 0, !.due = Stance] = r
    BY <2>1, EnvsAre DEF EnvRecords
  <2> QED BY <2>2 DEF Reset
<1> HIDE DEF bam
<1>3. Standing \in Positions /\ ~Standing.low /\ Standing.tilt = 0 /\ Standing # Fallen
  BY DEF Standing, Positions, Fallen
<1>4. r \in EnvRecords
  <2>1. e \in EnvRecords
    BY EnvsAre
  <2> DEFINE u == [e EXCEPT !.posture = Standing, !.bam = bam]
             v == [u EXCEPT !.last_action = Stance, !.step_count = 0]
  <2>2. u \in EnvRecords
    BY <1>1, <1>3, <2>1 DEF EnvRecords
  <2>3. v \in EnvRecords
    <3> HIDE DEF u
    <3> QED BY <1>1, <2>2 DEF EnvRecords
  <2>4. r = [v EXCEPT !.due = Stance]
    BY <2>1 DEF EnvRecords
  <2> HIDE DEF v, r
  <2> QED BY <1>1, <2>3, <2>4 DEF EnvRecords
<1>5. /\ r.posture = Standing /\ r.bam = bam /\ r.last_action = Stance /\ r.step_count = 0
      /\ r.due = Stance /\ r.command \in Twists
  BY EnvsAre DEF EnvRecords
<1> HIDE DEF r
<1>6. obs \in Sensed
  BY <1>1, <1>3, <1>5 DEF Observation, Sensed
<1> HIDE DEF obs
<1>7. /\ s \in Envs(ActionNames)
      /\ s.posture = r.posture /\ s.bam = r.bam /\ s.step_count = r.step_count /\ s.due = r.due
  <2>1. \A o \in Sensed, b \in BOOLEAN :
          /\ [r EXCEPT !.obs = o, !.terminated = b] \in EnvRecords
          /\ [r EXCEPT !.obs = o, !.terminated = b].posture = r.posture
          /\ [r EXCEPT !.obs = o, !.terminated = b].bam = r.bam
          /\ [r EXCEPT !.obs = o, !.terminated = b].step_count = r.step_count
          /\ [r EXCEPT !.obs = o, !.terminated = b].due = r.due
    BY <1>4 DEF EnvRecords
  <2> QED BY <1>6, <2>1, EnvsAre
<1>8. s.terminated = FALSE
  BY <1>4 DEF EnvRecords
<1> HIDE DEF s
<1>9. EnvOk(s, episode)
  BY <1>1, <1>3, <1>5, <1>7 DEF EnvOk
<1> QED BY <1>2, <1>5, <1>7, <1>8, <1>9

\* A new environment is at the beginning of an episode.
LEMMA NewEnvKeeps ==
  ASSUME NEW episode
  PROVE  /\ EnvOk(NewEnv, episode) /\ NewEnv.command = "zero" /\ NewEnv.step_count = 0
         /\ NewEnv.terminated = FALSE /\ NewEnv.allow_mouth_contact = FALSE
<1>1. /\ ResetBam(0, Stance) \in Bams /\ ResetBam(0, Stance).queue = QueueAt(episode, 0)
      /\ Stance = DueAt(episode, 0) /\ Stance \in ActionNames
      /\ \A bam : ResetBam(bam, Stance) = ResetBam(0, Stance)
  BY FreshQueue
<1>2. Standing \in Positions /\ ~Standing.low /\ Standing.tilt = 0 /\ Standing # Fallen
  BY DEF Standing, Positions, Fallen
<1>3. NewEnv.bam = ResetBam(0, Stance)
  BY <1>1 DEF NewEnv
<1>4. NewEnv \in Envs(ActionNames)
  <2>1. NewEnv \in EnvRecords
    BY <1>1, <1>2, <1>3 DEF NewEnv, EnvRecords, Sensed, Twists, Limits
  <2> QED BY <2>1, EnvsAre
<1>5. /\ NewEnv.command = "zero" /\ NewEnv.step_count = 0 /\ NewEnv.due = Stance
      /\ NewEnv.terminated = FALSE /\ NewEnv.allow_mouth_contact = FALSE
      /\ NewEnv.posture = Standing
  BY DEF NewEnv
<1> QED BY <1>1, <1>2, <1>3, <1>4, <1>5 DEF EnvOk

\* The programs that end with a fall
Falls == {"mujoco", "eval", "envelope", "video"}

\* The robots of the programs; one that has fallen ends its program, or, in
\* the trainer, its episode.
EnvInv ==
  /\ envs \in [1 .. NumEnvs -> Envs(ActionNames)]
  /\ \A i \in 1 .. NumEnvs : EnvOk(envs[i], past.episode[i])
  /\ \A i \in 1 .. NumEnvs : envs[i].terminated => ~running /\ program \in Falls

\* The mission of run_mujoco_sim.py commands what its tree says.
MissionInv == program = "mujoco" => TimedInv(tree) /\ envs[1].command = tree.velocity

\* The postures and loads that the programs meet are of the kind.
LEMMA PosturesAre ==
  /\ Postures \subseteq Positions /\ Standing \in Positions /\ Fallen \in Positions
  /\ \A load \in Loads : load[1] \in Int /\ load[2] \in Int
<1>1. Standing \in Positions /\ Fallen \in Positions
  BY DEF Positions, Standing, Fallen
<1>2. \A tilt \in Nat : [Standing EXCEPT !.tilt = tilt] \in Positions
  BY DEF Positions, Standing
<1>3. [Standing EXCEPT !.low = TRUE] \in Positions
  BY DEF Positions, Standing
<1>4. [Standing EXCEPT !.contacts = {"foot", "mouth"}] \in Positions
  BY DEF Positions, Standing
<1>5. Postures \subseteq Positions
  BY <1>1, <1>2, <1>3, <1>4 DEF Postures
<1>6. \A load \in Loads : load[1] \in Int /\ load[2] \in Int
  BY DEF Loads
<1> QED BY <1>1, <1>5, <1>6

\* The programs with one robot have an environment to step.
LEMMA FirstEnv ==
  ASSUME FrameInv, EnvInv
  PROVE  /\ 1 \in 1 .. NumEnvs /\ 1 \in DOMAIN envs
         /\ envs[1] \in Envs(ActionNames) /\ EnvOk(envs[1], past.episode[1])
         /\ \A i \in 1 .. NumEnvs : past.episode[i] \in 0 .. 1 /\ EnvOk(envs[i], past.episode[i])
<1>1. 1 \in 1 .. NumEnvs
  BY BrainAssumption
<1>2. \A i \in 1 .. NumEnvs : past.episode[i] \in 0 .. 1
  BY DEF FrameInv, Pasts
<1> QED BY <1>1, <1>2 DEF EnvInv, FrameInv

\* A step of the first robot in a program that ends when it falls
LEMMA FirstSteps ==
  ASSUME FrameInv, EnvInv, running, program \in Falls, program' = program,
         past'.episode = past.episode,
         NEW e, EnvOk(e, past.episode[1]), e.step_count = envs[1].step_count,
         NEW posture \in Positions, NEW load, load[1] \in Int, load[2] \in Int,
         envs' = [envs EXCEPT ![1] = Step(e, ActionOf(1), posture, load)],
         envs'[1].terminated => ~running'
  PROVE  /\ EnvInv'
         /\ envs'[1].command = e.command
         /\ envs'[1].allow_mouth_contact = e.allow_mouth_contact
<1> DEFINE ep == past.episode[1]
           s  == Step(e, ActionOf(1), posture, load)
<1>1. /\ 1 \in 1 .. NumEnvs /\ ep \in 0 .. 1
      /\ envs \in [1 .. NumEnvs -> Envs(ActionNames)]
      /\ \A i \in 1 .. NumEnvs : EnvOk(envs[i], past.episode[i]) /\ ~envs[i].terminated
  BY FirstEnv DEF EnvInv
<1>2. ActionOf(1) = <<ep, e.step_count>>
  BY DEF ActionOf
<1>a. EnvOk(e, ep)
  OBVIOUS
<1> HIDE DEF ep
<1>b. /\ EnvOk(Step(e, <<ep, e.step_count>>, posture, load), ep)
      /\ Step(e, <<ep, e.step_count>>, posture, load).command = e.command
      /\ Step(e, <<ep, e.step_count>>, posture, load).allow_mouth_contact = e.allow_mouth_contact
  BY <1>1, <1>a, StepKeeps, Zenon
<1>3. EnvOk(s, past.episode[1]) /\ s.command = e.command
  BY <1>2, <1>b DEF ep
<1>4. s.allow_mouth_contact = e.allow_mouth_contact
  BY <1>2, <1>b, Zenon
<1> HIDE DEF s
<1>5. envs' = [envs EXCEPT ![1] = s]
  BY DEF s
<1>6. envs' \in [1 .. NumEnvs -> Envs(ActionNames)]
  BY <1>1, <1>3, <1>5 DEF EnvOk
<1>7. envs'[1] = s /\ \A i \in 1 .. NumEnvs : i # 1 => envs'[i] = envs[i]
  BY <1>1, <1>5
<1>8. \A i \in 1 .. NumEnvs : EnvOk(envs'[i], past'.episode[i])
  BY <1>1, <1>3, <1>7
<1>9. \A i \in 1 .. NumEnvs : envs'[i].terminated => ~running' /\ program' \in Falls
  BY <1>1, <1>7
<1> QED BY <1>3, <1>4, <1>6, <1>7, <1>8, <1>9 DEF EnvInv

\* A tick of run_mujoco_sim.py keeps the robot and its mission.
LEMMA MuJoCoKeeps == FrameInv /\ EnvInv /\ MissionInv /\ MuJoCoTick => EnvInv' /\ MissionInv'
<1> SUFFICES ASSUME FrameInv, EnvInv, MissionInv, MuJoCoTick PROVE EnvInv' /\ MissionInv'
  OBVIOUS
<1>1. TimedInv(tree')
  <2>1. TimedInv(tree) /\ tree' = TickRoot("FetchSequence", tree, world')
    BY DEF MuJoCoTick, MissionInv, Root
  <2> QED BY <2>1, TimedTick
<1>2. tree'.velocity \in Twists
  BY <1>1 DEF TimedInv, TimedRound, Twists
<1>3. PICK posture \in Postures, load \in Loads :
        envs' = [envs EXCEPT ![1] = Step(SetCommand(envs[1], tree'.velocity), ActionOf(1), posture, load)]
  BY FirstEnv DEF MuJoCoTick
<1> DEFINE e == SetCommand(envs[1], tree'.velocity)
<1>4. EnvOk(e, past.episode[1]) /\ e.step_count = envs[1].step_count /\ e.command = tree'.velocity
  BY <1>2, FirstEnv, CommandKeeps
<1>5. /\ running /\ program \in Falls /\ program' = program /\ past' = past
      /\ envs'[1].terminated => ~running'
  BY DEF MuJoCoTick, Falls
<1> HIDE DEF e
<1>6. envs' = [envs EXCEPT ![1] = Step(e, ActionOf(1), posture, load)]
  BY <1>3 DEF e
<1>7. posture \in Positions /\ load[1] \in Int /\ load[2] \in Int
  BY PosturesAre
<1>8. EnvInv' /\ envs'[1].command = e.command
  BY <1>4, <1>5, <1>6, <1>7, FirstSteps
<1> QED BY <1>1, <1>4, <1>8 DEF MissionInv

\* A tick of the evaluation keeps the robot, and tells it what the phase says.
LEMMA EvalKeeps ==
  FrameInv /\ EnvInv /\ EvalTick =>
    EnvInv' /\ envs'[1].command = EvalPhase(loop, world', envs[1].posture.tilt)[2]
<1> SUFFICES ASSUME FrameInv, EnvInv, EvalTick
             PROVE  EnvInv' /\ envs'[1].command = EvalPhase(loop, world', envs[1].posture.tilt)[2]
  OBVIOUS
<1> DEFINE c == EvalPhase(loop, world', envs[1].posture.tilt)[2]
           e == SetCommand(envs[1], c)
<1>1. c \in Twists
  BY DEF EvalPhase, Twists
<1> HIDE DEF c
<1>2. PICK posture \in Postures, load \in Loads :
        envs' = [envs EXCEPT ![1] = Step(e, ActionOf(1), posture, load)]
  BY FirstEnv DEF EvalTick, c
<1>3. EnvOk(e, past.episode[1]) /\ e.step_count = envs[1].step_count /\ e.command = c
  BY <1>1, FirstEnv, CommandKeeps
<1>4. /\ running /\ program \in Falls /\ program' = program /\ past' = past
      /\ envs'[1].terminated => ~running'
  BY DEF EvalTick, Falls
<1> HIDE DEF e
<1>5. posture \in Positions /\ load[1] \in Int /\ load[2] \in Int
  BY PosturesAre
<1>6. EnvInv' /\ envs'[1].command = e.command
  BY <1>2, <1>3, <1>4, <1>5, FirstSteps
<1> QED BY <1>3, <1>6 DEF c

\* A tick of the video keeps the robot, and tells it what the script says.
LEMMA VideoKeeps ==
  FrameInv /\ EnvInv /\ VideoTick =>
    /\ EnvInv'
    /\ envs'[1].command = IF loop.step \in (251 .. 425) \union (751 .. 1250) THEN "walk" ELSE "zero"
    /\ envs'[1].allow_mouth_contact => loop.step \in 426 .. 750
<1> DEFINE c == IF loop.step \in (251 .. 425) \union (751 .. 1250) THEN "walk" ELSE "zero"
           b == loop.step \in 426 .. 750
           d == SetCommand(envs[1], c)
           e == [d EXCEPT !.allow_mouth_contact = b]
<1> SUFFICES ASSUME FrameInv, EnvInv, VideoTick
             PROVE  EnvInv' /\ envs'[1].command = c /\ (envs'[1].allow_mouth_contact => b)
  OBVIOUS
<1>1. c \in Twists /\ b \in BOOLEAN
  BY DEF Twists
<1>2. PICK posture \in Postures :
        envs' = [envs EXCEPT ![1] = Step(e, ActionOf(1), posture, <<20, 0>>)]
  BY FirstEnv DEF VideoTick
<1> HIDE DEF c, b
<1>3. EnvOk(d, past.episode[1]) /\ d.step_count = envs[1].step_count /\ d.command = c
  BY <1>1, FirstEnv, CommandKeeps
<1> HIDE DEF d
<1>4. EnvOk(e, past.episode[1]) /\ e.step_count = d.step_count /\ e.command = d.command
  BY <1>1, <1>3, MouthKeeps
<1>5. e.allow_mouth_contact = b
  BY <1>1, <1>3, MouthKeeps, Zenon
<1>6. /\ running /\ program \in Falls /\ program' = program /\ past' = past
      /\ envs'[1].terminated => ~running'
  BY DEF VideoTick, Falls
<1> HIDE DEF e
<1>7. posture \in Positions /\ <<20, 0>>[1] \in Int /\ <<20, 0>>[2] \in Int
  BY PosturesAre
<1>8. EnvInv' /\ envs'[1].command = e.command
  BY <1>2, <1>3, <1>4, <1>6, <1>7, FirstSteps
<1>9. envs'[1].allow_mouth_contact = e.allow_mouth_contact
  BY <1>2, <1>3, <1>4, <1>6, <1>7, FirstSteps, Zenon
<1> QED BY <1>3, <1>4, <1>5, <1>8, <1>9, Zenon

\* A step of the push test keeps the robot.
LEMMA EnvelopeKeeps == FrameInv /\ EnvInv /\ EnvelopeTick => EnvInv'
<1> SUFFICES ASSUME FrameInv, EnvInv, EnvelopeTick PROVE EnvInv'
  OBVIOUS
<1> DEFINE ep == past.episode[1]
<1>1. /\ 1 \in 1 .. NumEnvs /\ ep \in 0 .. 1 /\ EnvOk(envs[1], ep)
      /\ envs \in [1 .. NumEnvs -> Envs(ActionNames)]
      /\ past.episode \in [1 .. NumEnvs -> 0 .. 1]
      /\ \A i \in 1 .. NumEnvs : EnvOk(envs[i], past.episode[i]) /\ ~envs[i].terminated
  BY FirstEnv, PastsWith DEF EnvInv, FrameInv, EnvelopeTick
<1>2. PICK posture \in {Standing, Fallen} :
        LET e    == Step(envs[1], ActionOf(1), posture, <<20, 0>>)
            next == loop.step = 59 /\ ~e.terminated /\ loop.iteration < Tests
        IN  /\ envs' = [envs EXCEPT ![1] = IF next THEN NewEnv ELSE e]
            /\ past' = IF next THEN [past EXCEPT !.episode[1] = 1 - @] ELSE past
            /\ running' = ~(e.terminated \/ (loop.step = 59 /\ ~next))
  BY DEF EnvelopeTick
<1> DEFINE e    == Step(envs[1], ActionOf(1), posture, <<20, 0>>)
           next == loop.step = 59 /\ ~e.terminated /\ loop.iteration < Tests
<1>3. program' = program /\ program \in Falls
  BY DEF EnvelopeTick, Falls
<1>4. CASE next
  <2>1. envs' = [envs EXCEPT ![1] = NewEnv] /\ past' = [past EXCEPT !.episode[1] = 1 - @]
    BY <1>2, <1>4
  <2>2. past'.episode = [past.episode EXCEPT ![1] = 1 - @]
    BY <2>1 DEF FrameInv, Pasts
  <2>3. /\ EnvOk(NewEnv, past'.episode[1]) /\ NewEnv \in Envs(ActionNames)
        /\ NewEnv.terminated = FALSE
    BY NewEnvKeeps DEF EnvOk
  <2>4. /\ envs' \in [1 .. NumEnvs -> Envs(ActionNames)] /\ envs'[1] = NewEnv
        /\ \A i \in 1 .. NumEnvs :
             i # 1 => envs'[i] = envs[i] /\ past'.episode[i] = past.episode[i]
    BY <1>1, <2>1, <2>2, <2>3
  <2> QED BY <1>1, <2>3, <2>4 DEF EnvInv
<1>5. CASE ~next
  <2>1. envs' = [envs EXCEPT ![1] = e] /\ past' = past
    BY <1>2, <1>5
  <2>2. envs'[1].terminated => ~running'
    BY <1>1, <1>2, <1>5, <2>1
  <2>3. posture \in Positions /\ <<20, 0>>[1] \in Int /\ <<20, 0>>[2] \in Int
    BY PosturesAre
  <2>4. running
    BY DEF EnvelopeTick
  <2>5. EnvOk(envs[1], past.episode[1])
    BY <1>1
  <2> QED BY <1>3, <2>1, <2>2, <2>3, <2>4, <2>5, FirstSteps
<1> QED BY <1>4, <1>5

\* A reset between iterations begins an episode.
LEMMA RestartKeeps ==
  ASSUME NEW e \in Envs(ActionNames), NEW episode
  PROVE  EnvOk(Restart(e), episode) /\ Restart(e).terminated = FALSE
                                   /\ Restart(e).step_count = 0
<1>1. EnvOk(Reset(e), episode) /\ Reset(e).terminated = FALSE /\ Reset(e).step_count = 0
  BY ResetKeeps
<1>2. "walk" \in Twists
  BY DEF Twists
<1> QED BY <1>1, <1>2, CommandKeeps DEF Restart

\* A collection of rollouts begins an episode for every robot.
LEMMA CollectKeeps == FrameInv /\ EnvInv /\ CollectRollouts => EnvInv'
<1> SUFFICES ASSUME FrameInv, EnvInv, CollectRollouts PROVE EnvInv'
  OBVIOUS
<1>1. \A i \in 1 .. NumEnvs : EnvOk(envs[i], past.episode[i]) /\ envs[i] \in Envs(ActionNames)
  BY DEF EnvInv, EnvOk
<1>2. /\ DOMAIN envs' = 1 .. NumEnvs
      /\ envs' = [i \in 1 .. NumEnvs |-> Restart(envs[i])]
  BY DEF CollectRollouts, FrameInv
<1>3. \A i \in 1 .. NumEnvs : /\ EnvOk(Restart(envs[i]), past'.episode[i])
                               /\ Restart(envs[i]).terminated = FALSE
  BY <1>1, RestartKeeps
<1>4. \A i \in 1 .. NumEnvs : Restart(envs[i]) \in Envs(ActionNames)
  BY <1>3 DEF EnvOk
<1>5. envs' \in [1 .. NumEnvs -> Envs(ActionNames)]
  BY <1>2, <1>4
<1> QED BY <1>2, <1>3, <1>5 DEF EnvInv

\* A step of a rollout resets the robots that end, so none is left terminated.
LEMMA RolloutKeeps ==
  FrameInv /\ EnvInv /\ RolloutStep =>
    EnvInv' /\ \A i \in DOMAIN envs : ~envs'[i].terminated
<1> SUFFICES ASSUME FrameInv, EnvInv, RolloutStep
             PROVE  EnvInv' /\ \A i \in DOMAIN envs : ~envs'[i].terminated
  OBVIOUS
<1>1. /\ \A i \in 1 .. NumEnvs : EnvOk(envs[i], past.episode[i]) /\ past.episode[i] \in 0 .. 1
      /\ DOMAIN envs = 1 .. NumEnvs
  BY FirstEnv DEF EnvInv, EnvOk, FrameInv
<1>2. PICK posture \in [DOMAIN envs -> {Standing, Fallen}] :
       LET stepped == [i \in DOMAIN envs |-> Step(envs[i], ActionOf(i), posture[i], <<300, 100>>)]
           done    == {i \in DOMAIN envs : stepped[i].terminated \/ Truncated(stepped[i])}
       IN  /\ envs' = [i \in DOMAIN envs |-> IF i \in done THEN Restart(stepped[i]) ELSE stepped[i]]
           /\ past' = [past EXCEPT !.episode =
                         [i \in DOMAIN envs |-> IF i \in done THEN 1 - @[i] ELSE @[i]]]
  BY DEF RolloutStep
<1> DEFINE stepped == [i \in DOMAIN envs |-> Step(envs[i], ActionOf(i), posture[i], <<300, 100>>)]
           done    == {i \in DOMAIN envs : stepped[i].terminated \/ Truncated(stepped[i])}
<1>3. /\ envs' = [i \in 1 .. NumEnvs |-> IF i \in done THEN Restart(stepped[i]) ELSE stepped[i]]
      /\ past' = [past EXCEPT !.episode =
                    [i \in DOMAIN envs |-> IF i \in done THEN 1 - @[i] ELSE @[i]]]
  BY <1>1, <1>2
<1>4. \A i \in 1 .. NumEnvs : i \notin done => past'.episode[i] = past.episode[i]
  <2> HIDE DEF done
  <2> QED BY <1>1, <1>3 DEF FrameInv, Pasts
<1>5. \A i \in 1 .. NumEnvs : EnvOk(stepped[i], past.episode[i])
  <2> SUFFICES ASSUME NEW i \in 1 .. NumEnvs PROVE EnvOk(stepped[i], past.episode[i])
    OBVIOUS
  <2> DEFINE ep == past.episode[i]
             e  == envs[i]
             load == <<300, 100>>
  <2>1. posture[i] \in Positions
    BY <1>1, PosturesAre
  <2>2. load[1] \in Int /\ load[2] \in Int
    OBVIOUS
  <2>3. stepped[i] = Step(e, <<ep, e.step_count>>, posture[i], load)
    BY <1>1 DEF ActionOf
  <2>4. EnvOk(e, ep) /\ ep \in 0 .. 1
    BY <1>1
  <2> HIDE DEF ep, e, load
  <2>5. EnvOk(Step(e, <<ep, e.step_count>>, posture[i], load), ep)
    BY <2>1, <2>2, <2>4, StepKeeps
  <2> QED BY <2>3, <2>5 DEF ep
<1>6. \A i \in 1 .. NumEnvs : i \notin done => ~stepped[i].terminated
  BY <1>1
<1> HIDE DEF stepped, done
<1>7. \A i \in 1 .. NumEnvs : /\ EnvOk(envs'[i], past'.episode[i])
                               /\ ~envs'[i].terminated
  <2> SUFFICES ASSUME NEW i \in 1 .. NumEnvs
               PROVE  EnvOk(envs'[i], past'.episode[i]) /\ ~envs'[i].terminated
    OBVIOUS
  <2>1. CASE i \in done
    <3>1. stepped[i] \in Envs(ActionNames)
      BY <1>5 DEF EnvOk
    <3>2. envs'[i] = Restart(stepped[i])
      BY <1>3, <2>1
    <3> QED BY <3>1, <3>2, RestartKeeps
  <2>2. CASE i \notin done
    <3>1. envs'[i] = stepped[i]
      BY <1>3, <2>2
    <3> QED BY <1>4, <1>5, <1>6, <2>2, <3>1
  <2> QED BY <2>1, <2>2
<1>8. envs' \in [1 .. NumEnvs -> Envs(ActionNames)]
  <2>1. DOMAIN envs' = 1 .. NumEnvs /\ envs' = [i \in 1 .. NumEnvs |-> envs'[i]]
    BY <1>3
  <2>2. \A i \in 1 .. NumEnvs : envs'[i] \in Envs(ActionNames)
    BY <1>7 DEF EnvOk
  <2> QED BY <2>1, <2>2
<1> QED BY <1>1, <1>7, <1>8 DEF EnvInv

\* A step that leaves the robots alone
LEMMA OthersKeep ==
  FrameInv /\ EnvInv /\ [Next]_vars /\ envs' = envs => EnvInv'
<1> SUFFICES ASSUME FrameInv, EnvInv, [Next]_vars, envs' = envs PROVE EnvInv'
  OBVIOUS
<1>1. program' = program
  BY Movers
<1>2. CASE \E i \in 1 .. NumEnvs : envs[i].terminated
  <2>1. ~running /\ program \in Falls
    BY <1>2 DEF EnvInv
  <2>2. program \in Falls => \/ MuJoCoTick \/ EvalTick \/ EnvelopeTick \/ VideoTick
                             \/ UNCHANGED vars
    BY Movers DEF Falls, Next, BrainNext, SimulationNext, TelemetryFrame, ImuVariance, DepthFrame,
       TrackFrame, SetTarget, ServoTick, DemoTick, RoutineTick, Preempt, PlannerTick, PlannerAbort,
       RigStep, RigInterrupted, RigHears, CollectRollouts, RolloutStep, Update, Command
  <2>3. UNCHANGED vars
    BY <2>1, <2>2 DEF MuJoCoTick, EvalTick, EnvelopeTick, VideoTick
  <2> QED BY <2>3 DEF vars, EnvInv
<1>3. CASE \A i \in 1 .. NumEnvs : ~envs[i].terminated
  <2>1. \A i \in 1 .. NumEnvs : EnvOk(envs'[i], past'.episode[i])
    <3>1. CASE past'.episode = past.episode
      BY <3>1 DEF EnvInv
    <3>2. CASE past'.episode # past.episode
      <4>1. EnvelopeTick \/ CollectRollouts \/ RolloutStep
        BY <3>2, PastMovers
      <4>2. EnvInv'
        BY <4>1, EnvelopeKeeps, CollectKeeps, RolloutKeeps
      <4> QED BY <4>2 DEF EnvInv
    <3> QED BY <3>1, <3>2
  <2> QED BY <1>3, <2>1 DEF EnvInv
<1> QED BY <1>2, <1>3

\* Every step keeps the robots and the mission.
LEMMA EnvStep == FrameInv /\ EnvInv /\ MissionInv /\ [Next]_vars => EnvInv' /\ MissionInv'
<1> SUFFICES ASSUME FrameInv, EnvInv, MissionInv, [Next]_vars PROVE EnvInv' /\ MissionInv'
  OBVIOUS
<1>1. program' = program
  BY Movers
<1>2. CASE MuJoCoTick
  BY <1>2, MuJoCoKeeps
<1>3. EnvInv'
  BY <1>2, EvalKeeps, VideoKeeps, EnvelopeKeeps, CollectKeeps, RolloutKeeps, OthersKeep, Movers
<1>4. program = "mujoco" => MuJoCoTick \/ UNCHANGED vars
  BY DEF Next, BrainNext, SimulationNext, TelemetryFrame, ImuVariance, DepthFrame,
       TrackFrame, SetTarget, ServoTick, DemoTick, RoutineTick, Preempt, PlannerTick, PlannerAbort,
       RigStep, RigInterrupted, RigHears, CollectRollouts, RolloutStep, Update, Command,
       EvalTick, EnvelopeTick, VideoTick
<1>5. CASE UNCHANGED vars
  BY <1>3, <1>5 DEF vars, MissionInv
<1> QED BY <1>1, <1>2, <1>3, <1>4, <1>5 DEF MissionInv

\* A new tree is at its beginning.
LEMMA TimedInit == TimedInv(NewTree) /\ NewTree.velocity = "zero"
<1> DEFINE none == [n \in Nodes |-> 0]
<1>1. none \in [Nodes -> 0 .. 4] /\ none \in [Nodes -> Nat]
  OBVIOUS
<1>2. none["FetchSequence"] = 0 /\ none["Approach"] = 0
  BY NodesAre
<1> HIDE DEF none
<1>3. NewTree = [at |-> none, steps |-> none, failures |-> 0, board |-> {}, velocity |-> "zero",
                 head |-> "zero", beak |-> "shut", clip |-> 0, did |-> {}, status |-> "RUNNING"]
  BY DEF NewTree, none
<1>4. NewTree \in TreeStates
  BY <1>1, <1>3 DEF TreeStates, Statuses, Velocities
<1> QED BY <1>2, <1>3, <1>4 DEF TimedInv, TimedRound, TimedVelocity

\* The robots begin an episode.
LEMMA EnvInit == Init => EnvInv /\ MissionInv
<1> SUFFICES ASSUME Init PROVE EnvInv /\ MissionInv
  OBVIOUS
<1>1. envs = [i \in 1 .. NumEnvs |-> NewEnv] /\ 1 \in 1 .. NumEnvs
  BY BrainAssumption DEF Init
<1>2. \A i \in 1 .. NumEnvs : /\ EnvOk(NewEnv, past.episode[i]) /\ NewEnv.terminated = FALSE
                               /\ NewEnv.command = "zero"
  BY NewEnvKeeps
<1>3. NewEnv \in Envs(ActionNames)
  BY <1>1, <1>2 DEF EnvOk
<1>4. EnvInv
  BY <1>1, <1>2, <1>3 DEF EnvInv
<1>5. tree = NewTree
  BY DEF Init
<1>6. TimedInv(tree) /\ tree.velocity = "zero"
  BY <1>5, TimedInit
<1> QED BY <1>1, <1>2, <1>4, <1>6 DEF MissionInv

\* The setpoint that drives the servos is the action the policy chose
\* DelaySteps steps before in the same episode, across every reset
\* (MicroduckMuJoCoEnv.step, BAMActuator.step_delay).
THEOREM SetpointsAreDelayed == Spec => []SetpointIsDelayed
<1> DEFINE IInv == FrameInv /\ EnvInv /\ MissionInv
<1>1. Init => IInv
  BY FrameInit, EnvInit
<1>2. IInv /\ [Next]_vars => IInv'
  BY FrameStep, EnvStep
<1>3. IInv => SetpointIsDelayed
  BY DEF FrameInv, EnvInv, EnvOk, DueAt, SetpointIsDelayed
<1> QED BY <1>1, <1>2, <1>3, PTL DEF Spec

\* No program steps a robot that lies on the ground: it resets it or ends.
THEOREM TheFallenAreNotStepped == Spec => NoStepAfterFall
<1> DEFINE IInv == FrameInv /\ EnvInv /\ MissionInv
<1>1. Init => IInv
  BY FrameInit, EnvInit
<1>2. IInv /\ [Next]_vars => IInv'
  BY FrameStep, EnvStep
<1>3. IInv /\ [Next]_vars =>
        [\A i \in DOMAIN envs :
           (envs[i].posture = Fallen \/ envs[i].posture.low \/ envs[i].posture.tilt > 104)
             => envs'[i] = envs[i] \/ envs'[i].step_count = 0]_envs
  <2> SUFFICES ASSUME FrameInv, EnvInv, [Next]_vars, envs' # envs, NEW i \in DOMAIN envs,
                      envs[i].posture = Fallen \/ envs[i].posture.low \/ envs[i].posture.tilt > 104
               PROVE  FALSE
    OBVIOUS
  <2>1. envs[i].terminated /\ ~running /\ program \in Falls
    BY DEF EnvInv, EnvOk, FrameInv
  <2>2. \/ MuJoCoTick \/ EvalTick \/ EnvelopeTick \/ VideoTick \/ CollectRollouts \/ RolloutStep
    BY Movers
  <2> QED BY <2>1, <2>2 DEF Falls, MuJoCoTick, EvalTick, EnvelopeTick, VideoTick, CollectRollouts,
             RolloutStep
<1> QED BY <1>1, <1>2, <1>3, PTL DEF Spec, NoStepAfterFall

-----------------------------------------------------------------------------
\* A sample of a program that keeps no history of samples
LEMMA SampledAside ==
  ASSUME SensorInv, program # "depth", program' = program, past' = past,
         NEW b \in BOOLEAN, NEW w, Aside(ws, w), ws' = UpdateObstacleClose(w, b)
  PROVE  SensorInv'
<1>1. /\ w \in WorldStates /\ w.obstacles = ws.obstacles
      /\ w.battery = ws.battery /\ w.is_brownout_risk = ws.is_brownout_risk
  BY DEF Aside
<1>2. /\ ws' \in WorldStates
      /\ ws'.battery = ws.battery /\ ws'.is_brownout_risk = ws.is_brownout_risk
      /\ ws'.obstacle_close = Majority(ws'.obstacles)
  <2>1. /\ UpdateObstacleClose(w, b) \in WorldStates
        /\ UpdateObstacleClose(w, b).battery = w.battery
        /\ UpdateObstacleClose(w, b).is_brownout_risk = w.is_brownout_risk
        /\ UpdateObstacleClose(w, b).obstacles = Slide(w.obstacles, b)
        /\ UpdateObstacleClose(w, b).obstacle_close = Majority(Slide(w.obstacles, b))
    BY <1>1, ObstacleIs
  <2> QED BY <1>1, <2>1
<1>3. BatteryInv'
  BY <1>2 DEF SensorInv, BatteryInv
<1>4. Len(ws'.obstacles) \in Nat
  <2>1. ws'.obstacles \in Windows
    BY <1>2, WorldStatesAre
  <2> QED BY <2>1, WindowIs
<1>5. ObstacleInv'
  BY <1>2, <1>4 DEF SensorInv, ObstacleInv
<1> QED BY <1>2, <1>3, <1>5 DEF SensorInv

\* A tick of the evaluation keeps the sensors sound.
LEMMA EvalSenses == SensorInv /\ FrameInv /\ EnvInv /\ EvalTick => SensorInv'
<1> SUFFICES ASSUME SensorInv, FrameInv, EnvInv, EvalTick PROVE SensorInv'
  OBVIOUS
<1> DEFINE w == UpdateOrientation(ws, envs[1].posture.tilt)
           distance == Larger(200, 1500 - 26 * (loop.step - 25))
<1>1. program = "eval" /\ program' = program /\ past' = past /\ ws' = EvalSense(w, loop.step)
  BY DEF EvalTick
<1>2. loop.step \in Nat
  BY <1>1, LoopsWith DEF FrameInv
<1>3. Aside(ws, w)
  <2>1. envs[1].posture.tilt \in Int
    BY FirstEnv, EnvFields
  <2> QED BY <2>1, OrientationIs DEF SensorInv
<1>4. w \in WorldStates
  BY <1>3 DEF Aside
<1> HIDE DEF w
<1>5. Aside(ws, UpdateBallVisible(w, FALSE)) /\ Aside(ws, UpdateBallVisible(w, TRUE))
  BY <1>3, <1>4, BallIs DEF Aside
<1>6. distance \in Nat
  BY <1>2 DEF Larger
<1> DEFINE found == [UpdateBallVisible(w, TRUE) EXCEPT !.forward_clearance = distance]
           near  == distance < 280
           lost  == UpdateBallVisible(w, FALSE)
<1>7. ws' = CASE loop.step < 25       -> UpdateObstacleClose(lost, FALSE)
              [] loop.step \in 25 .. 74 -> UpdateObstacleClose(found, near)
              [] OTHER                -> UpdateObstacleClose(w, TRUE)
  BY <1>1 DEF EvalSense
<1>8. near \in BOOLEAN
  OBVIOUS
<1>9. Aside(ws, found)
  <2> DEFINE v == UpdateBallVisible(w, TRUE)
  <2>1. v \in WorldStates /\ Aside(ws, v)
    BY <1>5 DEF Aside
  <2> HIDE DEF v, distance
  <2>2. Aside(v, [v EXCEPT !.forward_clearance = distance])
    BY <1>6, <2>1, ClearanceIs
  <2>3. Aside(ws, [v EXCEPT !.forward_clearance = distance])
    BY <2>1, <2>2 DEF Aside
  <2> QED BY <2>3 DEF v
<1>13. Aside(ws, lost)
  BY <1>5
<1> HIDE DEF found, near, lost
<1>10. CASE loop.step < 25
  <2>1. loop.step \notin 25 .. 74
    BY <1>2, <1>10
  <2>2. ws' = UpdateObstacleClose(lost, FALSE)
    BY <1>7, <1>10, <2>1, Zenon
  <2>4. \A b \in BOOLEAN : ws' = UpdateObstacleClose(lost, b) => SensorInv'
    BY <1>1, <1>13, SampledAside
  <2> QED BY <2>2, <2>4, Zenon
<1>11. CASE loop.step \in 25 .. 74
  <2>1. ~(loop.step < 25)
    BY <1>11
  <2>2. ws' = UpdateObstacleClose(found, near)
    BY <1>7, <1>11, <2>1, Zenon
  <2> QED BY <1>1, <1>8, <1>9, <2>2, SampledAside
<1>12. CASE loop.step > 74
  <2>1. ~(loop.step < 25) /\ loop.step \notin 25 .. 74
    BY <1>2, <1>12
  <2>2. ws' = UpdateObstacleClose(w, TRUE)
    BY <1>7, <2>1, Zenon
  <2>3. \A b \in BOOLEAN : ws' = UpdateObstacleClose(w, b) => SensorInv'
    BY <1>1, <1>3, SampledAside
  <2> QED BY <2>2, <2>3, Zenon
<1> QED BY <1>2, <1>10, <1>11, <1>12

\* A tick of the follower keeps the sensors sound.
LEMMA ServoSenses == SensorInv /\ VisionInv' /\ ServoTick => SensorInv'
<1> SUFFICES ASSUME SensorInv, VisionInv', ServoTick PROVE SensorInv'
  OBVIOUS
<1>1. vision' \in Trackers
  BY DEF VisionInv
<1>2. vision'.sight \in 0 .. 1
  BY <1>1, TrackersAre DEF Sights
<1>3. vision'.locked \in BOOLEAN
  BY <1>1, TrackersAre
<1>4. PICK visual \in {vision'.sight, 1} : ws' = UpdateVisualTracking(ws, vision'.locked, visual)
  BY DEF ServoTick
<1>5. visual \in 0 .. 1
  BY <1>2
<1> DEFINE locked == vision'.locked
<1>6. Aside(ws, UpdateVisualTracking(ws, locked, visual))
  <2>1. locked \in BOOLEAN /\ ws \in WorldStates
    BY <1>3 DEF SensorInv
  <2> HIDE DEF locked
  <2> QED BY <1>5, <2>1, SensesAside
<1>7. program' = program /\ past' = past
  BY DEF ServoTick
<1> QED BY <1>4, <1>6, <1>7, AsideKeeps

\* Every step keeps the sensors sound.
LEMMA SensorStep ==
  SensorInv /\ FrameInv /\ EnvInv /\ VisionInv' /\ [Next]_vars => SensorInv'
<1> SUFFICES ASSUME SensorInv, FrameInv, EnvInv, VisionInv', [Next]_vars PROVE SensorInv'
  OBVIOUS
<1>1. program' = program
  BY Movers
<1>2. CASE TelemetryFrame \/ DepthFrame \/ ServoTick \/ EvalTick
  BY <1>2, TelemetryKeeps, DepthKeeps, ServoSenses, EvalSenses
<1>3. CASE ImuVariance
  <2>1. PICK variance \in {20, 30, 40, 60, 70} : ws' = UpdateRoughness(ws, variance)
    BY <1>3 DEF ImuVariance
  <2>2. Aside(ws, UpdateRoughness(ws, variance))
    <3>1. variance \in Int
      OBVIOUS
    <3> QED BY <3>1, RoughnessIs DEF SensorInv
  <2> QED BY <1>1, <1>3, <2>1, <2>2, AsideKeeps DEF ImuVariance
<1>4. CASE MuJoCoTick
  <2>1. ws' = UpdateOrientation(ws, envs[1].obs.tilt) /\ past' = past
    BY <1>4 DEF MuJoCoTick
  <2>2. envs[1].obs.tilt \in Int
    BY FirstEnv, EnvFields
  <2>3. Aside(ws, UpdateOrientation(ws, envs[1].obs.tilt))
    BY <2>2, OrientationIs DEF SensorInv
  <2> QED BY <1>1, <2>1, <2>3, AsideKeeps
<1>5. CASE /\ ws' = ws
           /\ ~(TelemetryFrame \/ DepthFrame \/ ServoTick \/ EvalTick \/ ImuVariance \/ MuJoCoTick)
  <2>1. Aside(ws, ws')
    BY <1>5 DEF Aside, SensorInv
  <2>2. past'.volts = past.volts /\ past'.near = past.near /\ past'.far = past.far
    BY <1>5, PastMovers
  <2> QED BY <1>1, <2>1, <2>2, AsideKeeps
<1> QED BY <1>2, <1>3, <1>4, <1>5, Movers

\* The sensors begin sound.
LEMMA SensorInit == Init => SensorInv
<1> SUFFICES ASSUME Init PROVE SensorInv
  OBVIOUS
<1>1. ws = NewWorldState /\ past = NewPast
  BY DEF Init
<1>2. <<>> \in Windows
  <2>1. <<>> \in [1 .. 0 -> BOOLEAN] /\ 0 \in 0 .. Window
    BY WindowAssumption
  <2> QED BY <2>1 DEF Windows
<1>3. ws \in WorldStates
  BY <1>1, <1>2, WorldStatesAre DEF NewWorldState, Levels
<1>4. BatteryInv /\ ObstacleInv
  BY <1>1 DEF BatteryInv, ObstacleInv, NewWorldState, NewPast
<1> QED BY <1>3, <1>4 DEF SensorInv

\* What the programs with sensors keep
SensesInv == FrameInv /\ VisionInv /\ EnvInv /\ MissionInv /\ SensorInv

\* The sensors, the frame, the robots, the mission and the tracker together are
\* inductive.
LEMMA SensesStep == SensesInv /\ [Next]_vars => SensesInv'
BY FrameStep, VisionStep, EnvStep, SensorStep DEF SensesInv

\* They hold at the beginning.
LEMMA SensesInit == Init => SensesInv
BY FrameInit, VisionInit, EnvInit, SensorInit DEF SensesInv

\* The lockout is the side of the hysteresis the voltage was last on
\* (WorldState.update_battery_voltage).
THEOREM LockoutFollows == Spec => []LockoutFollowsVoltage
<1>1. SensesInv => LockoutFollowsVoltage
  BY DEF SensesInv, SensorInv, BatteryInv, LockoutFollowsVoltage
<1> QED BY <1>1, SensesInit, SensesStep, PTL DEF Spec

\* Four near frames in a row raise the obstacle flag and two others lower it:
\* so it is for windows of up to five samples, the length in the code.
THEOREM ObstaclesAreAnswered ==
  ASSUME Window <= 5 PROVE Spec => []ObstacleAnswers
<1>1. SensesInv => ObstacleAnswers
  <2> SUFFICES ASSUME SensesInv PROVE ObstacleAnswers
    OBVIOUS
  <2> DEFINE w == ws.obstacles
  <2>1. w \in Windows /\ Len(w) \in Nat /\ past.near \in Nat /\ past.far \in Nat
    <3>1. ws.obstacles \in Windows
      BY WorldStatesAre DEF SensesInv, SensorInv
    <3>2. past.near \in 0 .. Window /\ past.far \in 0 .. Window
      BY PastsWith DEF SensesInv, FrameInv
    <3>3. \A n \in 0 .. Window : n \in Nat
      OBVIOUS
    <3> QED BY <3>1, <3>2, <3>3, WindowIs
  <2>2. /\ past.near <= Len(w) /\ past.far <= Len(w)
        /\ \A k \in 0 .. past.near - 1 : w[Len(w) - k]
        /\ \A k \in 0 .. past.far - 1 : ~w[Len(w) - k]
        /\ Len(w) > 0 => (ws.obstacle_close <=> Majority(w))
    BY DEF SensesInv, SensorInv, ObstacleInv
  <2> HIDE DEF w
  <2>3. ASSUME past.near >= 4 PROVE ws.obstacle_close
    <3>0. Len(w) >= 4 /\ \A k \in 0 .. 3 : k \in 0 .. past.near - 1
      BY <2>1, <2>2, <2>3
    <3>1. Len(w) >= 4 /\ \A k \in 0 .. 3 : w[Len(w) - k]
      BY <2>2, <3>0
    <3>2. Majority(w)
      BY <2>1, <3>1, MajorityOf
    <3> QED BY <2>1, <2>2, <3>1, <3>2
  <2>4. ASSUME past.far >= 2 PROVE ~ws.obstacle_close
    <3>1. Len(w) >= 2 /\ \A k \in 0 .. 1 : ~w[Len(w) - k]
      BY <2>1, <2>2, <2>4, WindowAssumption
    <3>2. ~Majority(w)
      BY <2>1, <3>1, MajorityOf
    <3> QED BY <2>1, <2>2, <3>1, <3>2
  <2> QED BY <2>3, <2>4 DEF ObstacleAnswers
<1> QED BY <1>1, SensesInit, SensesStep, PTL DEF Spec

-----------------------------------------------------------------------------
(* The attitude filter *)

\* Dividing what lies within bounds times the divisor
LEMMA Quotient ==
  ASSUME NEW m \in Nat \ {0}, NEW bound \in Nat, NEW x \in Int,
         -(bound * m) <= x, x <= bound * m
  PROVE  x \div m \in -bound .. bound
<1> DEFINE q == x \div m
<1>1. q \in Int /\ q * m <= x /\ x < q * m + m
  OBVIOUS
<1> HIDE DEF q
<1>2. ASSUME q > bound PROVE FALSE
  <2>1. (q - bound - 1) * m >= 0
    BY <1>1, <1>2
  <2>2. (q - bound - 1) * m = q * m - bound * m - m
    BY <1>1
  <2> QED BY <1>1, <2>1, <2>2
<1>3. ASSUME q < -bound PROVE FALSE
  <2>1. (-bound - q - 1) * m >= 0
    BY <1>1, <1>3
  <2>2. (-bound - q - 1) * m = -(bound * m) - q * m - m
    BY <1>1
  <2> QED BY <1>1, <2>1, <2>2
<1> QED BY <1>1, <1>2, <1>3 DEF q

\* A trim is attenuated to one within its limits, and to none at full speed.
LEMMA AttenuateIs ==
  ASSUME NEW trim \in Int, NEW vx \in Int
  PROVE  /\ Attenuate(trim, vx) \in -MaxTrim .. MaxTrim
         /\ vx >= MaxSpeed => Attenuate(trim, vx) = 0
<1> DEFINE speed == Clip(IF vx < 0 THEN -vx ELSE vx, 0, MaxSpeed)
           c     == Clip(trim, -MaxTrim, MaxTrim)
           s     == MaxSpeed - speed
<1>1. MaxTrim \in Nat /\ MaxSpeed \in Nat \ {0}
  BY LocomotionAssumption
<1>2. c \in Int /\ -MaxTrim <= c /\ c <= MaxTrim
  BY <1>1 DEF Clip
<1>3. s \in Int /\ 0 <= s /\ s <= MaxSpeed /\ (vx >= MaxSpeed => s = 0)
  BY <1>1 DEF Clip
<1>4. Attenuate(trim, vx) = (c * s) \div MaxSpeed
  BY DEF Attenuate
<1> HIDE DEF c, s
<1>5. -(MaxTrim * MaxSpeed) <= c * s /\ c * s <= MaxTrim * MaxSpeed
  <2>1. (MaxTrim - c) * s >= 0 /\ (MaxTrim + c) * s >= 0 /\ MaxTrim * (MaxSpeed - s) >= 0
    BY <1>1, <1>2, <1>3
  <2>2. /\ (MaxTrim - c) * s = MaxTrim * s - c * s
        /\ (MaxTrim + c) * s = MaxTrim * s + c * s
        /\ MaxTrim * (MaxSpeed - s) = MaxTrim * MaxSpeed - MaxTrim * s
    BY <1>1, <1>2, <1>3
  <2> QED BY <1>1, <1>2, <1>3, <2>1, <2>2
<1>6. (c * s) \div MaxSpeed \in -MaxTrim .. MaxTrim
  <2> DEFINE x == c * s
  <2>1. x \in Int /\ -(MaxTrim * MaxSpeed) <= x /\ x <= MaxTrim * MaxSpeed
    BY <1>2, <1>3, <1>5
  <2> HIDE DEF x
  <2>2. x \div MaxSpeed \in -MaxTrim .. MaxTrim
    BY <1>1, <2>1, Quotient
  <2> QED BY <2>2 DEF x
<1>7. s = 0 => (c * s) \div MaxSpeed = 0
  <2>1. s = 0 => c * s = 0
    BY <1>2
  <2>2. 0 \div MaxSpeed = 0
    BY <1>1
  <2> QED BY <2>1, <2>2
<1> QED BY <1>3, <1>4, <1>6, <1>7

\* Each filtered command at full speed has taken one from what a trim may be.
TrimInv ==
  /\ engine \in [filtered : [1 .. 2 -> Int], pose : [1 .. 2 -> Int], raised : BOOLEAN]
  /\ past.fast \in 0 .. MaxTrim
  /\ \A i \in 1 .. 2 : /\ engine.filtered[i] <= MaxTrim - past.fast
                       /\ engine.filtered[i] >= past.fast - MaxTrim

\* A command that goes through the attitude filter keeps the bound on the
\* trims.
LEMMA FilterKeeps ==
  ASSUME TrimInv, NEW trims, trims[1] \in Int, trims[2] \in Int, NEW vx \in Int, past'.fast =
           IF vx >= MaxSpeed THEN IF past.fast < MaxTrim THEN past.fast + 1 ELSE past.fast ELSE 0,
         engine' = EngineStep(engine, 5, trims, vx)
  PROVE  TrimInv'
<1> DEFINE f == Process(engine.filtered, trims, vx)
<1>0. MaxTrim \in Nat
  BY LocomotionAssumption
<1>1. engine' = [engine EXCEPT !.filtered = f, !.pose = f]
  BY DEF EngineStep
<1>2. \A i \in 1 .. 2 :
        /\ Attenuate(trims[i], vx) \in -MaxTrim .. MaxTrim
        /\ vx >= MaxSpeed => Attenuate(trims[i], vx) = 0
  <2>1. \A i \in 1 .. 2 : trims[i] \in Int
    OBVIOUS
  <2> QED BY <2>1, AttenuateIs
<1>3. \A i \in 1 .. 2 :
        f[i] = engine.filtered[i] + Clip(Attenuate(trims[i], vx) - engine.filtered[i], -1, 1)
  BY DEF Process
<1>4. DOMAIN f = 1 .. 2 /\ f = [i \in 1 .. 2 |-> f[i]]
  BY DEF Process
<1> HIDE DEF f
<1>5. past.fast \in 0 .. MaxTrim /\ past'.fast \in 0 .. MaxTrim
  BY <1>0 DEF TrimInv
<1>6. ASSUME NEW i \in 1 .. 2
      PROVE  f[i] \in Int /\ f[i] <= MaxTrim - past'.fast /\ f[i] >= past'.fast - MaxTrim
  <2> DEFINE a == Attenuate(trims[i], vx)
             g == engine.filtered[i]
  <2>1. /\ g \in Int /\ g <= MaxTrim - past.fast /\ g >= past.fast - MaxTrim
        /\ a \in -MaxTrim .. MaxTrim /\ (vx >= MaxSpeed => a = 0)
        /\ f[i] = g + Clip(a - g, -1, 1)
    BY <1>2, <1>3 DEF TrimInv
  <2> HIDE DEF a, g
  <2> QED BY <1>0, <1>5, <2>1 DEF Clip
<1>7. f \in [1 .. 2 -> Int]
  BY <1>4, <1>6
<1>8. /\ engine' \in [filtered : [1 .. 2 -> Int], pose : [1 .. 2 -> Int], raised : BOOLEAN]
      /\ engine'.filtered = f
  BY <1>1, <1>7 DEF TrimInv
<1> QED BY <1>5, <1>6, <1>8 DEF TrimInv

\* Every step keeps the bound on the trims.
LEMMA TrimStep == TrimInv /\ FrameInv /\ [Next]_vars => TrimInv'
<1> SUFFICES ASSUME TrimInv, FrameInv, [Next]_vars PROVE TrimInv'
  OBVIOUS
<1>1. CASE Command
  <2>1. PICK length \in {2, 3, 5, 13}, trims \in {<<0, 0>>, <<99, -99>>, <<-3, 99>>},
             vx \in {0, -40, 80, 99} :
        /\ engine' = EngineStep(engine, length, trims, vx)
        /\ past' = CASE length # 5 -> past
                     [] length = 5 /\ vx >= MaxSpeed ->
                          [past EXCEPT !.fast = IF @ < MaxTrim THEN @ + 1 ELSE @]
                     [] OTHER -> [past EXCEPT !.fast = 0]
    BY <1>1 DEF Command
  <2>2. trims[1] \in Int /\ trims[2] \in Int /\ vx \in Int
    OBVIOUS
  <2>3. CASE length = 5
    <3>1. past'.fast = IF vx >= MaxSpeed
                       THEN IF past.fast < MaxTrim THEN past.fast + 1 ELSE past.fast ELSE 0
      BY <2>1, <2>3 DEF FrameInv, Pasts
    <3> QED BY <2>1, <2>2, <2>3, <3>1, FilterKeeps
  <2>4. CASE length # 5
    <3>1. past' = past
      BY <2>1, <2>4
    <3>2. \/ engine' = [engine EXCEPT !.pose = trims]
          \/ engine' = [engine EXCEPT !.pose = <<0, 0>>]
          \/ engine' = [engine EXCEPT !.raised = TRUE]
      BY <2>1, <2>4 DEF EngineStep
    <3>3. trims \in [1 .. 2 -> Int] /\ <<0, 0>> \in [1 .. 2 -> Int]
      OBVIOUS
    <3>4. /\ engine' \in [filtered : [1 .. 2 -> Int], pose : [1 .. 2 -> Int], raised : BOOLEAN]
          /\ engine'.filtered = engine.filtered
      <4> DEFINE Engines == [filtered : [1 .. 2 -> Int], pose : [1 .. 2 -> Int], raised : BOOLEAN]
      <4>1. \A pose \in [1 .. 2 -> Int] : /\ [engine EXCEPT !.pose = pose] \in Engines
                                          /\ [engine EXCEPT !.pose = pose].filtered = engine.filtered
        BY DEF TrimInv
      <4>2. /\ [engine EXCEPT !.raised = TRUE] \in Engines
            /\ [engine EXCEPT !.raised = TRUE].filtered = engine.filtered
        BY DEF TrimInv
      <4> HIDE DEF Engines
      <4>3. engine' \in Engines /\ engine'.filtered = engine.filtered
        <5>1. CASE engine' = [engine EXCEPT !.pose = trims]
          BY <3>3, <4>1, <5>1
        <5>2. CASE engine' = [engine EXCEPT !.pose = <<0, 0>>]
          BY <3>3, <4>1, <5>2
        <5>3. CASE engine' = [engine EXCEPT !.raised = TRUE]
          BY <4>2, <5>3, Zenon
        <5> QED BY <3>2, <5>1, <5>2, <5>3
      <4> QED BY <4>3 DEF Engines
    <3> QED BY <3>1, <3>4 DEF TrimInv
  <2> QED BY <2>3, <2>4
<1>2. CASE EvalTick
  <2>1. engine' = [engine EXCEPT !.pose = <<0, 0>>] /\ past' = past
    <3>1. EngineStep(engine, 13, <<0, 0>>, 0) = [engine EXCEPT !.pose = <<0, 0>>]
      BY DEF EngineStep
    <3> QED BY <1>2, <3>1 DEF EvalTick
  <2>2. <<0, 0>> \in [1 .. 2 -> Int]
    OBVIOUS
  <2>3. /\ engine' \in [filtered : [1 .. 2 -> Int], pose : [1 .. 2 -> Int], raised : BOOLEAN]
        /\ engine'.filtered = engine.filtered
    BY <2>1, <2>2 DEF TrimInv
  <2> QED BY <2>1, <2>3 DEF TrimInv
<1>3. CASE engine' = engine /\ ~Command
  <2>1. past'.fast = past.fast
    BY <1>3, PastMovers
  <2> QED BY <1>3, <2>1 DEF TrimInv
<1> QED BY <1>1, <1>2, <1>3, Movers

\* Trims fade out at full speed: after MaxTrim filtered commands at full
\* forward speed in a row both are zero, whatever was commanded in between
\* past the filter (AttitudeCommandFilter.process).
THEOREM TrimsFadeOut == Spec => []TrimsFade
<1>1. Init => TrimInv
  <2>1. <<0, 0>> \in [1 .. 2 -> Int]
    OBVIOUS
  <2> QED BY <2>1, LocomotionAssumption DEF Init, NewEngine, NewPast, TrimInv
<1>2. TrimInv /\ FrameInv /\ [Next]_vars => TrimInv' /\ FrameInv'
  BY TrimStep, FrameStep
<1>3. TrimInv => TrimsFade
  <2> SUFFICES ASSUME TrimInv, past.fast >= MaxTrim PROVE engine.filtered = <<0, 0>>
    BY DEF TrimsFade
  <2>1. engine.filtered \in [1 .. 2 -> Int] /\ past.fast = MaxTrim /\ MaxTrim \in Nat
    BY LocomotionAssumption DEF TrimInv
  <2>2. engine.filtered[1] = 0 /\ engine.filtered[2] = 0
    BY <2>1 DEF TrimInv
  <2> QED BY <2>1, <2>2
<1> QED BY <1>1, <1>2, <1>3, FrameInit, PTL DEF Spec

-----------------------------------------------------------------------------
(* The advantages *)

\* The steps that enter the advantage of step t, in closed form: those up to
\* the end of the episode, and the value behind the last step
Rest(done, i, t) == {s \in t .. Len(done) + 1 : \A u \in t .. s - 1 : i \notin done[u]}

\* The recursion of Credit, and the function it is to define
Earlier(done, i, f, t) ==
  IF t > Len(done) THEN {}
  ELSE {t} \union (IF i \in done[t] THEN {} ELSE {t + 1} \union f[t + 1])

Rests(done, i) ==
  [t \in 1 .. Len(done) + 1 |-> IF t > Len(done) THEN {} ELSE Rest(done, i, t)]

\* The closed form obeys the equation of the recursion.
LEMMA RestIs ==
  ASSUME NEW done, Len(done) \in Nat, NEW i, NEW t \in 1 .. Len(done)
  PROVE  Rest(done, i, t) =
           {t} \union (IF i \in done[t] THEN {}
                       ELSE {t + 1} \union (IF t + 1 > Len(done) THEN {} ELSE Rest(done, i, t + 1)))
<1> DEFINE n == Len(done)
<1>0. n \in Nat /\ t \in 1 .. n
  OBVIOUS
<1>1. CASE i \in done[t]
  <2>1. ASSUME NEW s \in t .. n + 1, \A u \in t .. s - 1 : i \notin done[u] PROVE s = t
    BY <1>0, <1>1, <2>1
  <2>2. t \in Rest(done, i, t)
    BY <1>0 DEF Rest
  <2> QED BY <1>1, <2>1, <2>2 DEF Rest
<1>2. CASE i \notin done[t] /\ t = n
  <2>1. t .. n + 1 = {t, t + 1}
    BY <1>0, <1>2
  <2>2. t \in Rest(done, i, t)
    BY <1>0 DEF Rest
  <2>3. t + 1 \in Rest(done, i, t)
    <3>1. \A u \in t .. (t + 1) - 1 : u = t
      BY <1>0
    <3> QED BY <1>2, <2>1, <3>1 DEF Rest
  <2>4. Rest(done, i, t) \subseteq {t, t + 1}
    BY <2>1 DEF Rest
  <2> QED BY <1>0, <1>2, <2>2, <2>3, <2>4
<1>3. CASE i \notin done[t] /\ t < n
  <2>1. t \in Rest(done, i, t) /\ t + 1 \in Rest(done, i, t + 1)
    BY <1>0, <1>3 DEF Rest
  <2>2. ASSUME NEW s \in Rest(done, i, t + 1) PROVE s \in Rest(done, i, t)
    <3>1. s \in t + 1 .. n + 1 /\ \A u \in t + 1 .. s - 1 : i \notin done[u]
      BY <2>2 DEF Rest
    <3>2. s \in t .. n + 1
      BY <1>0, <3>1
    <3>3. \A u \in t .. s - 1 : u = t \/ u \in t + 1 .. s - 1
      BY <1>0, <3>1
    <3> QED BY <1>3, <3>1, <3>2, <3>3 DEF Rest
  <2>3. ASSUME NEW s \in Rest(done, i, t), s # t PROVE s \in Rest(done, i, t + 1)
    <3>1. s \in t .. n + 1 /\ \A u \in t .. s - 1 : i \notin done[u]
      BY <2>3 DEF Rest
    <3>2. s \in t + 1 .. n + 1
      BY <1>0, <2>3, <3>1
    <3>3. \A u \in t + 1 .. s - 1 : u \in t .. s - 1
      BY <1>0, <3>1
    <3> QED BY <3>1, <3>2, <3>3 DEF Rest
  <2>4. ~(t + 1 > n)
    BY <1>0, <1>3
  <2> QED BY <1>3, <2>1, <2>2, <2>3, <2>4
<1> QED BY <1>0, <1>1, <1>2, <1>3

\* The recursion is its closed form: two solutions differ at no last step.
LEMMA CreditIs ==
  ASSUME NEW done, Len(done) \in Nat, NEW i
  PROVE  Credit(done, i) = Rests(done, i)
<1> DEFINE n == Len(done)
           F(f) == [t \in 1 .. n + 1 |-> Earlier(done, i, f, t)]
           g == Rests(done, i)
<1>0. n \in Nat
  OBVIOUS
<1>1. Credit(done, i) = CHOOSE f : f = F(f)
  BY DEF Credit, Earlier
<1>2. g = F(g)
  <2>1. ASSUME NEW t \in 1 .. n + 1 PROVE g[t] = Earlier(done, i, g, t)
    <3>1. CASE t > n
      BY <3>1 DEF Rests, Earlier
    <3>2. CASE ~(t > n)
      <4>1. t \in 1 .. n /\ t + 1 \in 1 .. n + 1
        BY <1>0, <3>2
      <4>2. g[t] = Rest(done, i, t)
        BY <3>2 DEF Rests
      <4>3. g[t + 1] = IF t + 1 > n THEN {} ELSE Rest(done, i, t + 1)
        BY <4>1 DEF Rests
      <4>4. Rest(done, i, t) = {t} \union (IF i \in done[t] THEN {} ELSE {t + 1} \union g[t + 1])
        BY <4>1, <4>3, RestIs
      <4> QED BY <3>2, <4>2, <4>4 DEF Earlier
    <3> QED BY <3>1, <3>2
  <2>2. g = [t \in 1 .. n + 1 |-> g[t]]
    BY DEF Rests
  <2> QED BY <2>1, <2>2
<1>3. ASSUME NEW f, f = F(f) PROVE f = g
  <2> DEFINE wrong == {t \in 1 .. n + 1 : f[t] # g[t]}
  <2>1. wrong = {}
    <3> SUFFICES ASSUME wrong # {} PROVE FALSE
      OBVIOUS
    <3>1. PICK t \in wrong : \A u \in wrong : u <= t
      <4>1. n + 1 \in Nat /\ wrong \in SUBSET (1 .. n + 1)
        BY <1>0
      <4> HIDE DEF wrong
      <4> QED BY <4>1, EndsExist
    <3>2. t \in 1 .. n + 1 /\ f[t] # g[t]
      OBVIOUS
    <3>3. f[t] = Earlier(done, i, f, t) /\ g[t] = Earlier(done, i, g, t)
      BY <1>2, <1>3, <3>2
    <3>4. CASE t > n
      BY <3>2, <3>3, <3>4 DEF Earlier
    <3>5. CASE ~(t > n)
      <4>1. t + 1 \in 1 .. n + 1 /\ t + 1 \notin wrong
        BY <1>0, <3>1, <3>2, <3>5
      <4>2. f[t + 1] = g[t + 1]
        BY <4>1
      <4> QED BY <3>2, <3>3, <4>2 DEF Earlier
    <3> QED BY <3>4, <3>5
  <2>2. f = [t \in 1 .. n + 1 |-> f[t]] /\ g = [t \in 1 .. n + 1 |-> g[t]]
    BY <1>3 DEF Rests
  <2> QED BY <2>1, <2>2
<1> HIDE DEF F, g
<1>4. (CHOOSE f : f = F(f)) = F(CHOOSE f : f = F(f))
  BY <1>2
<1>5. Credit(done, i) = g
  BY <1>1, <1>3, <1>4
<1> QED BY <1>5 DEF g

\* The advantage of a step is made of the rest of its episode in the rollout,
\* for every length of the rollout and wherever episodes end in it
\* (compute_gae of train_smoke.py).
THEOREM CreditStays == Spec => []CreditStaysInEpisode
<1>1. FrameInv => CreditStaysInEpisode
  <2> SUFFICES ASSUME FrameInv, program = "train", NEW i \in DOMAIN envs, NEW t \in DOMAIN loop.done
               PROVE  Credit(loop.done, i)[t] =
                        {s \in t .. Len(loop.done) + 1 : \A u \in t .. s - 1 : i \notin loop.done[u]}
    BY DEF CreditStaysInEpisode
  <2> DEFINE done == loop.done
  <2>1. done \in Seq(SUBSET (1 .. NumEnvs))
    BY LoopsWith DEF FrameInv
  <2> HIDE DEF done
  <2>2. Len(done) \in Nat /\ DOMAIN done = 1 .. Len(done)
    BY <2>1
  <2>3. t \in 1 .. Len(done)
    BY <2>2 DEF done
  <2>4. Credit(done, i) = Rests(done, i)
    BY <2>2, CreditIs
  <2>5. Rests(done, i)[t] = Rest(done, i, t)
    BY <2>2, <2>3 DEF Rests
  <2> QED BY <2>4, <2>5 DEF Rest, done
<1> QED BY <1>1, FrameInit, FrameStep, PTL DEF Spec

-----------------------------------------------------------------------------
(* The scripts *)

\* The newest samples of a window, as far as there are so many, are true; or
\* none is.
Newest(w, n) == \A k \in 0 .. n - 1 : k < Len(w) => w[Len(w) - k]
Blank(w) == \A k \in 1 .. Len(w) : ~w[k]

\* One more true sample makes the newest run longer.
LEMMA SlideNewest ==
  ASSUME NEW w \in Windows, NEW n \in Nat, Newest(w, n)
  PROVE  Newest(Slide(w, TRUE), n + 1)
<1> DEFINE u == Slide(w, TRUE)
           a == Len(w)
           b == Len(u)
<1>1. /\ u[b] = TRUE
      /\ \A k \in 1 .. b - 1 : u[b - k] = w[a - k + 1]
  BY SlideIs, Zenon
<1>2. b = IF a < Window THEN a + 1 ELSE Window
  BY SlideIs
<1>3. a \in Nat /\ a <= Window /\ Window \in Nat \ {0}
  BY WindowIs, WindowAssumption
<1>4. \A k \in 0 .. n - 1 : k < a => w[a - k]
  BY DEF Newest
<1> HIDE DEF u, a, b
<1>5. ASSUME NEW k \in 0 .. n, k < b PROVE u[b - k]
  <2>1. CASE k = 0
    <3>1. b - k = b
      BY <1>2, <1>3, <2>1
    <3> QED BY <1>1, <3>1, Zenon
  <2>2. CASE k # 0
    <3>1. k \in 1 .. b - 1 /\ k - 1 \in 0 .. n - 1 /\ k - 1 < a /\ a - k + 1 = a - (k - 1)
      BY <1>2, <1>3, <1>5, <2>2
    <3>2. w[a - (k - 1)]
      BY <1>4, <3>1
    <3>3. u[b - k] = w[a - (k - 1)]
      BY <1>1, <3>1
    <3> QED BY <3>2, <3>3, Zenon
  <2> QED BY <2>1, <2>2
<1>6. (n + 1) - 1 = n
  OBVIOUS
<1> QED BY <1>5, <1>6 DEF Newest, u, b

\* A window without a true sample stays one after a false sample.
LEMMA SlideBlank ==
  ASSUME NEW w \in Windows, Blank(w)
  PROVE  Blank(Slide(w, FALSE))
<1> DEFINE u == Slide(w, FALSE)
           a == Len(w)
           b == Len(u)
<1>1. /\ u[b] = FALSE
      /\ \A k \in 1 .. b - 1 : u[b - k] = w[a - k + 1]
  BY SlideIs, Zenon
<1>2. b = IF a < Window THEN a + 1 ELSE Window
  BY SlideIs
<1>3. a \in Nat /\ a <= Window /\ Window \in Nat \ {0}
  BY WindowIs, WindowAssumption
<1>4. \A k \in 1 .. a : ~w[k]
  BY DEF Blank
<1> HIDE DEF u, a, b
<1>5. ASSUME NEW k \in 1 .. b PROVE ~u[k]
  <2>1. CASE k = b
    BY <1>1, <2>1, Zenon
  <2>2. CASE k # b
    <3>1. b - k \in 1 .. b - 1 /\ b - (b - k) = k /\ a - (b - k) + 1 \in 1 .. a
      BY <1>2, <1>3, <1>5, <2>2
    <3>2. u[b - (b - k)] = w[a - (b - k) + 1]
      BY <1>1, <3>1
    <3>3. u[k] = w[a - (b - k) + 1]
      BY <3>1, <3>2
    <3> QED BY <1>4, <3>1, <3>3, Zenon
  <2> QED BY <2>1, <2>2
<1> QED BY <1>5 DEF Blank, u, b

\* Four new samples outweigh an old one.
LEMMA MajorityIs ==
  ASSUME NEW w \in Windows, Window <= 5, w # <<>>
  PROVE  /\ Newest(w, 4) => Majority(w)
         /\ Blank(w) => ~Majority(w)
<1> DEFINE trues == {i \in DOMAIN w : w[i]}
<1>0. w \in Seq(BOOLEAN) /\ Len(w) \in Nat /\ Len(w) > 0 /\ DOMAIN w = 1 .. Len(w)
  <2>1. w \in Seq(BOOLEAN)
    BY WindowIs
  <2>2. Len(w) \in Nat /\ DOMAIN w = 1 .. Len(w)
    BY <2>1
  <2> QED BY <2>1, <2>2
<1>1. ASSUME Newest(w, 4) PROVE Majority(w)
  <2>1. CASE Len(w) >= 4
    <3>1. \A k \in 0 .. 3 : w[Len(w) - k]
      <4>1. \A k \in 0 .. 3 : k \in 0 .. 4 - 1 /\ k < Len(w)
        BY <1>0, <2>1
      <4> QED BY <1>1, <4>1 DEF Newest
    <3> QED BY <2>1, <3>1, MajorityOf
  <2>2. CASE Len(w) < 4
    <3>0. PICK n \in 1 .. 3 : n = Len(w)
      BY <1>0, <2>2
    <3>1. ASSUME NEW i \in 1 .. n PROVE w[i]
      <4>1. n - i \in 0 .. 4 - 1 /\ n - i < n /\ n - (n - i) = i
        BY <3>1
      <4>2. w[n - (n - i)]
        BY <1>1, <3>0, <4>1 DEF Newest
      <4> QED BY <4>1, <4>2
    <3>2. trues = 1 .. n
      BY <1>0, <3>0, <3>1
    <3>3. Cardinality(1 .. n) = n
      <4>1. 1 \in Int /\ n \in Int
        OBVIOUS
      <4>2. Cardinality(1 .. n) = IF 1 > n THEN 0 ELSE n - 1 + 1
        BY <4>1, FS_Interval
      <4> QED BY <3>0, <4>2
    <3>4. Cardinality(trues) = n
      BY <3>2, <3>3
    <3> HIDE DEF trues
    <3>5. 10 * Cardinality(trues) >= 8 * Len(w)
      BY <3>0, <3>4
    <3> QED BY <3>5 DEF Majority, trues
  <2> QED BY <1>0, <2>1, <2>2
<1>2. ASSUME Blank(w) PROVE ~Majority(w)
  <2>1. trues = {}
    BY <1>0, <1>2 DEF Blank
  <2>2. Cardinality(trues) = 0
    BY <2>1, FS_EmptySet
  <2> HIDE DEF trues
  <2>3. ~(10 * Cardinality(trues) >= 8 * Len(w))
    BY <1>0, <2>2
  <2> QED BY <2>3 DEF Majority, trues
<1> QED BY <1>1, <1>2

\* The script moves from phase to phase.
LEMMA EvalPhaseIs ==
  ASSUME NEW l \in Loops, l.phase \in {"SEARCH", "APPROACH", "PICKUP", "COMPLETE"}, NEW w, NEW tilt
  PROVE  LET next == EvalPhase(l, w, tilt)
         IN  /\ next[1] \in Loops /\ next[1].step = l.step
             /\ l.phase = "SEARCH" =>
                  /\ next[1].phase = IF w.ball_visible THEN "APPROACH" ELSE "SEARCH"
                  /\ next[1].pushes = l.pushes
             /\ l.phase = "APPROACH" =>
                  /\ next[1].phase = IF w.obstacle_close THEN "PICKUP" ELSE "APPROACH"
                  /\ next[1].pushes = IF l.step = 50 THEN l.pushes + 1 ELSE l.pushes
                  /\ w.obstacle_close => next[1].pickup = l.step /\ next[2] = "zero"
             /\ l.phase = "PICKUP" =>
                  /\ next[1].phase = IF l.step >= l.pickup + 15 THEN "COMPLETE" ELSE "PICKUP"
                  /\ next[1].pushes = l.pushes /\ next[1].pickup = l.pickup /\ next[2] = "zero"
             /\ l.phase = "COMPLETE" => next = <<l, "zero">>
<1> DEFINE next == EvalPhase(l, w, tilt)
           pushed == IF l.step = 50 THEN [l EXCEPT !.pushes = @ + 1] ELSE l
           safe   == IF SafeVelocity(15, tilt, 26) > 0 THEN "walk" ELSE "zero"
           held   == [pushed EXCEPT !.phase = "PICKUP", !.pickup = l.step]
<1>0. next[1] \in Loops
  BY EvalLoop
<1>1. /\ pushed.step = l.step /\ pushed.phase = l.phase
      /\ pushed.pushes = IF l.step = 50 THEN l.pushes + 1 ELSE l.pushes
      /\ DOMAIN pushed = DOMAIN l
  BY DEF Loops
<1>2. /\ held.step = l.step /\ held.phase = "PICKUP" /\ held.pickup = l.step
      /\ held.pushes = pushed.pushes
  <2> HIDE DEF pushed
  <2> QED BY <1>1 DEF Loops
<1>3. next =
        CASE l.phase = "SEARCH" /\ w.ball_visible     -> <<[l EXCEPT !.phase = "APPROACH"], "walk">>
        [] l.phase = "SEARCH" /\ ~w.ball_visible    -> <<l, "turn">>
        [] l.phase = "APPROACH" /\ w.obstacle_close -> <<held, "zero">>
        [] l.phase = "APPROACH" /\ ~w.obstacle_close -> <<pushed, safe>>
        [] l.phase = "PICKUP" /\ l.step >= l.pickup + 15 -> <<[l EXCEPT !.phase = "COMPLETE"], "zero">>
        [] OTHER                                    -> <<l, "zero">>
  BY DEF EvalPhase
<1> HIDE DEF next, pushed, safe, held
<1>4. CASE l.phase = "SEARCH" /\ w.ball_visible
  <2>1. next = <<[l EXCEPT !.phase = "APPROACH"], "walk">>
    BY <1>3, <1>4
  <2> QED BY <1>0, <1>4, <2>1 DEF Loops, next
<1>5. CASE l.phase = "SEARCH" /\ ~w.ball_visible
  <2>1. next = <<l, "turn">>
    BY <1>3, <1>5
  <2> QED BY <1>0, <1>5, <2>1 DEF next
<1>6. CASE l.phase = "APPROACH" /\ w.obstacle_close
  <2>1. next = <<held, "zero">>
    BY <1>3, <1>6
  <2> QED BY <1>0, <1>1, <1>2, <1>6, <2>1 DEF next
<1>7. CASE l.phase = "APPROACH" /\ ~w.obstacle_close
  <2>1. next = <<pushed, safe>>
    BY <1>3, <1>7
  <2> QED BY <1>0, <1>1, <1>7, <2>1 DEF next
<1>8. CASE l.phase = "PICKUP" /\ l.step >= l.pickup + 15
  <2>1. next = <<[l EXCEPT !.phase = "COMPLETE"], "zero">>
    BY <1>3, <1>8
  <2> QED BY <1>0, <1>8, <2>1, SMTT(30) DEF Loops, next
<1>9. CASE l.phase = "PICKUP" /\ ~(l.step >= l.pickup + 15)
  <2>1. next = <<l, "zero">>
    BY <1>3, <1>9
  <2> QED BY <1>0, <1>9, <2>1 DEF next
<1>10. CASE l.phase = "COMPLETE"
  <2>1. next = <<l, "zero">>
    BY <1>3, <1>10
  <2> QED BY <1>0, <1>10, <2>1 DEF next
<1> QED BY <1>4, <1>5, <1>6, <1>7, <1>8, <1>9, <1>10

\* What the suite's mission has come to at each step, up to windows of five
\* samples: the ball is seen from step 25 on and the obstacle from step 72 on,
\* so that the approach has begun by step 29 and the pickup by step 76.
EvalInv ==
  program = "eval" =>
    /\ loop.phase \in {"SEARCH", "APPROACH", "PICKUP", "COMPLETE"}
    /\ loop.step \in 25 .. 29 => Newest(ws.balls, loop.step - 25)
    /\ loop.step <= 72 => Blank(ws.obstacles) /\ loop.phase \in {"SEARCH", "APPROACH"}
    /\ loop.step >= 72 => Newest(ws.obstacles, loop.step - 72)
    /\ loop.step >= 29 => loop.phase # "SEARCH"
    /\ loop.pushes = IF loop.step <= 50 THEN 0 ELSE 1
    /\ loop.step >= 76 => loop.phase \in {"PICKUP", "COMPLETE"}
    /\ loop.phase = "PICKUP" => loop.pickup \in Nat /\ loop.pickup <= 75
    /\ loop.step >= 91 => loop.phase = "COMPLETE"
    /\ loop.phase \in {"PICKUP", "COMPLETE"} => envs[1].command = "zero"

\* The windows after a tick of the suite
LEMMA EvalSees ==
  ASSUME SensorInv, FrameInv, EnvInv, EvalTick
  PROVE  /\ loop.step \in 25 .. 74 =>
              /\ ws'.balls = Slide(ws.balls, TRUE) /\ ws'.ball_visible = Majority(ws'.balls)
         /\ loop.step < 72 => ws'.obstacles = Slide(ws.obstacles, FALSE)
         /\ loop.step >= 72 => ws'.obstacles = Slide(ws.obstacles, TRUE)
         /\ ws'.obstacle_close = Majority(ws'.obstacles)
         /\ world'.ball_visible = ws'.ball_visible /\ world'.obstacle_close = ws'.obstacle_close
<1> DEFINE w == UpdateOrientation(ws, envs[1].posture.tilt)
           distance == Larger(200, 1500 - 26 * (loop.step - 25))
           seen  == UpdateBallVisible(w, TRUE)
           lost  == UpdateBallVisible(w, FALSE)
           found == [seen EXCEPT !.forward_clearance = distance]
           near  == distance < 280
<1>1. program = "eval" /\ ws' = EvalSense(w, loop.step) /\ world' = ToDict(ws')
  BY DEF EvalTick
<1>2. loop.step \in Nat
  BY <1>1, LoopsWith DEF FrameInv
<1>3. w \in WorldStates /\ w.obstacles = ws.obstacles /\ w.balls = ws.balls
  <2>1. envs[1].posture.tilt \in Int
    BY FirstEnv, EnvFields
  <2>2. Aside(ws, w)
    BY <2>1, OrientationIs DEF SensorInv
  <2>3. w.balls = ws.balls
    BY DEF UpdateOrientation, SensorInv, WorldStates
  <2> QED BY <2>2, <2>3 DEF Aside
<1> HIDE DEF w
<1>4. /\ lost \in WorldStates /\ lost.obstacles = w.obstacles
      /\ seen \in WorldStates /\ seen.obstacles = w.obstacles
  BY <1>3, BallIs DEF Aside
<1>5. seen.balls = Slide(w.balls, TRUE) /\ seen.ball_visible = Majority(seen.balls)
  <2>1. \A u, b : /\ [w EXCEPT !.balls = u, !.ball_visible = b].balls = u
                  /\ [w EXCEPT !.balls = u, !.ball_visible = b].ball_visible = b
    BY <1>3 DEF WorldStates
  <2> QED BY <2>1, Zenon DEF UpdateBallVisible
<1>6. distance \in Nat /\ (loop.step \in 25 .. 74 => (near <=> loop.step >= 72))
  BY <1>2 DEF Larger
<1>7. near \in BOOLEAN
  OBVIOUS
<1>8. ws' = CASE loop.step < 25       -> UpdateObstacleClose(lost, FALSE)
              [] loop.step \in 25 .. 74 -> UpdateObstacleClose(found, near)
              [] OTHER                -> UpdateObstacleClose(w, TRUE)
  BY <1>1 DEF EvalSense
<1>9. \A d \in Nat : LET v == [seen EXCEPT !.forward_clearance = d]
                     IN  /\ v \in WorldStates /\ v.obstacles = seen.obstacles
                         /\ v.balls = seen.balls /\ v.ball_visible = seen.ball_visible
  <2> HIDE DEF seen
  <2> QED BY <1>4 DEF WorldStates
<1>10. /\ found \in WorldStates /\ found.obstacles = seen.obstacles /\ found.balls = seen.balls
       /\ found.ball_visible = seen.ball_visible
  <2> HIDE DEF seen, distance
  <2> QED BY <1>6, <1>9, Zenon
<1> HIDE DEF seen, lost, found, near
\* A sample of the obstacle leaves the ball alone.
<1>11. ASSUME NEW v \in WorldStates, NEW b \in BOOLEAN
       PROVE  /\ UpdateObstacleClose(v, b).obstacles = Slide(v.obstacles, b)
              /\ UpdateObstacleClose(v, b).obstacle_close = Majority(Slide(v.obstacles, b))
              /\ UpdateObstacleClose(v, b).balls = v.balls
              /\ UpdateObstacleClose(v, b).ball_visible = v.ball_visible
  <2>1. \A u, c : /\ [v EXCEPT !.obstacles = u, !.obstacle_close = c].balls = v.balls
                  /\ [v EXCEPT !.obstacles = u, !.obstacle_close = c].ball_visible = v.ball_visible
    BY DEF WorldStates
  <2>2. /\ UpdateObstacleClose(v, b).balls = v.balls
        /\ UpdateObstacleClose(v, b).ball_visible = v.ball_visible
    BY <2>1, Zenon DEF UpdateObstacleClose
  <2> QED BY <2>2, ObstacleIs
<1>12. /\ world'.ball_visible = ws'.ball_visible /\ world'.obstacle_close = ws'.obstacle_close
  BY <1>1, Zenon DEF ToDict
<1>13. CASE loop.step < 25
  <2>1. loop.step \notin 25 .. 74 /\ ~(loop.step >= 72) /\ loop.step < 72
    BY <1>2, <1>13
  <2>2. ws' = UpdateObstacleClose(lost, FALSE)
    BY <1>8, <1>13, <2>1, Zenon
  <2> QED BY <1>3, <1>4, <1>11, <1>12, <2>1, <2>2, ZenonT(30)
<1>14. CASE loop.step \in 25 .. 74
  <2>1. ~(loop.step < 25)
    BY <1>14
  <2>2. ws' = UpdateObstacleClose(found, near)
    BY <1>8, <1>14, <2>1, Zenon
  <2>3. loop.step < 72 => near = FALSE
    BY <1>2, <1>6, <1>7, <1>14
  <2>4. loop.step >= 72 => near = TRUE
    BY <1>2, <1>6, <1>7, <1>14
  <2>5. /\ ws'.obstacles = Slide(ws.obstacles, near) /\ ws'.obstacle_close = Majority(ws'.obstacles)
        /\ ws'.balls = Slide(ws.balls, TRUE) /\ ws'.ball_visible = Majority(ws'.balls)
    BY <1>3, <1>4, <1>5, <1>7, <1>10, <1>11, <2>2, ZenonT(30)
  <2>6. loop.step < 72 => ws'.obstacles = Slide(ws.obstacles, FALSE)
    BY <2>3, <2>5, Zenon
  <2>7. loop.step >= 72 => ws'.obstacles = Slide(ws.obstacles, TRUE)
    BY <2>4, <2>5, Zenon
  <2> QED BY <1>12, <2>5, <2>6, <2>7, Zenon
<1>15. CASE loop.step > 74
  <2>1. ~(loop.step < 25) /\ loop.step \notin 25 .. 74 /\ ~(loop.step < 72)
    BY <1>2, <1>15
  <2>2. ws' = UpdateObstacleClose(w, TRUE)
    BY <1>8, <2>1, Zenon
  <2> QED BY <1>3, <1>11, <1>12, <2>1, <2>2, Zenon
<1>16. loop.step < 25 \/ loop.step \in 25 .. 74 \/ loop.step > 74
  BY <1>2
<1> QED BY <1>13, <1>14, <1>15, <1>16, Zenon

\* A tick of the evaluation keeps its script.
LEMMA EvalStep ==
  ASSUME Window <= 5, SensesInv, EvalInv, EvalTick PROVE EvalInv'
<1> USE DEF SensesInv
<1> DEFINE s == loop.step
           next == EvalPhase(loop, world', envs[1].posture.tilt)
<1>0. program = "eval" /\ loop \in Loops /\ s \in Nat
  BY LoopsWith DEF EvalTick, FrameInv
<1>1. /\ loop' = [next[1] EXCEPT !.step = @ + 1] /\ envs'[1].command = next[2]
  BY EvalKeeps DEF EvalTick
<1>2. ws.balls \in Windows /\ ws.obstacles \in Windows /\ ws' \in WorldStates
      /\ ws'.balls \in Windows /\ ws'.obstacles \in Windows
  <2>1. ws \in WorldStates /\ ws' \in WorldStates
    BY EvalSenses DEF SensorInv
  <2> QED BY <2>1, WorldStatesAre
<1>3. s \in 25 .. 74 =>
        ws'.balls = Slide(ws.balls, TRUE) /\ ws'.ball_visible = Majority(ws'.balls)
  BY EvalSees
<1>4. /\ s < 72 => ws'.obstacles = Slide(ws.obstacles, FALSE)
      /\ s >= 72 => ws'.obstacles = Slide(ws.obstacles, TRUE)
  BY EvalSees
<1>5. /\ ws'.obstacle_close = Majority(ws'.obstacles)
      /\ world'.ball_visible = ws'.ball_visible /\ world'.obstacle_close = ws'.obstacle_close
  BY EvalSees, Zenon
<1>6. /\ s \in 25 .. 28 => Newest(ws'.balls, s - 24)
      /\ s < 72 => Blank(ws'.obstacles)
      /\ s >= 72 => Newest(ws'.obstacles, s - 71)
  <2>1. ASSUME s \in 25 .. 28 PROVE Newest(ws'.balls, s - 24)
    <3>1. s - 25 \in Nat /\ (s - 25) + 1 = s - 24 /\ s \in 25 .. 29 /\ s \in 25 .. 74
      BY <2>1
    <3>2. Newest(ws.balls, s - 25)
      BY <1>0, <3>1 DEF EvalInv
    <3>3. Newest(Slide(ws.balls, TRUE), (s - 25) + 1)
      BY <1>2, <3>1, <3>2, SlideNewest
    <3>4. ws'.balls = Slide(ws.balls, TRUE)
      BY <1>3, <3>1
    <3> QED BY <3>1, <3>3, <3>4
  <2>2. ASSUME s < 72 PROVE Blank(ws'.obstacles)
    <3>1. Blank(ws.obstacles)
      BY <1>0, <2>2 DEF EvalInv
    <3> QED BY <1>2, <1>4, <2>2, <3>1, SlideBlank
  <2>3. ASSUME s >= 72 PROVE Newest(ws'.obstacles, s - 71)
    <3>1. s - 72 \in Nat /\ (s - 72) + 1 = s - 71
      BY <1>0, <2>3
    <3>2. Newest(ws.obstacles, s - 72)
      BY <1>0, <2>3 DEF EvalInv
    <3>3. Newest(Slide(ws.obstacles, TRUE), (s - 72) + 1)
      BY <1>2, <3>1, <3>2, SlideNewest
    <3>4. ws'.obstacles = Slide(ws.obstacles, TRUE)
      BY <1>4, <2>3
    <3> QED BY <3>1, <3>3, <3>4
  <2> QED BY <2>1, <2>2, <2>3
<1>7. ws'.obstacles # <<>> /\ (s \in 25 .. 74 => ws'.balls # <<>>)
  <2>1. ASSUME NEW w \in Windows, NEW b \in BOOLEAN PROVE Slide(w, b) # <<>>
    <3>1. Len(w) \in Nat /\ Window \in Nat \ {0}
      BY WindowIs, WindowAssumption
    <3>2. Len(Slide(w, b)) = IF Len(w) < Window THEN Len(w) + 1 ELSE Window
      BY SlideIs
    <3>3. Len(<<>>) = 0
      OBVIOUS
    <3> QED BY <3>1, <3>2, <3>3
  <2>2. s < 72 \/ s >= 72
    BY <1>0
  <2> QED BY <1>2, <1>3, <1>4, <2>1, <2>2
<1>8. /\ s = 28 => world'.ball_visible
      /\ s < 72 => ~world'.obstacle_close
      /\ s = 75 => world'.obstacle_close
  <2>1. ASSUME s = 28 PROVE world'.ball_visible
    <3>1. s \in 25 .. 28 /\ s \in 25 .. 74 /\ s - 24 = 4
      BY <2>1
    <3>2. Newest(ws'.balls, 4)
      BY <1>6, <3>1
    <3>3. Majority(ws'.balls)
      BY <1>2, <1>7, <3>1, <3>2, MajorityIs
    <3> QED BY <1>3, <1>5, <3>1, <3>3, Zenon
  <2>2. ASSUME s < 72 PROVE ~world'.obstacle_close
    <3>1. ~Majority(ws'.obstacles)
      BY <1>2, <1>6, <1>7, <2>2, MajorityIs
    <3> QED BY <1>5, <3>1, Zenon
  <2>3. ASSUME s = 75 PROVE world'.obstacle_close
    <3>1. Newest(ws'.obstacles, 4)
      <4>1. s >= 72 /\ s - 71 = 4
        BY <2>3
      <4> QED BY <1>6, <4>1
    <3>2. Majority(ws'.obstacles)
      BY <1>2, <1>7, <3>1, MajorityIs
    <3> QED BY <1>5, <3>2, Zenon
  <2> QED BY <2>1, <2>2, <2>3
<1> DEFINE visible == world'.ball_visible
           close   == world'.obstacle_close
<1>9. /\ next[1] \in Loops /\ next[1].step = s
      /\ loop.phase = "SEARCH" =>
           /\ next[1].phase = IF visible THEN "APPROACH" ELSE "SEARCH"
           /\ next[1].pushes = loop.pushes
      /\ loop.phase = "APPROACH" =>
           /\ next[1].phase = IF close THEN "PICKUP" ELSE "APPROACH"
           /\ next[1].pushes = IF s = 50 THEN loop.pushes + 1 ELSE loop.pushes
           /\ close => next[1].pickup = s /\ next[2] = "zero"
      /\ loop.phase = "PICKUP" =>
           /\ next[1].phase = IF s >= loop.pickup + 15 THEN "COMPLETE" ELSE "PICKUP"
           /\ next[1].pushes = loop.pushes /\ next[1].pickup = loop.pickup /\ next[2] = "zero"
      /\ loop.phase = "COMPLETE" => next = <<loop, "zero">>
  <2> loop.phase \in {"SEARCH", "APPROACH", "PICKUP", "COMPLETE"}
    BY <1>0 DEF EvalInv
  <2> QED BY <1>0, EvalPhaseIs
<1>10. /\ loop'.step = s + 1 /\ loop'.phase = next[1].phase /\ loop'.pushes = next[1].pushes
       /\ loop'.pickup = next[1].pickup
  <2> HIDE DEF next
  <2> QED BY <1>1, <1>9 DEF Loops
<1>11. loop.pickup \in Nat /\ loop.pushes \in Nat
  BY <1>0 DEF Loops
<1>12. /\ s = 28 => visible
       /\ s < 72 => ~close
       /\ s = 75 => close
  BY <1>8
<1> HIDE DEF next, visible, close
<1>13. loop'.step \in 25 .. 29 => Newest(ws'.balls, loop'.step - 25)
  <2>1. loop'.step = 25 => Newest(ws'.balls, loop'.step - 25)
    BY DEF Newest
  <2>2. ASSUME loop'.step \in 26 .. 29 PROVE Newest(ws'.balls, loop'.step - 25)
    <3>1. s \in 25 .. 28 /\ loop'.step - 25 = s - 24
      BY <1>0, <1>10, <2>2
    <3> QED BY <1>6, <3>1
  <2>3. loop'.step \in 25 .. 29 => loop'.step = 25 \/ loop'.step \in 26 .. 29
    BY <1>0, <1>10
  <2> QED BY <2>1, <2>2, <2>3
<1>14. /\ loop'.step <= 72 => Blank(ws'.obstacles)
       /\ loop'.step >= 72 => Newest(ws'.obstacles, loop'.step - 72)
  <2>1. ASSUME loop'.step <= 72 PROVE Blank(ws'.obstacles)
    <3>1. s < 72
      BY <1>0, <1>10, <2>1
    <3> QED BY <1>6, <3>1
  <2>2. loop'.step = 72 => Newest(ws'.obstacles, loop'.step - 72)
    BY DEF Newest
  <2>3. ASSUME loop'.step > 72 PROVE Newest(ws'.obstacles, loop'.step - 72)
    <3>1. s >= 72 /\ loop'.step - 72 = s - 71
      BY <1>0, <1>10, <2>3
    <3> QED BY <1>6, <3>1
  <2>4. loop'.step >= 72 => loop'.step = 72 \/ loop'.step > 72
    BY <1>0, <1>10
  <2> QED BY <2>1, <2>2, <2>3, <2>4
<1>15. /\ loop.phase \in {"SEARCH", "APPROACH", "PICKUP", "COMPLETE"}
       /\ s <= 72 => loop.phase \in {"SEARCH", "APPROACH"}
       /\ s >= 29 => loop.phase # "SEARCH"
       /\ loop.pushes = IF s <= 50 THEN 0 ELSE 1
       /\ s >= 76 => loop.phase \in {"PICKUP", "COMPLETE"}
       /\ loop.phase = "PICKUP" => loop.pickup <= 75
       /\ s >= 91 => loop.phase = "COMPLETE"
  BY <1>0 DEF EvalInv
<1>16. CASE loop.phase = "SEARCH"
  <2>1. loop'.phase \in {"SEARCH", "APPROACH"} /\ loop'.pushes = 0 /\ s <= 28
        /\ (loop'.step >= 29 => loop'.phase # "SEARCH")
    BY <1>0, <1>9, <1>10, <1>12, <1>15, <1>16
  <2> QED BY <1>0, <1>10, <1>13, <1>14, <2>1 DEF EvalInv
<1>17. CASE loop.phase = "APPROACH"
  <2>1. /\ s <= 75
        /\ loop'.phase = IF close THEN "PICKUP" ELSE "APPROACH"
        /\ close => s >= 72 /\ loop'.pickup = s /\ envs'[1].command = "zero"
        /\ s = 75 => close
        /\ loop'.pushes = IF s <= 49 THEN 0 ELSE 1
    BY <1>0, <1>1, <1>9, <1>10, <1>12, <1>15, <1>17
  <2> QED BY <1>0, <1>10, <1>13, <1>14, <2>1 DEF EvalInv
<1>18. CASE loop.phase = "PICKUP"
  <2>1. /\ s > 72 /\ s <= 90
        /\ loop'.phase \in {"PICKUP", "COMPLETE"} /\ loop'.pickup = loop.pickup
        /\ loop'.phase = "PICKUP" => s < 90
        /\ loop'.pushes = 1 /\ envs'[1].command = "zero"
    BY <1>0, <1>1, <1>9, <1>10, <1>11, <1>15, <1>18
  <2> QED BY <1>0, <1>10, <1>11, <1>13, <1>14, <1>15, <1>18, <2>1 DEF EvalInv
<1>19. CASE loop.phase = "COMPLETE"
  <2>1. s > 72 /\ loop'.phase = "COMPLETE" /\ loop'.pushes = 1 /\ envs'[1].command = "zero"
    BY <1>0, <1>1, <1>9, <1>10, <1>15, <1>19
  <2> QED BY <1>0, <1>10, <1>13, <1>14, <2>1 DEF EvalInv
<1> QED BY <1>15, <1>16, <1>17, <1>18, <1>19

\* The marker and what the robot is told in each step of the video
VideoInv ==
  program = "video" =>
    /\ loop.phase = IF loop.step <= 589 THEN "LYING" ELSE IF loop.step <= 1401 THEN "HELD"
                    ELSE "DROPPED"
    /\ envs[1].command \in {"walk", "zero"}
    /\ envs[1].command = "walk" => loop.step - 1 \in (251 .. 425) \union (751 .. 1250)
    /\ envs[1].allow_mouth_contact => loop.step - 1 \in 426 .. 750

\* The push of a test comes in its eleventh step.
TestInv == program = "envelope" => loop.pushes = IF loop.step <= 10 THEN 0 ELSE 1

ScriptInv == EvalInv /\ VideoInv /\ TestInv

\* The programs that run the physics engine have no other action.
LEMMA Owners ==
  ASSUME [Next]_vars
  PROVE  /\ program = "eval" => EvalTick \/ UNCHANGED vars
         /\ program = "video" => VideoTick \/ UNCHANGED vars
         /\ program = "envelope" => EnvelopeTick \/ UNCHANGED vars
<1>1. BrainNext => program \notin {"eval", "video", "envelope"}
  BY DEF BrainNext, TelemetryFrame, ImuVariance, DepthFrame,
       TrackFrame, SetTarget, ServoTick, DemoTick, RoutineTick, Preempt, PlannerTick, PlannerAbort,
       RigStep, RigInterrupted, RigHears
<1>2. MuJoCoTick \/ CollectRollouts \/ RolloutStep \/ Update \/ Command =>
        program \notin {"eval", "video", "envelope"}
  BY DEF MuJoCoTick, CollectRollouts, RolloutStep, Update, Command
<1>3. /\ EvalTick => program = "eval"
      /\ VideoTick => program = "video"
      /\ EnvelopeTick => program = "envelope"
  BY DEF EvalTick, EnvelopeTick, VideoTick
<1> QED BY <1>1, <1>2, <1>3 DEF Next, SimulationNext

\* A tick of the video keeps its script.
LEMMA VideoStep == FrameInv /\ EnvInv /\ VideoInv /\ VideoTick => VideoInv'
<1> SUFFICES ASSUME FrameInv, EnvInv, VideoInv, VideoTick PROVE VideoInv'
  OBVIOUS
<1> DEFINE s == loop.step
<1>1. program = "video" /\ loop \in Loops /\ s \in Nat
  <2>1. program = "video" /\ loop \in Loops
    BY DEF VideoTick, FrameInv
  <2> QED BY <2>1, LoopsWith
<1>2. loop' = [loop EXCEPT !.step = s + 1, !.phase = MarkerAfter(loop.phase, s)]
  BY <1>1 DEF VideoTick, Loops
<1>3. loop'.step = s + 1 /\ loop'.phase = MarkerAfter(loop.phase, s)
  BY <1>1, <1>2 DEF Loops
<1>4. /\ envs'[1].command = IF s \in (251 .. 425) \union (751 .. 1250) THEN "walk" ELSE "zero"
      /\ envs'[1].allow_mouth_contact => s \in 426 .. 750
  BY VideoKeeps
<1>5. loop.phase = IF s <= 589 THEN "LYING" ELSE IF s <= 1401 THEN "HELD" ELSE "DROPPED"
  BY <1>1 DEF VideoInv
<1>6. MarkerAfter(loop.phase, s) =
        IF s + 1 <= 589 THEN "LYING" ELSE IF s + 1 <= 1401 THEN "HELD" ELSE "DROPPED"
  <2>1. s \in 589 .. 600 => s \notin 1401 .. 1550
    BY <1>1
  <2> QED BY <1>1, <1>5, <2>1 DEF MarkerAfter
<1>7. s + 1 - 1 = s
  BY <1>1
<1>8. /\ envs'[1].command \in {"walk", "zero"}
      /\ envs'[1].command = "walk" => s \in (251 .. 425) \union (751 .. 1250)
  BY <1>4
<1> QED BY <1>3, <1>4, <1>6, <1>7, <1>8, SMTT(60) DEF VideoInv

\* A step of the push test keeps its script.
LEMMA TestStep == FrameInv /\ TestInv /\ EnvelopeTick => TestInv'
<1> SUFFICES ASSUME FrameInv, TestInv, EnvelopeTick PROVE TestInv'
  OBVIOUS
<1>1. program = "envelope" /\ loop \in Loops /\ loop.step \in Nat /\ loop.pushes \in Nat
  BY LoopsWith DEF EnvelopeTick, FrameInv
<1> DEFINE p == IF loop.step = 10 THEN loop.pushes + 1 ELSE loop.pushes
           here == [loop EXCEPT !.step = @ + 1, !.pushes = p]
<1>2. \/ loop' = here
      \/ loop' = [here EXCEPT !.step = 0, !.pushes = 0, !.iteration = @ + 1]
  <2>1. here = [loop EXCEPT !.step = @ + 1, !.pushes = IF loop.step = 10 THEN @ + 1 ELSE @]
    BY <1>1 DEF Loops
  <2> HIDE DEF here
  <2> QED BY <2>1 DEF EnvelopeTick
<1>3. /\ here.step = loop.step + 1 /\ here.pushes = p
      /\ here \in [{"step", "pickup", "pushes", "done", "iteration", "phase"} -> {here[x] : x \in DOMAIN here}]
  BY <1>1 DEF Loops
<1>4. p = IF loop.step + 1 <= 10 THEN 0 ELSE 1
  BY <1>1 DEF TestInv
<1> HIDE DEF here, p
<1>5. CASE loop' = here
  BY <1>1, <1>3, <1>4, <1>5 DEF TestInv
<1>6. CASE loop' = [here EXCEPT !.step = 0, !.pushes = 0, !.iteration = @ + 1]
  <2>1. loop'.step = 0 /\ loop'.pushes = 0
    BY <1>3, <1>6
  <2> QED BY <2>1 DEF TestInv
<1> QED BY <1>2, <1>5, <1>6

\* Every step keeps the scripts.
LEMMA ScriptStep ==
  ASSUME Window <= 5, SensesInv, ScriptInv, [Next]_vars PROVE ScriptInv'
<1>1. program' = program
  BY Movers
<1>2. EvalInv'
  <2>1. CASE program = "eval" /\ EvalTick
    BY <2>1, EvalStep DEF ScriptInv
  <2>2. CASE UNCHANGED vars
    BY <2>2 DEF vars, ScriptInv, EvalInv
  <2>3. CASE program # "eval"
    BY <1>1, <2>3 DEF EvalInv
  <2> QED BY <2>1, <2>2, <2>3, Owners
<1>3. VideoInv'
  <2>1. CASE program = "video" /\ VideoTick
    BY <2>1, VideoStep DEF ScriptInv, SensesInv
  <2>2. CASE UNCHANGED vars
    BY <2>2 DEF vars, ScriptInv, VideoInv
  <2>3. CASE program # "video"
    BY <1>1, <2>3 DEF VideoInv
  <2> QED BY <2>1, <2>2, <2>3, Owners
<1>4. TestInv'
  <2>1. CASE program = "envelope" /\ EnvelopeTick
    BY <2>1, TestStep DEF ScriptInv, SensesInv
  <2>2. CASE UNCHANGED vars
    BY <2>2 DEF vars, ScriptInv, TestInv
  <2>3. CASE program # "envelope"
    BY <1>1, <2>3 DEF TestInv
  <2> QED BY <2>1, <2>2, <2>3, Owners
<1> QED BY <1>2, <1>3, <1>4 DEF ScriptInv

\* The scripts begin at their first phase.
LEMMA ScriptInit == Init => ScriptInv
<1> SUFFICES ASSUME Init PROVE ScriptInv
  OBVIOUS
<1>1. envs[1].command = "zero" /\ envs[1].allow_mouth_contact = FALSE
  <2>1. envs[1] = NewEnv
    BY BrainAssumption DEF Init
  <2> QED BY <2>1, NewEnvKeeps, Zenon
<1>2. program # "rig" => /\ loop.step = 0 /\ loop.pushes = 0
                         /\ loop.phase = CASE program = "eval"  -> "SEARCH"
                                           [] program = "video" -> "LYING"
                                           [] OTHER             -> "COLLECT"
  BY DEF Init, NewLoop
<1>3. Blank(ws.obstacles)
  BY DEF Init, NewWorldState, Blank
<1>4. EvalInv
  BY <1>1, <1>2, <1>3 DEF EvalInv
<1>5. VideoInv /\ TestInv
  BY <1>1, <1>2 DEF VideoInv, TestInv
<1> QED BY <1>4, <1>5 DEF ScriptInv

\* Unless the robot falls, each script comes to its end with its work done:
\* for windows of up to five samples (TemporalDebouncer's length) and a video
\* that goes on until the marker is over the container.
THEOREM ScriptsAreCompleted ==
  ASSUME Window <= 5, VideoSteps \in Nat, VideoSteps > 1401
  PROVE  Spec => []ScriptsComplete
<1>1. SensesInv /\ ScriptInv => ScriptsComplete
  <2> SUFFICES ASSUME SensesInv, ScriptInv PROVE ScriptsComplete
    OBVIOUS
  <2>1. program # "rig" => loop.step \in Nat
    BY LoopsWith, ZenonT(30) DEF SensesInv, FrameInv
  <2>2. envs[1].command \in Twists
    BY FirstEnv, EnvFields DEF SensesInv
  <2>3. ASSUME program = "eval"
        PROVE  /\ loop.step = 120 => loop.phase = "COMPLETE" /\ loop.pushes = 1
               /\ loop.phase \in {"PICKUP", "COMPLETE"} => envs[1].command = "zero"
    BY <2>1, <2>3 DEF ScriptInv, EvalInv
  <2>4. ASSUME program = "video"
        PROVE  /\ loop.step = VideoSteps => loop.phase = "DROPPED"
               /\ (envs[1].command = "walk" /\ loop.step > 426) => loop.phase = "HELD"
    BY <2>1, <2>4, SMTT(30) DEF ScriptInv, VideoInv
  <2>5. ASSUME program = "video", envs[1].allow_mouth_contact PROVE envs[1].command = "zero"
    <3>1. loop.step - 1 \in 426 .. 750
      BY <2>5 DEF ScriptInv, VideoInv
    <3>2. loop.step - 1 \notin (251 .. 425) \union (751 .. 1250)
      <4> DEFINE n == loop.step - 1
      <4>1. n \in 426 .. 750
        BY <3>1
      <4> HIDE DEF n
      <4>2. n \in Int /\ 426 <= n /\ n <= 750
        BY <4>1
      <4>3. ~(n \in 251 .. 425) /\ ~(n \in 751 .. 1250)
        BY <4>2
      <4>4. n \notin (251 .. 425) \union (751 .. 1250)
        BY <4>3
      <4> QED BY <4>4 DEF n
    <3>3. envs[1].command \in {"walk", "zero"}
      BY <2>5 DEF ScriptInv, VideoInv
    <3> QED BY <2>5, <3>2, <3>3 DEF ScriptInv, VideoInv
  <2>6. ASSUME program = "envelope", loop.step > 10 PROVE loop.pushes = 1
    BY <2>1, <2>6 DEF ScriptInv, TestInv
  <2> QED BY <2>3, <2>4, <2>5, <2>6 DEF ScriptsComplete
<1>2. SensesInv /\ ScriptInv /\ [Next]_vars => SensesInv' /\ ScriptInv'
  BY SensesStep, ScriptStep
<1> QED BY <1>1, <1>2, SensesInit, ScriptInit, PTL DEF Spec
-----------------------------------------------------------------------------
(* All programs together *)

\* The robot turns only while it looks for the ball, walks only to a ball that
\* it has found and not reached, and stands with a ball it holds; a tree that
\* has ended, an avoidance included, leaves it standing.
THEOREM CommandsFitMissions == Spec => []CommandFitsMission
<1>1. SensesInv /\ TreeInv => CommandFitsMission
  <2> SUFFICES ASSUME SensesInv, TreeInv PROVE CommandFitsMission
    OBVIOUS
  <2>1. ASSUME program = "mujoco"
        PROVE  /\ envs[1].command = "turn" => "ball_visible" \notin tree.board
               /\ envs[1].command = "walk" =>
                    "ball_visible" \in tree.board /\ "ball_close" \notin tree.board
               /\ "ball_held" \in tree.board =>
                    "ball_close" \in tree.board /\ envs[1].command = "zero"
               /\ tree.status # "RUNNING" => tree.velocity = "zero"
    <3>1. TimedInv(tree) /\ envs[1].command = tree.velocity
      BY <2>1 DEF SensesInv, MissionInv
    <3> QED BY <3>1 DEF TimedInv, TimedRound, TimedVelocity
  <2>2. ASSUME program = "routine", tree.status # "RUNNING" PROVE tree.velocity = "zero"
    BY <2>2 DEF TreeInv, RoutineInv, RoutineCore
  <2> QED BY <2>1, <2>2 DEF CommandFitsMission
<1> QED BY <1>1, SensesInit, SensesStep, TreeInit, TreeStep, PTL DEF Spec

\* What holds of every variable of the programs
ProgramsInv == SensesInv /\ TreeInv /\ LatchInv /\ TrimInv /\ RigInv

\* Every step keeps it.
LEMMA ProgramsStep == ProgramsInv /\ [Next]_vars => ProgramsInv'
<1> SUFFICES ASSUME ProgramsInv, [Next]_vars PROVE ProgramsInv'
  OBVIOUS
<1>1. SensesInv' /\ TreeInv' /\ RigInv'
  BY SensesStep, TreeStep, RigStepInv DEF ProgramsInv
<1>2. LatchInv'
  BY LatchStep DEF ProgramsInv
<1>3. TrimInv'
  BY TrimStep DEF ProgramsInv, SensesInv
<1> QED BY <1>1, <1>2, <1>3 DEF ProgramsInv

\* The variables of all programs keep their types, however the programs of the
\* robot go on.
THEOREM ProgramsAreTyped == Spec => []TypeOK
<1>1. ProgramsInv => TypeOK
  <2> SUFFICES ASSUME ProgramsInv PROVE TypeOK
    OBVIOUS
  <2>1. program \in Programs /\ running \in BOOLEAN
    BY DEF ProgramsInv, SensesInv, FrameInv
  <2>2. ws \in WorldStates /\ vision \in Trackers /\ tree \in TreeStates
    BY DEF ProgramsInv, SensesInv, SensorInv, VisionInv, TreeInv
  <2>3. latch \in [active : Skills \union {NoSkill}, ran : Skills \union {NoSkill}, status : Statuses]
    BY DEF ProgramsInv, LatchInv
  <2>4. engine \in [filtered : [1 .. 2 -> -MaxTrim .. MaxTrim], pose : [1 .. 2 -> Int], raised : BOOLEAN]
    <3>1. /\ engine \in [filtered : [1 .. 2 -> Int], pose : [1 .. 2 -> Int], raised : BOOLEAN]
          /\ past.fast \in 0 .. MaxTrim /\ MaxTrim \in Nat
          /\ \A i \in 1 .. 2 : /\ engine.filtered[i] <= MaxTrim - past.fast
                               /\ engine.filtered[i] >= past.fast - MaxTrim
      BY LocomotionAssumption DEF ProgramsInv, TrimInv
    <3>2. \A i \in 1 .. 2 : engine.filtered[i] \in -MaxTrim .. MaxTrim
      BY <3>1
    <3>3. engine.filtered \in [1 .. 2 -> -MaxTrim .. MaxTrim]
      BY <3>1, <3>2
    <3> QED BY <3>1, <3>3
  <2>5. envs \in [1 .. NumEnvs -> Envs(ActionNames)]
    BY DEF ProgramsInv, SensesInv, EnvInv
  <2>6. IF program = "rig" THEN loop \in RigStates
        ELSE loop.step \in Nat /\ loop.done \in Seq(SUBSET (1 .. NumEnvs))
    <3>1. program = "rig" => loop \in RigStates
      BY MovementsAre DEF ProgramsInv, RigInv, RigGates
    <3>2. program # "rig" => loop.step \in Nat /\ loop.done \in Seq(SUBSET (1 .. NumEnvs))
      BY LoopsWith, ZenonT(30) DEF ProgramsInv, SensesInv, FrameInv
    <3> QED BY <3>1, <3>2
  <2> QED BY <2>1, <2>2, <2>3, <2>4, <2>5, <2>6 DEF TypeOK
<1>2. Init => ProgramsInv
  <2> SUFFICES ASSUME Init PROVE ProgramsInv
    OBVIOUS
  <2>1. SensesInv /\ TreeInv
    BY SensesInit, TreeInit
  <2>2. LatchInv
    BY DEF Init, LatchInv, NewLatch, Statuses
  <2>3. TrimInv
    <3>1. <<0, 0>> \in [1 .. 2 -> Int]
      OBVIOUS
    <3> QED BY <3>1, LocomotionAssumption DEF Init, NewEngine, NewPast, TrimInv
  <2>4. RigInv
    BY NewRigGates DEF Init, RigInv, NewLoop, NewRig
  <2> QED BY <2>1, <2>2, <2>3, <2>4 DEF ProgramsInv
<1> QED BY <1>1, <1>2, ProgramsStep, PTL DEF Spec
=============================================================================
