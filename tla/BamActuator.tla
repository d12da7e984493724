----------------------------- MODULE BamActuator ----------------------------
(***************************************************************************)
(* The servo and battery model of the simulation (sim/bam_actuator.py):    *)
(* the transport delay of the setpoints, the sag of the battery under the  *)
(* torque demanded, and the torque that is left.  The servos are taken to  *)
(* carry equal loads.  Units: 0.001 N m, 0.01 A, 0.01 V, 0.01 rad/s.       *)
(***************************************************************************)
EXTENDS Integers, Sequences

CONSTANTS
  Servos,      \* num_actuators (14)
  DelaySteps   \* cfg.delay_steps (1)

ASSUME BamAssumption == Servos \in Nat /\ DelaySteps \in Nat

Smaller(a, b) == IF a < b THEN a ELSE b
Larger(a, b)  == IF a > b THEN a ELSE b
Size(x)       == IF x < 0 THEN -x ELSE x

ResetBam_KeepsQueue(bam, base) ==
  [bam EXCEPT !.voltage = 820, !.torque = 0, !.limit = 520, !.current = 15]

ResetBam(bam, base) ==
  [queue |-> [i \in 1 .. DelaySteps |-> base], voltage |-> 820, torque |-> 0,
   limit |-> 520, current |-> 15]

\* step_delay: the setpoint that is due, and the actuator with the new one queued.
StepDelay(bam, target) ==
  LET q == Append(bam.queue, target)
  IN  [due |-> Head(q), bam |-> [bam EXCEPT !.queue = Tail(q)]]

UpdateBattery_NoCutoff(bam, demand) ==
  LET total == (Servos * Size(demand) * 25) \div 100 + 15
  IN  [bam EXCEPT !.current = total, !.voltage = 820 - (total * 18) \div 100]

\* update_battery_voltage, for a torque demanded of every servo
UpdateBattery(bam, demand) ==
  LET each  == Smaller((Smaller(Size(demand), 520) * 25) \div 100, 140)
      total == Servos * each + 15
  IN  [bam EXCEPT !.current = total, !.voltage = Larger(600, 820 - (total * 18) \div 100)]

\* What the effective voltage leaves at a speed
TorqueLimit(voltage, speed) ==
  (520 * Larger(0, voltage - (115 * Size(speed)) \div 100)) \div 740

\* Stiction, Coulomb and viscous friction, and the limit
NetTorque(demand, speed, limit) ==
  LET dry == Larger(0, Size(demand) - 35)
      net == (IF demand >= 0 THEN dry ELSE -dry) - (6 * speed) \div 100
  IN  IF Size(speed) < 1 /\ Size(demand) < 55 THEN 0
      ELSE Larger(-limit, Smaller(limit, net))

\* compute_torques without advance_delay; the demand of the PD law is given.
ComputeTorques(bam, demand, speed) ==
  LET sagged == UpdateBattery(bam, demand)
      limit  == TorqueLimit(sagged.voltage, speed)
  IN  [sagged EXCEPT !.limit = limit, !.torque = NetTorque(demand, speed, limit)]
=============================================================================
