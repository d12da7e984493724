SPECIFICATION Spec
CONSTANTS
  Programs = {"servo"}
  Window = 5
  None = None
  Classes = {0, 2}
  TrackIds <- MCTrackIds
  MaxAge = 1
  NoTrack = NoTrack
  Unseen = Unseen
  Skills = {"PICKUP", "APPROACH", "RETURN"}
  NoSkill = NoSkill
  Servos = 14
  DelaySteps = 1
  Stance = Stance
  MaxSteps = 3
  MaxTrim = 5
  MaxSpeed = 80
  Preemptions = 2
  NumEnvs = 2
  Steps = 170
  VideoSteps = 2399
  Rollout = 4
  Iterations = 2
INVARIANT GuidesTowardTarget
CHECK_DEADLOCK FALSE
