SPECIFICATION FairSpec
CONSTANTS
  Programs = {"telemetry", "depth", "vision", "servo", "demo", "routine", "planner", "rig", "mujoco", "eval", "envelope", "video", "train", "trims"}
  Window = 5
  None = None
  Classes = {0, 2}
  TrackIds <- MCTrackIds
  MaxAge = 1
  NoTrack = NoTrack
  Unseen = Unseen
  Skills = {"PICKUP", "APPROACH", "RETURN"}
  NoSkill = NoSkill
  Servos = 14
  DelaySteps = 1
  Stance = Stance
  MaxSteps = 3
  MaxTrim = 5
  MaxSpeed = 80
  Preemptions = 2
  NumEnvs = 2
  Steps = 170
  VideoSteps = 2399
  Rollout = 4
  Iterations = 2
INVARIANT TypeOK
INVARIANT LockoutFollowsVoltage
INVARIANT ObstacleAnswers
INVARIANT TargetIsOfClass
 
INVARIANT IdleNodesAreFresh
INVARIANT UnstableMeansStill
INVARIANT RigCheckEndsStill
INVARIANT CommandFitsMission
INVARIANT ScriptsComplete
INVARIANT SetpointIsDelayed
INVARIANT CreditStaysInEpisode
INVARIANT TrimsFade
PROPERTY LockIsKept
 
PROPERTY CelebratesOnlyAPickup
PROPERTY SpeaksOnce
PROPERTY MotionIsSmooth
PROPERTY OneSkillAtATime
 
PROPERTY MissionsSucceed
CHECK_DEADLOCK FALSE
