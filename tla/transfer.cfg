SPECIFICATION FairSpec
CONSTANTS
  None = None
  NoValue = NoValue
  Final = {200, 403, 404, 500}
  Early = {403}
  Lengths = {0, 2}
  Configs <- MCConfigs
  Replies <- MCReplies
  World <- MCWorld
  Absent = "absent"
  Created = "empty"
  Evolves <- MCEvolves
  Describe <- MCDescribe
  Goal <- MCGoal
  MaxRequests = 2
CHECK_DEADLOCK FALSE
INVARIANTS AnswersReachTheirCallers RefusedBodyStays StreamIsWhole WaitsAsConfigured SuccessIsSeen
PROPERTY EveryWaitEnds
