SPECIFICATION MessagesSpec
CONSTANTS
  Absent = Absent
  MaxCalls = 2
  Shapes <- MCShapes
  Operations <- MCOperations
  Params <- MCParams
  Answers <- MCAnswers
  Errors <- MCErrors
  Capital <- MCCapital
  None = None
  Calls <- MCCalls
  MaxAttempts = 3
  MaxTime = 3
CHECK_DEADLOCK FALSE
INVARIANTS NothingIsLost AnswersAreUnderstood
INVARIANTS EveryAttemptVerifies AttemptsLeaveNoTrace PresignedUrlVerifies
