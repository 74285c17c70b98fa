SPECIFICATION FairSpec
CONSTANTS
  Thread = {t1, t2}
  Builtin = Builtin
  NoNode = NoNode
  NoList = NoList
  Nobody = Nobody
  Depth = 2
  MaxCalls = 2
  TotalCalls = 3
  MaxAttempts = 2
INVARIANTS NoUnsignedRequest IdleEmitterIsClean
PROPERTY EveryCallEnds
