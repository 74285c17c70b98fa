SPECIFICATION FairSpec
CONSTANTS
  Thread = {t1, t2}
  RefreshTimeout = 2
  Lifetime = 3
  Renewal = 1
  NumAttempts = 2
  MaxGeneration = 1
INVARIANTS Coherent FreshWhenRead OneFetchPerSignature
PROPERTY EverySignEnds
