SPECIFICATION FairSpec
CONSTANTS
  NumPages = 3
  Limits <- Few
  NoLimit = NoLimit
  MaxLength = 3
  MaxResumes = 4
INVARIANTS NothingLostOrRepeated ExtrasOnce
PROPERTY EveryIterationEnds
