SPECIFICATION BoundedSpec
CONSTANTS
  Chunk <- Chunks
  Wildcard = "*"
  Handler = {h1, h2}
  NoValues = NoValues
  Emitter = {session, client1}
  Session = session
  Ref = {r1, r2}
  NoRef = NoRef
  Uid = {}
  Pattern <- Names
  Event <- Events
  MaxHandlers = 3
  MaxCount = 2
SYMMETRY Interchangeable
INVARIANTS CacheCoherent SearchIsSorted
