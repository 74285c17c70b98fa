SPECIFICATION Spec
CONSTANTS
  Chunk <- Chunks
  Wildcard = "*"
  Handler = {h1, h2}
  NoValues = NoValues
  Emitter = {session}
  Session = session
  Ref = {r1}
  NoRef = NoRef
  Uid = {}
  Pattern <- Names
  Event <- Events
  MaxHandlers = 3
  MaxCount = 1
SYMMETRY Interchangeable
INVARIANTS FurthestFirst
