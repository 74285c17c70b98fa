SPECIFICATION Spec
CONSTANTS
  Chunk <- Chunks
  Wildcard = "*"
  Handler = {h1}
  NoValues = NoValues
  Emitter = {session, client1}
  Session = session
  Ref = {r1, r2}
  NoRef = NoRef
  Uid = {u1}
  Pattern <- IdNames
  Event = {}
  MaxHandlers = 2
  MaxCount = 2
SYMMETRY Interchangeable
INVARIANTS CallsWhatIsDue
