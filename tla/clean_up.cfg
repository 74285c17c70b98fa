SPECIFICATION FairSpec
CONSTANTS
  group = group
  server = server
  Resource = {group, server}
  Needs <- NeedsOf
  Waited = {server}
  Rooted = {server}
  Timeout = 2
  Interval = 1
  Delay = 1
  MaxClasses = 3
\* After the last class the test runner is done.
CHECK_DEADLOCK FALSE
INVARIANTS LeaksAreReported DependentsGoFirst 
PROPERTIES NoCleanUpIsOverwritten CleanUpsEnd
