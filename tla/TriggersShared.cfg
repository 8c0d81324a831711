SPECIFICATION Spec
CONSTANTS
  Shells = {s1, s2}
  Databases = {d1}
  Service = TRUE
  Limit = 1
  MaxEvents = 2
  MaxJobs = 1
  MaxLives = 1
  MaxLoads = 0
  MaxFaults = 1
INVARIANTS
  CursorCoversHistory
  OneServiceAtATime
CHECK_DEADLOCK FALSE
