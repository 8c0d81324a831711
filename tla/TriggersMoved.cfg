SPECIFICATION Spec
CONSTANTS
  Shells = {s1, s2}
  Databases = {d1, d2}
  Service = TRUE
  Limit = 1
  MaxEvents = 1
  MaxJobs = 1
  MaxLives = 1
  MaxLoads = 2
  MaxFaults = 1
INVARIANT OncePerSession
PROPERTY ShutdownSparesOthers
CHECK_DEADLOCK FALSE
