SPECIFICATION Spec
CONSTANTS
  Shells = {s1}
  Databases = {d1, d2}
  Limit = 1
  MaxRequests = 2
  MaxTenures = 2
  MaxFaults = 1
INVARIANTS TypeOK NothingPassedOver OncePerTenure OutputBeforePrompt
CHECK_DEADLOCK FALSE
