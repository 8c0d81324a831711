SPECIFICATION Spec
CONSTANTS
  Keys = {k1, k2}
  Plain = Plain
  MaxWrites = 1
  MaxOps = 1
  MaxFaults = 0
INVARIANT ArtifactsStayPaired
CHECK_DEADLOCK FALSE
