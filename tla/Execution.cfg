SPECIFICATION Spec
CONSTANTS
  Last = 2
  Names = {x, y}
  Values = {v}
  Unset = Unset
  MaxSets = 1
  MaxFaults = 1
INVARIANTS SubmittedValuesAreSeen RepairsAreUsed
PROPERTIES ImplementsGate
CHECK_DEADLOCK FALSE
