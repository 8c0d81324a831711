SPECIFICATION FairSpec
CONSTANTS
  Processes = {p1, p2, l1}
  Listers = {l1}
  Serials = {1, 2}
INVARIANTS
  IdsAreUniqueAndDense
  ShownIdsStayValid
  BackfillIsComplete
PROPERTIES
  ImplementsAllocation
  CallsEnd
