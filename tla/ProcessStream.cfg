SPECIFICATION Spec
CONSTANTS
  MaxLines = 2
  MaxFaults = 1
INVARIANTS TypeOK NoOrphan ExitTellsAll
PROPERTIES StopsWhenAsked
CHECK_DEADLOCK FALSE
