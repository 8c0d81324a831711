SPECIFICATION FairSpec
CONSTANTS
  Length = 3
  MaxEvents = 2
  Limit = 1
  Timed = {3}
  MaxFaults = 1
INVARIANTS
  HandledInOrder
  MissesOnlyTheWindow
  CompletesAfterParent
PROPERTIES
  FinishedLogIsFinal
  FollowersStop
CHECK_DEADLOCK FALSE
