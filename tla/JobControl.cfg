SPECIFICATION FairSpec
CONSTANTS
  Jobs = {1}
  Foreground = {1}
  Background = {1}
  Operators = {o1}
  Given = {"cancel", "kill", "pauseHard", "resumeHard"}
  MaxCommands = 2
  MaxFaults = 1
  MaxStages = 2
  Sweeps = TRUE
INVARIANTS
  OutcomeHasEvidence
  OneOutcome
  KilledIsDead
PROPERTIES
  DivertedNeverRuns
  ImplementsContract
  EveryJobSettles
CHECK_DEADLOCK FALSE
