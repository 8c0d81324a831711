SPECIFICATION Spec
CONSTANTS
  Jobs = {1, 2}
  Foreground = {1}
  Background = {2}
  Operators = {o1}
  Given = {"cancel", "stop", "kill", "stopHard", "pause", "pauseHard", "resume", "resumeHard", "shutdown"}
  MaxCommands = 1
  MaxFaults = 1
  MaxStages = 2
  Sweeps = FALSE
INVARIANT CancellationStopsStages
PROPERTY
  ImplementsContract
CHECK_DEADLOCK FALSE
