SPECIFICATION SignalsSpec
CONSTANTS
  Last = 3
  Split = 2
  Limit = 2
  MaxOrders = 2
  MaxFaults = 1
INVARIANTS AnswersAreScoped OrdersAreRecorded
PROPERTIES BoundStepsNeverStart RequestsAreAnswered OrdersStopSteps
CHECK_DEADLOCK FALSE
