CONSTANTS
  Capacity = 1
  MaxCalls = 3
SPECIFICATION Spec
CHECK_DEADLOCK FALSE
INVARIANTS PromisesKept RefusalsAreFinal
PROPERTIES CallsAnswered
