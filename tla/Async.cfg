SPECIFICATION Spec
CONSTANTS
  Limit = 2
  ReqCap = 2
  ResCap = 3
  MaxSteps = 3
CHECK_DEADLOCK FALSE
INVARIANTS
  TypeOK
  ExactlyOnce
  SendNeverBlocks
  EndsNormally
PROPERTIES
  TakesOnlyWhenEmpty
  Finishes
