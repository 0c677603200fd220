SPECIFICATION Spec
CONSTANTS
  Threads = {t1, t2, t3}
  Regions = {1, 2}
  SLOTS_COUNT = 2
  MaxItems = 2
  MaxPipeCalls = 1
  MaxCalls = 3
INVARIANTS
  TypeOK
  NoWaitCycle
PROPERTIES
  OperationsReturn
  PoisonDoesNotSpread
