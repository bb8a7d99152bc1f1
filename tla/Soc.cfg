SPECIFICATION Spec
CONSTANTS
  Programs <- MCPrograms
  MAX_STORES = 20
  MAX_IRQS = 2
  Times <- MCTimes
CHECK_DEADLOCK FALSE
INVARIANTS
  DoesWhatItSays
  WaitsForCipher
  TimerCounts
PROPERTIES
  DecodesLikeTheMap
  SaysItAll
