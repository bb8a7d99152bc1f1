SPECIFICATION FlowSpec
CONSTANTS
  MAX_CYCLES = 24
  Sources <- MCSources
CHECK_DEADLOCK FALSE
INVARIANT C8TypeOK
PROPERTIES
  ImplementsSim
  ExecutesItsLine
  ReachesLabels
  CallsReturn
