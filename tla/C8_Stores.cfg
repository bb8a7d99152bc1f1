SPECIFICATION FlowSpec
CONSTANTS
  MAX_CYCLES = 24
  Sources <- MCStores
CHECK_DEADLOCK FALSE
PROPERTY ImplementsSim
