SPECIFICATION Spec
CONSTANTS
  TX_FIFO_DEPTH = 1
  RX_FIFO_DEPTH = 1
  Bytes = {53, 202}
  Configs <- MCConfigs
  ResetPoints <- MCResetPoints
INVARIANTS
  ArrivesInOrder
  NoFalseErrors
  StopBitsWhole
PROPERTIES
  Delivers
