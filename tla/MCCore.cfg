SPECIFICATION Spec
CONSTANTS
  Bit <- MCBit
  Reg = {0, 1, 2, 8}
  NPC = 8
  DEPTH = 8
  Addr = {0, 1}
  Func <- MCFunc
  Alu <- MCAlu
  Taken <- MCTaken
  AddrOf <- MCAddrOf
  Merge <- MCMerge
  Extend <- MCExtend
  PcOf <- MCPcOf
  WordOf <- MCWordOf
  UimmWord <- MCUimm
  CauseWord <- MCCause
  IrqLines = {3, 7, 11}
  BHT_ENTRIES = 2
  Programs <- MCPrograms
  PowerUp <- MCPowerUp
INVARIANTS
  TypeOK
  FetchPairing
  PredictionSound
  PathUnbroken
  OperandsCurrent
PROPERTY ImplementsIsa
