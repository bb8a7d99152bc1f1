SPECIFICATION Spec
CONSTANTS
  DEPTH = 4
  Word = {1, 2, 3}
INVARIANT FifoTypeOK
PROPERTIES
  QueueSpec
  SameStrobes
