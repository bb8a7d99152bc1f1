SPECIFICATION Spec
CONSTANTS
  Toolsets <- MCToolsets
  Onlys <- MCOnlys
  MAX_COMMANDS = 2
CHECK_DEADLOCK FALSE
INVARIANTS
  SimTypeOK
  OwnProgram
  StatusIsTrue
PROPERTIES
  Answers
