SPECIFICATION Spec
CONSTANTS
  Toolsets <- MCToolsets
  Onlys <- MCOnlys
  MAX_COMMANDS = 1
CHECK_DEADLOCK FALSE
INVARIANT PassLineDecides
