SPECIFICATION Spec
CONSTANTS
  W = 256
  PERIOD = 40
  SLACK = 1
  HORIZON = 150
PROPERTIES
  NeverEarly
  LoopKeepsCounting
CHECK_DEADLOCK FALSE
