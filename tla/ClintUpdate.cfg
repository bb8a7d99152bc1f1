SPECIFICATION UpdateSpec
CONSTANT W = 3
INVARIANTS
  NoSpuriousTimer
  ArmedExactly
PROPERTIES
  LevelHeld
  DeadlineRaised
