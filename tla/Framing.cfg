SPECIFICATION Spec
CONSTANTS
  CarFrames <- MCFrames
  CarKeys <- MCKeys
  MaxFrames = 3
  MaxCuts = 2
INVARIANTS
  TypeOK
  ExactWhenWhole
PROPERTIES
  BackInStep
CHECK_DEADLOCK FALSE
