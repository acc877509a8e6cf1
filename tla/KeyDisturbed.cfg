SPECIFICATION Spec
CONSTANTS
  CarFrames <- MCUpdates
  CarKeys <- MCKeys
  MaxFrames = 4
  MaxCuts = 1
PROPERTIES
  KeyUndisturbed
CHECK_DEADLOCK FALSE
