\* Two key exchanges, a key map of three entries so that the index wraps.
SPECIFICATION Spec
CONSTANTS
  KeyLen = 3
  MaxGen = 2
  SendCap = 2
  PipeCap = 3
INVARIANTS
  TypeOK
  FreshKey
  SyncUnlessDisturbed
PROPERTIES
  DriftIsFrozen
CHECK_DEADLOCK FALSE
