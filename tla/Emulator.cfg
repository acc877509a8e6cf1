SPECIFICATION FairSpec
CONSTANTS
  MaxConns = 2
  Dump = 1
  SendCap = 1
  ListenerCap = 1
  MaxCalls = 2
INVARIANTS
  TypeOK
  NilMeansAcked
PROPERTIES
  NewestIsTold
  SetRegisterEnds
CHECK_DEADLOCK FALSE
