\* Pings fit into Recv; two registers, one setting, an update or a request.
SPECIFICATION FairSpec
CONSTANTS
  RecvCap = 2
  SendCap = 1
  ListenerCap = 2
  PipeCap = 1
  PingsToStart = 1
  Registers = 2
  Settings = 1
  MaxInputs = 1
INVARIANTS
  TypeOK
  FlowControl
  DumpNeedsKey
  NeverStalls
PROPERTIES
  DumpCompletes
CHECK_DEADLOCK FALSE
