\* How a session ends: liveness.
SPECIFICATION FairSpec
CONSTANTS
  r1 = r1
  r2 = r2
  c1 = c1
  y18 = y18
  Callers = {}
  Manager = manager
  Registers <- OneRegister
  SettingsReg = r1
  Years = {y18}
  Unknown = unknown
  CarMsgs <- LiveMsgs
  RecvCap = 1
  SendCap = 1
  StartedCap = 1
  ListenerCap = 1
PROPERTIES
  SessionEnds
  PingerEnds
CHECK_DEADLOCK FALSE
