\* One SetRegister caller that sets either register, all channels of capacity one.
SPECIFICATION Spec
CONSTANTS
  r1 = r1
  r2 = r2
  c1 = c1
  y18 = y18
  Callers <- OneCaller
  Manager = manager
  Registers <- TwoRegisters
  SettingsReg = r2
  Years = {y18}
  Unknown = unknown
  CarMsgs <- CallMsgs
  RecvCap = 1
  SendCap = 1
  StartedCap = 1
  ListenerCap = 1
INVARIANTS
  TypeOK
  NoClosedChannelPanic
  StartMeansHandshake
  StartClosedMeansDead
  OkMeansAcked
  CallClosedMeansDead
PROPERTIES
  ConnectionSpec
CHECK_DEADLOCK FALSE
