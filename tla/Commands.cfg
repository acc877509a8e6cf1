SPECIFICATION FairCommandSpec
CONSTANTS
  vin = vin
  reg = reg
  y18 = y18
  Main = main
  Callers <- JustMain
  Manager = manager
  Registers <- MCRegisters
  SettingsReg = reg
  VINRegister = vin
  RegisterRegs <- MCRegister
  Settable <- MCSettable
  Years = {y18}
  Unknown = unknown
  CarMsgs <- MCMsgs
  MaxFrames = 3
  RecvCap = 1
  SendCap = 1
  StartedCap = 1
  ListenerCap = 1
INVARIANTS
  CommandTypeOK
  SuccessMeansSet
PROPERTIES
  CommandExits
CHECK_DEADLOCK FALSE
