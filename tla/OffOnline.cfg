\* "off" while a session is being started.
SPECIFICATION FairSpec
CONSTANTS
  Modes = {"cool"}
  States = {"on"}
  Remainings = {"90"}
  Configs = {"lock"}
  MaxOutages = 0
PROPERTIES
  OffMeansOffline
CHECK_DEADLOCK FALSE
