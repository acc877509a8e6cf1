\* Two climate modes and states, one charge reading, one outage of the broker.
SPECIFICATION FairSpec
CONSTANTS
  Modes = {"cool", "heat"}
  States = {"on", "off"}
  Remainings = {"90"}
  Configs = {"lock"}
  MaxOutages = 1
INVARIANTS
  TypeOK
  BrokerShowsCar
  ClimateAgrees
  DiscoveryComplete
PROPERTIES
  UnreachableMeansOffline
CHECK_DEADLOCK FALSE
