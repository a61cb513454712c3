SPECIFICATION Spec
CONSTANTS
  Table <- MCTable
  Start <- MCStart
  Devices <- MCDevices
  Patterns <- MCPatterns
  Forced = {5, 7}
  Full = 3
  MaxChanges = 1
  MaxTroubles = 1
INVARIANTS
  CacheInStep
  DerivedInStep
PROPERTIES
  NoFalseZero
  BrokerShows
