SPECIFICATION FairSpec
CONSTANTS
  Name = {"a", "b"}
  Span = {"s1", "s2", "s3"}
  None = None
  FirstLists <- Lists
  ForeignLists <- Foreigns
  MaxCommands = 2
  MaxForeign = 1
  MaxFaults = 1
INVARIANTS
  CopyInStep
PROPERTIES
  KeepsOthers
  CopyInTheEnd
  NumberInTheEnd
