SPECIFICATION Spec
CONSTANTS
  Systems <- MCSystems
  MaxErrors = 2
  MaxSwitches = 2
INVARIANTS
  InPlace
PROPERTIES
  EventuallyAll
