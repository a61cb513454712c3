SPECIFICATION Spec
CONSTANTS
  Wallboxes = 1
  MaxMeter = 2
  MaxDays = 2
  MaxTroubles = 2

  
PROPERTIES
  NeverFalls
