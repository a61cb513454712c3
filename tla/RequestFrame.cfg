SPECIFICATION Spec
CONSTANTS
  Lines <- MCLines
  Settings <- MCSettings
  BadText <- MCBadText
  CurrYear = 2024
  MaxCount = 2
  MaxLines = 3
  MaxSettings = 1
  Limit = 70
  Spots = {4, 17, 24}
  Damages = {1, 16}
INVARIANTS
  
  Understood
CHECK_DEADLOCK FALSE
