SPECIFICATION Spec
CONSTANTS
  Wallboxes <- MCWallboxes
  Currents <- MCCurrents
  MaxCurrent = 3
  PowerModes <- MCPowerModes
  Interval = 2
  Hold = 3
  Configs <- MCConfigs
  MaxCommands = 2
  MaxTroubles = 1
PROPERTIES
  ForItsWallbox
