SPECIFICATION LimiterSpec
CONSTANTS
  Soc <- Socs
  FullSoc = 5
  Solar <- Solars
  SolarMin = 2
  Home <- Homes
  SocLimits <- SocLimitSet
  HomeLimits <- HomeLimitSet
  MaxSets = 3
  MaxDays = 2
  MaxLosses = 1
INVARIANTS
  
  NoFlapping
  
  
