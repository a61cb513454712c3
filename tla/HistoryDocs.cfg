SPECIFICATION Spec
CONSTANTS
  Date <- Dates
  BadDate <- BadDates
  YearOf <- Years
  None = None
  CurrYear = 3
  FirstYear = 1
  MaxDays = 2
  MaxAsk = 3
  MaxFaults = 1
INVARIANTS
  DayIsThatDay
