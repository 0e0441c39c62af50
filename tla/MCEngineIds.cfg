\* Order ids collide.
SPECIFICATION Spec
CONSTANTS
  i1 = i1
  s1 = s1
  s2 = s2
  Off = Off
  Instruments = {i1}
  Strategies = {s1}
  Default = s1
  Bars <- MCBars
  StaleAfter = Off
  Slip = 0
  HasAllocator = FALSE
  TotalCapital = 0
  Rules <- NoRules
  InitialCapital = 30
  Times <- MCTimes
  DayOf <- MCDayOf
  OrderInputs <- MCInputs
  PlaceDelays = {0, 1}
  AlarmDelays = {0}
  MaxCalls = 2
INVARIANT OrderIdsDistinct
