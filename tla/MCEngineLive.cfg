\* Liveness, and the refinement of OrderLife.
SPECIFICATION Spec
CONSTANTS
  i1 = i1
  s1 = s1
  s2 = s2
  Off = Off
  Instruments = {i1}
  Strategies = {s1}
  Default = s1
  Bars <- MCBars
  StaleAfter = 0
  Slip = 1
  HasAllocator = FALSE
  TotalCapital = 0
  Rules <- NoRules
  InitialCapital = 30
  Times <- MCTimes
  DayOf <- MCDayOf
  OrderInputs <- MCInputs
  PlaceDelays <- MCDelays
  AlarmDelays = {0, 3}
  MaxCalls = 2
PROPERTIES Terminates EventsDelivered ImplementsOrderLife
