\* The allocator rejects an order that closes a position.
SPECIFICATION Spec
CONSTANTS
  i1 = i1
  s1 = s1
  s2 = s2
  Off = Off
  Instruments = {i1}
  Strategies = {s1}
  Default = s1
  Bars <- MCBars
  StaleAfter = Off
  Slip = 0
  HasAllocator = TRUE
  TotalCapital = 25
  Rules <- MCRules
  InitialCapital = 30
  Times <- MCTimes
  DayOf <- MCDayOf
  OrderInputs <- SharedInputs
  PlaceDelays = {0}
  AlarmDelays = {0}
  MaxCalls = 2
INVARIANT ClosingNotRejected
