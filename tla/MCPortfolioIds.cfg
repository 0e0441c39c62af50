\* Two children whose orders got the same id: a cancel takes both.
SPECIFICATION PortfolioSpec
CONSTANTS
  i1 = i1
  s1 = s1
  s2 = s2
  default = default
  NoChild = NoChild
  Off = Off
  Instruments = {i1}
  Strategies = {s1, s2, default}
  Children = {s1, s2}
  Default = default
  Bars <- MCBars
  StaleAfter = Off
  Slip = 1
  HasAllocator = FALSE
  TotalCapital = 25
  Rules <- NoRules
  InitialCapital = 30
  Times <- FirstTime
  DayOf <- FirstDay
  OrderInputs <- RestingInputs
  PlaceDelays = {0}
  AlarmDelays = {0}
  MaxCalls = 4
INVARIANT CancelsTakeOwnOrders
