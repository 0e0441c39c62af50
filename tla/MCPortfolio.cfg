\* Two children on one account, under an allocator: broadcast in either order,
\* routing of what they ask for.
SPECIFICATION PortfolioSpec
CONSTANTS
  i1 = i1
  s1 = s1
  s2 = s2
  default = default
  NoChild = NoChild
  Off = Off
  Instruments = {i1}
  Strategies = {s1, s2, default}
  Children = {s1, s2}
  Default = default
  Bars <- MCBars
  StaleAfter = Off
  Slip = 1
  HasAllocator = TRUE
  TotalCapital = 25
  Rules <- MCRules
  InitialCapital = 30
  Times <- MCTimes
  DayOf <- MCDayOf
  OrderInputs <- MCInputs
  PlaceDelays = {0}
  AlarmDelays = {0}
  MaxCalls = 3
INVARIANTS
  TypeOK RoutedToAsker AttributedToAsker
