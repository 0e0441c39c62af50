\* Three days, two legs a day, every choice of premium, range and targets.
SPECIFICATION OrbSpec
CONSTANTS
  c1 = c1
  c2 = c2
  cw = cw
  cn = cn
  p1 = p1
  p2 = p2
  pn = pn
  s1 = s1
  Off = Off
  Instruments = {c1, c2, cw, cn, p1, p2, pn}
  Strategies = {s1}
  Default = s1
  Bars <- MCBars
  StaleAfter = 3
  Slip = 0
  HasAllocator = FALSE
  TotalCapital = 0
  Rules <- NoRules
  InitialCapital = 48
  Times <- MCTimes
  DayOf <- MCDayOf
  OrderInputs = {}
  PlaceDelays = {}
  AlarmDelays = {}
  MaxCalls = 30
  Meta <- MCMeta
  Params <- MCParams
  DayLength = 20
  Quantity = 1
INVARIANTS
  LegBooks LegsFollowTheRules
