\* The three straddles on two days of data: every move of a call and a put.
SPECIFICATION ShippedSpec
CONSTANTS
  s1 = s1
  Off = Off
  Instruments <- MCInstruments
  Strategies = {s1}
  Default = s1
  Bars <- MCBars
  StaleAfter = Off
  Slip = 0
  HasAllocator = FALSE
  TotalCapital = 0
  Rules <- NoRules
  InitialCapital = 600
  Times <- MCTimes
  DayOf <- MCDayOf
  OrderInputs = {}
  PlaceDelays = {}
  AlarmDelays = {}
  MaxCalls = 40
  Markets <- MCMarkets
  Meta <- MCMeta
  Windows <- MCWindows
  DayLength = 20
  Quantity = 2
  StopPct = 20
  TargetPremium = 12
  Hours <- MCHours
  ShortPeriod = 1
  LongPeriod = 2
INVARIANTS
  ShortsAreGuarded BelievesItsLegs BoughtBack LegsOfTheDay CrossoverSide
