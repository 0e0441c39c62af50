\* The day may end with a target order left in the market.
SPECIFICATION BuyingSpec
CONSTANTS
  a = a
  b = b
  s1 = s1
  Unknown = Unknown
  Unlisted = Unknown
  Off = Off
  Instruments = {a, b}
  Strategies = {s1}
  Default = s1
  Bars <- MCBars
  StaleAfter = Off
  Slip = 0
  HasAllocator = FALSE
  TotalCapital = 0
  Rules <- NoRules
  InitialCapital = 100
  Times <- MCTimes
  DayOf <- MCDayOf
  OrderInputs = {}
  PlaceDelays = {}
  AlarmDelays = {}
  MaxCalls = 60
  CsvFolders <- MCCsvFolders
  EntrySeconds = 4
  ExitSeconds = 8
  DayLength = 20
INVARIANT FlatAfterCutoff
