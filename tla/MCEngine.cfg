\* One strategy: every interleaving of three calls (orders of each type, also
\* stamped in the past or between bars, cancels, alarms) with the loop.
SPECIFICATION Spec
CONSTANTS
  i1 = i1
  s1 = s1
  s2 = s2
  Off = Off
  Instruments = {i1}
  Strategies = {s1}
  Default = s1
  Bars <- MCBars
  StaleAfter = Off
  Slip = 0
  HasAllocator = FALSE
  TotalCapital = 0
  Rules <- NoRules
  InitialCapital = 30
  Times <- MCTimes
  DayOf <- MCDayOf
  OrderInputs <- MCInputs
  PlaceDelays <- MCDelays
  AlarmDelays = {0, 3}
  MaxCalls = 3
INVARIANTS
  OrderConservation StepDrained NoMissedFill
  TradesJustified TradesInOrder CancelHonoured
