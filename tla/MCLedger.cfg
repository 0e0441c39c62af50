\* Two strategies on two instruments of one account, and longer runs of one
\* strategy on one instrument, with prices whose averages do not divide evenly.
\* The capital is small, so that the equity curve also goes below zero.
SPECIFICATION MCSpec
CONSTANTS
  i1 = i1
  i2 = i2
  s1 = s1
  s2 = s2
  NoBounds = NoBounds
  Instruments = {i1, i2}
  Strategies = {s1, s2}
  InitialCapital = 12
  MaxShared = 3
  MaxTrades = 4
  Qtys = {1, 2, 3}
  SharedQtys = {1, 2}
  Prices = {10, 13}
  Timeline <- MCTimeline
  LocalDay <- MCLocalDay
  Closes <- MCCloses
  Bounds <- MCBounds
  Tax <- MCTax
INVARIANTS
  LedgerTypeOK CostWithinTrades BooksReplayTrades ExposureIsMarked
  ReportsAgree CurvesAreReal BookEventsTellTheBook
PROPERTY
  MoneyConserved
\* A run is over after its last fill (MaxTrades).
CHECK_DEADLOCK FALSE
