\* Every file of up to three rows over three instruments and four times.
SPECIFICATION StoreSpec
CONSTANTS
  spot = spot
  ce = ce
  pe = pe
  bad = bad
  Symbols = {spot, ce, pe}
  Unreadable = bad
  Options <- MCOptions
  Matches <- MCMatches
  Stamps = {0, 1, 2, 3}
  Minute = 2
  DayOf <- MCDayOf
  MaxRows = 3
INVARIANTS
  ViewsAgreeWithFile SliceShowsTheMinute
CHECK_DEADLOCK FALSE
