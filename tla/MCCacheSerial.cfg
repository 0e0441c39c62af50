\* Four programs one after the other, with a rewrite and a crash.
SPECIFICATION FairSpec
CONSTANTS
  p1 = p1
  c1 = c1
  c2 = c2
  c3 = c3
  c4 = c4
  Connections <- MCConnections
  Paths = {p1}
  DataOf <- OneDataset
  Length <- MCLength
  Clients = {c1, c2, c3, c4}
  Kind <- OneOfEach
  Retries = 1
  TimesOut = FALSE
  Overlap = FALSE
  FineStamps = TRUE
  MaxVersion = 2
  MaxCrashes = 1
INVARIANTS
  EntryUsable DataIsWhole RefusedOnlyAfterCrash
PROPERTY
  ClientsFinish
