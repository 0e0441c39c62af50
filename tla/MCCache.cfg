\* A run and a runner at once, with timeouts, a rewrite and a crash.
SPECIFICATION Spec
CONSTANTS
  p1 = p1
  c1 = c1
  c2 = c2
  c3 = c3
  c4 = c4
  Connections <- MCConnections
  Paths = {p1}
  DataOf <- OneDataset
  Length <- MCLength
  Clients = {c1, c2}
  Kind <- RunAndRunner
  Retries = 0
  TimesOut = TRUE
  Overlap = TRUE
  FineStamps = TRUE
  MaxVersion = 2
  MaxCrashes = 1
INVARIANTS
  CacheTypeOK FreshData
PROPERTIES
  ImplementsRegistry
