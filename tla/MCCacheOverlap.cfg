\* Two programs ask for one dataset at once.
SPECIFICATION Spec
CONSTANTS
  p1 = p1
  c1 = c1
  c2 = c2
  c3 = c3
  c4 = c4
  Connections <- MCConnections
  Paths = {p1}
  DataOf <- OneDataset
  Length <- MCLength
  Clients = {c1, c2}
  Kind <- RunAndRunner
  Retries = 0
  TimesOut = FALSE
  Overlap = TRUE
  FineStamps = TRUE
  MaxVersion = 1
  MaxCrashes = 0
INVARIANTS
  EnsureAnswered
