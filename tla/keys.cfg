CONSTANTS
  c1 = c1
  c2 = c2
  c3 = c3
  name1 = name1
  name2 = name2
  NoKey = NoKey
  Name = {name1, name2}
  Client = {c1, c2, c3}
  NameOf <- SharedName
  KeyGivers <- ThirdGives
  Lossy = TRUE
  ServerStops = TRUE
  MaxRuns <- RunsOnce
  MaxWaiting = 1
  MaxLate = 0
SPECIFICATION Spec
CHECK_DEADLOCK FALSE
SYMMETRY Symmetric
INVARIANTS TypeOK KeysReadable KeyPairing
