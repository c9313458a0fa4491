CONSTANTS
  c1 = c1
  c2 = c2
  c3 = c3
  name1 = name1
  name2 = name2
  NoKey = NoKey
  Name = {name1, name2}
  Client = {c1, c2}
  NameOf <- OwnName
  KeyGivers <- AnyGiver
  Lossy = TRUE
  ServerStops = TRUE
  MaxRuns <- FirstRestarts
  MaxWaiting = 2
  MaxLate = 1
SPECIFICATION AcquaintedSpec
CHECK_DEADLOCK FALSE
INVARIANTS Agreement TextsReadable
