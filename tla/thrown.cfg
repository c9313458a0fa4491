CONSTANTS
  c1 = c1
  c2 = c2
  c3 = c3
  name1 = name1
  name2 = name2
  NoKey = NoKey
  Name = {name1, name2}
  Client = {c1, c2}
  NameOf <- OwnName
  KeyGivers <- AnyGiver
  Lossy = FALSE
  ServerStops = FALSE
  MaxLate = 0
  MaxRuns <- RunsOnce
  MaxWaiting = 1
SPECIFICATION AcquaintedSpec
INVARIANTS HandlersReturn
