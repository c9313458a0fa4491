SPECIFICATION Spec
CONSTANTS
  Client = {c1, c2}
  Name = {n1, n2}
  UUID = {u1, u2, u3}
  Key = {k1, k2, k3}
  NoName = noName
  NoUuid = noUuid
  NoKey = noKey
  WritesFail = FALSE
  ServerStops = FALSE
SYMMETRY Symmetric
INVARIANTS ValidMeInfo
