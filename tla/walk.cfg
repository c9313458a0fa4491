SPECIFICATION Spec
CONSTANTS
  Thread = {t1, t2, t3}
  UUID = {u1, u2, u3}
  NullUuid = nullUuid
  Name = {name1, name2}
  PublicKey = {key1}
  name1 = name1
  name2 = name2
  key1 = key1
  NoThread = noThread
  NoRequest = noRequest
  Uuid1Unique = TRUE
  Requests <- AccountRequests
INVARIANTS NoRuntimeError
