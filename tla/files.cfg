SPECIFICATION Spec
CONSTANTS
  NameBuffer = 3
  UuidLength = 2
  Letter <- Letters
  Word <- Words
  Uuid <- Uuids
  Encoded <- Keys
  Address <- Addresses
  ServerInfo <- ServerInfos
INVARIANTS TypeOK FieldIsName NameReadBack IdentityReadBack Understood
