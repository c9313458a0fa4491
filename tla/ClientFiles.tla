---------------------------- MODULE ClientFiles -----------------------------
(***************************************************************************)
(* The values a client reads and writes, character by character where the  *)
(* conversion can go wrong: names in their fixed buffer and identifiers    *)
(* (Validators.cpp), me.info and server.info (Client.cpp), and the port    *)
(* that the server reads (server.py).  One client starts, tries to         *)
(* register under one name after the other, stops and starts again.        *)
(*                                                                         *)
(* Registration has the failures in between and takes a whole me.info for  *)
(* the identity it was written from; this module shows that it is.         *)
(***************************************************************************)
EXTENDS Integers, FiniteSets, SequencesExt

CONSTANTS
  NameBuffer,   \* MAX_NAME_BUFFER_SIZE
  UuidLength,   \* UUID_LENGTH
  Letter,       \* the characters isalpha accepts
  Word,         \* what the user may type for a name
  Uuid,         \* identifiers the server may give out
  Encoded,      \* the Base64 text, with its newlines, of each private key
  Address,      \* what address::from_string accepts and has no colon
  ServerInfo    \* contents of server.info

NL == "\n"
NUL == "NUL"
SPACE == " "

ASSUME ConstantsAssumption ==
  /\ NameBuffer \in Nat \ {0} /\ UuidLength \in Nat
  /\ Letter \cap {NL, NUL, SPACE} = {}
  /\ Uuid \subseteq [1..UuidLength -> 0..255]
  /\ Word \cup Encoded \cup Address \cup ServerInfo \subseteq Seq(STRING)

VARIABLES
  process,      \* down, failed or menu
  address,      \* m_ipAddr and m_port
  isInit,       \* m_isInit
  name, uuid,   \* m_name and m_uuid
  key,          \* m_privateKey, by its encoding; <<>> for none
  meInfo,       \* the content of me.info; <<>> if there is none
  info,         \* history: the server.info of the last start
  sent,         \* history: the last name asked for, and the field sent for it
  mine          \* history: the name, identifier and key registered

vars == <<process, address, isInit, name, uuid, key, meInfo, info, sent, mine>>
-----------------------------------------------------------------------------
(* Name                                                                    *)

EmptyName == [isInit |-> FALSE, data |-> [i \in 1..NameBuffer |-> NUL]]

(* Mutant: no place is left for the null terminator.                       *)
NameFillsBuffer(word) == Len(word) > NameBuffer

NameTooLong(word) == Len(word) >= NameBuffer

NameAccepted(n, word) ==
  /\ ~NameTooLong(word)
  /\ ~n.isInit
  /\ \A i \in DOMAIN word : word[i] \in Letter \cup {SPACE}

(* Name::Deserialize: the rest of the buffer stays as it is.               *)
NameOf(n, word) ==
  [isInit |-> TRUE,
   data |-> [i \in 1..NameBuffer |->
               CASE i <= Len(word)     -> word[i]
                 [] i = Len(word) + 1  -> NUL
                 [] OTHER              -> n.data[i]]]

(* Mutant: the flag is reset and the buffer is not.                        *)
ResetFlag(n) == [n EXCEPT !.isInit = FALSE]

Reset(n) == EmptyName

(* What is read from a buffer as a string: everything before the first     *)
(* NUL.  Without one the reader goes on behind the buffer.                 *)
CString(buffer) ==
  LET end == SelectInSeq(buffer, LAMBDA c : c = NUL)
  IN  IF end = 0 THEN buffer \o <<"behind">> ELSE SubSeq(buffer, 1, end - 1)

(* The friend that HandleList makes of a node: Friend::Init and GetName.   *)
FriendName(field) ==
  LET listed == CString(field)
  IN  IF NameAccepted(EmptyName, listed)
      THEN CString(NameOf(EmptyName, listed).data)
      ELSE <<"refused">>
-----------------------------------------------------------------------------
(* UUID                                                                    *)

EmptyUuid == [isInit |-> FALSE, data |-> [i \in 1..UuidLength |-> 0]]
UuidOf(bytes) == [isInit |-> TRUE, data |-> bytes]

DIGITS == <<"0", "1", "2", "3", "4", "5", "6", "7", "8", "9", "a", "b", "c", "d", "e", "f">>
CAPITALS == <<"A", "B", "C", "D", "E", "F">>

Digit == {DIGITS[d] : d \in 1..10}
Capital == {CAPITALS[d] : d \in 1..6}
HexDigit == {DIGITS[d] : d \in 1..16} \cup Capital

Value(c) ==
  IF c \in Capital THEN (CHOOSE d \in 1..6 : CAPITALS[d] = c) + 9
                   ELSE (CHOOSE d \in 1..16 : DIGITS[d] = c) - 1

(* Mutant: a stream in hex mode writes no leading zero.                    *)
ToFileUnpadded(bytes) ==
  FlattenSeq([i \in 1..UuidLength |->
    IF bytes[i] < 16 THEN <<DIGITS[bytes[i] + 1]>>
    ELSE <<DIGITS[(bytes[i] \div 16) + 1], DIGITS[(bytes[i] % 16) + 1]>>])

(* UUID::ToFile                                                            *)
ToFile(bytes) ==
  [i \in 1..2 * UuidLength |->
     LET byte == bytes[(i + 1) \div 2]
     IN  DIGITS[1 + (IF i % 2 = 1 THEN byte \div 16 ELSE byte % 16)]]

UuidAccepted(u, text) ==
  /\ Len(text) = 2 * UuidLength
  /\ ~u.isInit
  /\ \A i \in DOMAIN text : text[i] \in HexDigit

(* UUID::FromFile                                                          *)
FromFile(text) ==
  UuidOf([i \in 1..UuidLength |-> 16 * Value(text[2 * i - 1]) + Value(text[2 * i])])
-----------------------------------------------------------------------------
(* Files: the empty text stands for one that does not exist, too.          *)

IsFileExists(text) == text # <<>>
GetFileSize(text) == Len(text)

(* The numbers of a finite set, each once, in ascending order.             *)
Sorted(S) ==
  CHOOSE s \in [1..Cardinality(S) -> S] : \A i, j \in DOMAIN s : i < j => s[i] < s[j]

(* What getline returns, call by call: a last line may lack its newline,   *)
(* and nothing behind a newline is no line.                                *)
Lines(text) ==
  LET ends == {i \in DOMAIN text : text[i] = NL}
              \cup (IF text # <<>> /\ Last(text) # NL THEN {Len(text) + 1} ELSE {})
      starts(i) == {j + 1 : j \in {k \in ends : k < i}} \cup {1}
      begin(i) == CHOOSE j \in starts(i) : \A k \in starts(i) : k <= j
      sorted == Sorted(ends)
  IN  [l \in DOMAIN sorted |-> SubSeq(text, begin(sorted[l]), sorted[l] - 1)]

(* Mutant: the newlines that Base64 text has stay in it.                   *)
KeyLineAsIs(k) == k

KeyLine(k) ==
  LET kept == Sorted({i \in DOMAIN k : k[i] # NL})
  IN  [j \in DOMAIN kept |-> k[kept[j]]]

(* Base64 text is of more than newlines, and tells its key without them.   *)
ASSUME KeysAssumption ==
  /\ \A k \in Encoded : KeyLine(k) # <<>>
  /\ \A k, l \in Encoded : KeyLine(k) = KeyLine(l) => k = l

(* What UpdateMeInfo writes.                                               *)
MeInfo(n, bytes, k) == CString(n.data) \o <<NL>> \o ToFile(bytes) \o <<NL>> \o KeyLine(k)

(* Base64Wrapper::decode and RSAPrivateWrapper: no other text is a key.    *)
KeyRead(line) == {k \in Encoded : KeyLine(k) = line}

(* What ParseMeInfo reads, or {}.                                          *)
ParseMeInfo(text) ==
  LET lines == Lines(text)
  IN  IF /\ Len(lines) = 3
         /\ NameAccepted(EmptyName, lines[1])
         /\ UuidAccepted(EmptyUuid, lines[2])
      THEN {[name |-> NameOf(EmptyName, lines[1]), uuid |-> FromFile(lines[2]), key |-> k] :
              k \in KeyRead(lines[3])}
      ELSE {}

MIN_IP == 7
MAX_IP == 15
MIN_PORT == 1
MAX_PORT == 5
MAX_PORT_VALUE == 65535

(* As the limits on the size of server.info have it, an address is four    *)
(* numbers with dots.                                                      *)
ASSUME AddressAssumption ==
  \A ip \in Address :
    Len(ip) \in MIN_IP..MAX_IP /\ \A i \in DOMAIN ip : ip[i] \notin {":", NL}

Number(digits) == FoldLeft(LAMBDA n, d : 10 * n + Value(d), 0, digits)

(* The text from its first character that is no space.                     *)
Unindented(text) ==
  LET first == SelectInSeq(text, LAMBDA c : c # SPACE)
  IN  IF first = 0 THEN <<>> ELSE SubSeq(text, first, Len(text))

(* stoi: spaces, a sign, then as many digits as there are; none if it      *)
(* throws.                                                                 *)
Stoi(text) ==
  LET number == Unindented(text)
      signed == number # <<>> /\ Head(number) \in {"-", "+"}
      body == IF signed THEN Tail(number) ELSE number
      stop == SelectInSeq(body, LAMBDA c : c \notin Digit)
      digits == IF stop = 0 THEN body ELSE SubSeq(body, 1, stop - 1)
  IN  IF digits = <<>> THEN {}
      ELSE {IF signed /\ Head(number) = "-" THEN -Number(digits) ELSE Number(digits)}

(* Mutant: 65535 is taken for too much.                                    *)
PortInRangeExclusive(p) == p \in 0..MAX_PORT_VALUE - 1

(* Mutant: the number is cast as it comes.                                 *)
PortUnchecked(p) == TRUE

(* As an unsigned number a negative one is far too large.                  *)
PortInRange(p) == p \in 0..MAX_PORT_VALUE

(* What ParseServerInfo reads, or {}.                                      *)
ParseServerInfo(text) ==
  LET lines == Lines(text)
      line == lines[1]
      colon == SelectInSeq(line, LAMBDA c : c = ":")
      ip == SubSeq(line, 1, colon - 1)
  IN  IF /\ IsFileExists(text)
         /\ GetFileSize(text) \in MIN_PORT + MIN_IP + 1 .. MAX_PORT + MAX_IP + 1
         /\ lines # <<>>
         /\ colon # 0 /\ Len(line) >= GetFileSize(text)
         /\ ip \in Address
      THEN {[ip |-> ip, port |-> p] :
              p \in {q \in Stoi(SubSeq(line, colon + 1, Len(line))) : PortInRange(q)}}
      ELSE {}

(* get_port of the server: one word, a number, in range.  That int takes   *)
(* signs and underscores too is left out.                                  *)
ServerPort(word) ==
  {p \in Stoi(word) : \A i \in DOMAIN word : word[i] \in Digit} \cap 1..MAX_PORT_VALUE
-----------------------------------------------------------------------------
NoAddress == [ip |-> <<>>, port |-> 0]
NoIdentity == [name |-> <<>>, uuid |-> EmptyUuid.data, key |-> <<>>]

Init ==
  /\ process = "down"
  /\ address = NoAddress
  /\ isInit = FALSE
  /\ name = EmptyName /\ uuid = EmptyUuid /\ key = <<>>
  /\ meInfo = <<>>
  /\ info = <<>>
  /\ sent = [name |-> <<>>, field |-> EmptyName.data]
  /\ mine = NoIdentity

Starts(text) ==
  /\ ParseServerInfo(text) # {}
  /\ IsFileExists(meInfo) => ParseMeInfo(meInfo) # {}

(* Client::Init and main                                                   *)
Start(text) ==
  /\ process # "menu"
  /\ info' = text
  /\ \/ /\ ~Starts(text)
        /\ process' = "failed"
        /\ UNCHANGED <<address, isInit, name, uuid, key>>
     \/ /\ address' \in ParseServerInfo(text)
        /\ ~IsFileExists(meInfo)
        /\ process' = "menu"
        /\ UNCHANGED <<isInit, name, uuid, key>>
     \/ /\ address' \in ParseServerInfo(text)
        /\ \E read \in ParseMeInfo(meInfo) :
             name' = read.name /\ uuid' = read.uuid /\ key' = read.key
        /\ isInit' = TRUE
        /\ process' = "menu"
  /\ UNCHANGED <<meInfo, sent, mine>>

(* The name is typed, found valid and sent.                                *)
Asks(word) ==
  /\ process = "menu" /\ ~isInit
  /\ NameAccepted(name, word)
  /\ sent' = [name |-> word, field |-> NameOf(name, word).data]

(* HandleRegister, when the exchange fails.                                *)
RegisterFails(word) ==
  /\ Asks(word)
  /\ name' = Reset(NameOf(name, word))
  /\ UNCHANGED <<process, address, isInit, uuid, key, meInfo, info, mine>>

(* HandleRegister and UpdateMeInfo, when it succeeds.                      *)
RegisterSucceeds(word, bytes, k) ==
  /\ Asks(word)
  /\ ~uuid.isInit
  /\ name' = NameOf(name, word)
  /\ uuid' = UuidOf(bytes)
  /\ key' = k
  /\ isInit' = TRUE
  /\ meInfo' = MeInfo(name', bytes, k)
  /\ mine' = [name |-> word, uuid |-> bytes, key |-> k]
  /\ UNCHANGED <<process, address, info>>

Stop ==
  /\ process = "menu"
  /\ process' = "down"
  /\ isInit' = FALSE
  /\ name' = EmptyName /\ uuid' = EmptyUuid /\ key' = <<>>
  /\ address' = NoAddress
  /\ UNCHANGED <<meInfo, info, sent, mine>>

Next ==
  \/ \E text \in ServerInfo : Start(text)
  \/ \E word \in Word : RegisterFails(word)
  \/ \E word \in Word, bytes \in Uuid, k \in Encoded : RegisterSucceeds(word, bytes, k)
  \/ Stop

Spec == Init /\ [][Next]_vars
-----------------------------------------------------------------------------
(* Correctness                                                             *)

(* The port is one of 16 bits, an identity is initialised as a whole, and  *)
(* a client that shows its menu has an address.                            *)
TypeOK ==
  /\ process \in {"down", "failed", "menu"}
  /\ address.ip \in Address \cup {<<>>} /\ address.port \in 0..MAX_PORT_VALUE
  /\ isInit \in BOOLEAN
  /\ DOMAIN name.data = 1..NameBuffer /\ name.isInit = isInit
  /\ uuid.data \in [1..UuidLength -> 0..255] /\ uuid.isInit = isInit
  /\ key \in Encoded \cup {<<>>} /\ (key # <<>>) = isInit
  /\ process = "menu" => address.ip \in Address
  /\ info \in ServerInfo \cup {<<>>}

(* The server compares whole fields: the field sent for a name depends on  *)
(* the name alone, whatever longer names were tried before.                *)
FieldIsName ==
  sent.field = [i \in 1..NameBuffer |-> IF i <= Len(sent.name) THEN sent.name[i] ELSE NUL]

(* What others make of the field is the name that was typed, so that they  *)
(* find the friend under the name they see.                                *)
NameReadBack == FriendName(sent.field) = sent.name

(* me.info is read as the identity that it was written from.               *)
IdentityReadBack ==
  /\ meInfo # <<>> =>
       ParseMeInfo(meInfo) =
         {[name |-> NameOf(EmptyName, mine.name), uuid |-> UuidOf(mine.uuid), key |-> mine.key]}
  /\ isInit => CString(name.data) = mine.name /\ uuid.data = mine.uuid /\ key = mine.key

(* With an address and the port that the server listens on in server.info, *)
(* written with no more than five digits, the client starts and takes them *)
(* as they are.                                                            *)
Understood ==
  \A ip \in Address :
    LET word == SubSeq(info, Len(ip) + 2, Len(info))
    IN  info = ip \o <<":">> \o word /\ Len(word) <= MAX_PORT /\ process # "down" =>
          \A p \in ServerPort(word) : process = "menu" /\ address = [ip |-> ip, port |-> p]
=============================================================================
