------------------------------- MODULE Client -------------------------------
(***************************************************************************)
(* Registered clients and what they tell each other through the server     *)
(* (Client.cpp, Friend.cpp): lists of users, public keys, symmetric keys,  *)
(* texts.  All they know of each other is in memory, one Friend per NAME,  *)
(* and is lost when the program stops.                                     *)
(*                                                                         *)
(* A client is named by its identifier, which is its own (Registration:    *)
(* OwnIdentity, IdentitiesApart); two clients may have one name            *)
(* (ClientHandler: UniqueNames).  The client has one thread and the server *)
(* handles a request at one instant (ClientHandlerService), so a handler   *)
(* is one step.  HandleWaitingMessages is not: it reads its batch message  *)
(* by message, and the program may stop in between.  A request whose       *)
(* exchange failed may be handled later all the same (Connection), and is  *)
(* in late until then.                                                     *)
(*                                                                         *)
(* A public key is named by its owner.  A symmetric key is named by who    *)
(* generated it, for whom and in which run of the program: GetSymKey       *)
(* generates at most one for a Friend.                                     *)
(***************************************************************************)
EXTENDS Protocol, Sequences, FiniteSets

CONSTANTS
  Client, Name,
  NameOf,      \* the name each client registers under
  NoKey,       \* no public, or no symmetric, key
  KeyGivers,   \* <<c, d>>: the user of c may choose to send d a symmetric key
  Lossy,       \* TRUE: an exchange may fail, before or after the server's part
  ServerStops, \* TRUE: the server may restart
  MaxRuns,     \* bound: how often the program of each client is started
  MaxWaiting,  \* bound: messages that wait for a client
  MaxLate      \* bound: requests that are handled after their exchange failed

ASSUME ConstantsAssumption ==
  /\ NameOf \in [Client -> Name]
  /\ NoKey \notin Client
  /\ KeyGivers \subseteq Client \X Client
  /\ {Lossy, ServerStops} \subseteq BOOLEAN
  /\ MaxRuns \in [Client -> Nat \ {0}] /\ {MaxWaiting, MaxLate} \subseteq Nat

VARIABLES
  users,      \* of the server: the registered clients, oldest first
  inbox,      \* of the server: recv_messages of each client
  late,       \* requests that the server has yet to handle, their exchange failed
  status,     \* of each client: unregistered, menu, reading, or crashed
  run,        \* how often its program has been started
  friends,    \* m_data: Friend by name, known names only
  batch,      \* what HandleWaitingMessages has yet to read
  lost        \* history: something failed, was given up, ended or restarted

server == <<users, inbox, late>>
program == <<status, run, friends, batch>>
vars == <<server, program, lost>>

SymKey == [maker : Client, peer : Client, run : Nat \ {0}]

ASSUME KeyAssumption == NoKey \notin SymKey

Friend ==
  [uuid : Client, public : Client \cup {NoKey}, symkey : SymKey \cup {NoKey}]

(* cipher_for: whose public key encrypts the symmetric key of a SendSK;    *)
(* key: that symmetric key, or the one that encrypts a Text.               *)
Message ==
  [sender : Client, type : MessageTypes, cipher_for : Client \cup {NoKey},
   key : SymKey \cup {NoKey}]

(* mail: the message that is for the client to, or <<>> for its own fetch. *)
Request == [to : Client, mail : Seq(Message)]

known(c) == DOMAIN friends[c]
Registered == {users[i] : i \in DOMAIN users}

Init ==
  /\ users = <<>>
  /\ inbox = [c \in Client |-> <<>>]
  /\ late = {}
  /\ status = [c \in Client |-> "unregistered"]
  /\ run = [c \in Client |-> 1]
  /\ friends = [c \in Client |-> [n \in {} |-> {}]]
  /\ batch = [c \in Client |-> <<>>]
  /\ lost = FALSE
-----------------------------------------------------------------------------
(* Friend                                                                  *)

(* Mutant: the constructor leaves m_symkey as it finds it.                 *)
NewFriendKeyed(u) == [uuid |-> u, public |-> NoKey, symkey |-> u]

NewFriend(u) == [uuid |-> u, public |-> NoKey, symkey |-> NoKey]

HasSym(f) == f.symkey # NoKey

Generated(c, f) == [maker |-> c, peer |-> f.uuid, run |-> run[c]]

(* GetSymKey generates the key of a friend that has none.                  *)
WithSymKey(c, f) == IF HasSym(f) THEN f ELSE [f EXCEPT !.symkey = Generated(c, f)]

SetPublicKey(f, k) == IF f.public = NoKey THEN [f EXCEPT !.public = k] ELSE f

(* Mutant: the received key replaces the one there is.                     *)
SetSymKeyAlways(f, k) == [f EXCEPT !.symkey = k]

SetSymKey(f, k) == IF HasSym(f) THEN f ELSE [f EXCEPT !.symkey = k]

Update(c, n, f) == friends' = [friends EXCEPT ![c][n] = f]

(* GetNameFromUuid                                                         *)
NamesFor(c, u) == {n \in known(c) : friends[c][n].uuid = u}
-----------------------------------------------------------------------------
(* Messages for u, and a late fetch of u: what the bound is on.            *)
Coming(u) == Len(inbox[u]) + Cardinality({r \in late : r.to = u})

(* The exchange fails; the server never handles it, or does so later.      *)
Fails(c, request) ==
  /\ Lossy
  /\ \/ UNCHANGED late
     \/ /\ c \in Registered
        /\ Cardinality(late) < MaxLate /\ Coming(request.to) < MaxWaiting
        /\ late' = late \cup {request}
  /\ lost' = TRUE
  /\ UNCHANGED inbox

(* The exchange by which c sends u a message: it is appended to the inbox  *)
(* of u, refused because the server does not know one of them, or fails.   *)
Exchange(c, u, m) ==
  /\ \/ /\ {c, u} \subseteq Registered
        /\ Coming(u) < MaxWaiting
        /\ inbox' = [inbox EXCEPT ![u] = Append(@, m)]
        /\ UNCHANGED <<late, lost>>
     \/ /\ ~({c, u} \subseteq Registered)
        /\ UNCHANGED <<inbox, late, lost>>
     \/ Fails(c, [to |-> u, mail |-> <<m>>])
  /\ UNCHANGED users

(* Whoever is told its identifier is registered under it, however often it *)
(* tried before (Registration: AnswerKept).                                *)
HandleRegister(c) ==
  /\ status[c] = "unregistered"
  /\ users' = Append(users, c)
  /\ status' = [status EXCEPT ![c] = "menu"]
  /\ UNCHANGED <<inbox, late, run, friends, batch, lost>>

Others(c) == {i \in DOMAIN users : users[i] # c}
NamesListed(c) == {NameOf[users[i]] : i \in Others(c)}

(* Where the name comes first in the list for c.                           *)
First(c, n) ==
  CHOOSE i \in Others(c) :
    NameOf[users[i]] = n /\ \A j \in Others(c) : NameOf[users[j]] = n => i <= j

(* Mutant: a name that is known already, from an earlier list or from      *)
(* further up in this one, gets the new identifier.                        *)
Last(c, n) ==
  CHOOSE i \in Others(c) :
    NameOf[users[i]] = n /\ \A j \in Others(c) : NameOf[users[j]] = n => i >= j

ListedUpdated(c) ==
  [n \in known(c) \cup NamesListed(c) |->
     IF n \in known(c)
     THEN [friends[c][n] EXCEPT !.uuid = users[Last(c, n)]]
     ELSE NewFriend(users[Last(c, n)])]

(* A user whose name is known already is passed over, whether from an      *)
(* earlier list or from further up in this one.                            *)
Listed(c) ==
  [n \in known(c) \cup NamesListed(c) |->
     IF n \in known(c) THEN friends[c][n] ELSE NewFriend(users[First(c, n)])]

(* The server lists every user but the sender, oldest first.               *)
HandleList(c) ==
  /\ status[c] = "menu" /\ c \in Registered
  /\ friends' = [friends EXCEPT ![c] = Listed(c)]
  /\ UNCHANGED <<server, status, run, batch, lost>>

HandlePublicKey(c, n) ==
  /\ status[c] = "menu" /\ n \in known(c)
  /\ {c, friends[c][n].uuid} \subseteq Registered
  /\ Update(c, n, SetPublicKey(friends[c][n], friends[c][n].uuid))
  /\ UNCHANGED <<server, status, run, batch, lost>>

HandleRequestSymKey(c, n) ==
  /\ status[c] = "menu" /\ n \in known(c)
  /\ Exchange(c, friends[c][n].uuid,
              [sender |-> c, type |-> GetSK, cipher_for |-> NoKey, key |-> NoKey])
  /\ UNCHANGED program

(* The key is generated and kept before the exchange that sends it.        *)
HandleSendSymKey(c, n) ==
  LET f == WithSymKey(c, friends[c][n])
  IN  /\ status[c] = "menu" /\ n \in known(c)
      /\ <<c, f.uuid>> \in KeyGivers
      /\ f.public # NoKey
      /\ Update(c, n, f)
      /\ Exchange(c, f.uuid,
                  [sender |-> c, type |-> SendSK, cipher_for |-> f.public, key |-> f.symkey])
      /\ UNCHANGED <<status, run, batch>>

(* Mutant: HasSym is not asked for, and GetSymKey generates a key.         *)
MaySendTextAnyway(c, n) == status[c] = "menu" /\ n \in known(c)

MaySendText(c, n) == status[c] = "menu" /\ n \in known(c) /\ HasSym(friends[c][n])

HandleSendMessage(c, n) ==
  /\ MaySendText(c, n)
  /\ LET f == WithSymKey(c, friends[c][n])
     IN  /\ Update(c, n, f)
         /\ Exchange(c, f.uuid,
                     [sender |-> c, type |-> Text, cipher_for |-> NoKey, key |-> f.symkey])
  /\ UNCHANGED <<status, run, batch>>
-----------------------------------------------------------------------------
(* HandleWaitingMessages                                                   *)

(* The server clears the inbox and answers.                                *)
Fetch(c) ==
  /\ status[c] = "menu" /\ c \in Registered
  /\ inbox' = [inbox EXCEPT ![c] = <<>>]
  /\ batch' = [batch EXCEPT ![c] = inbox[c]]
  /\ status' = [status EXCEPT ![c] = "reading"]
  /\ UNCHANGED <<users, late, run, friends, lost>>

(* The answer is lost, or the request is handled later.                    *)
FetchFails(c) ==
  /\ status[c] = "menu" /\ c \in Registered
  /\ \/ /\ Lossy
        /\ inbox' = [inbox EXCEPT ![c] = <<>>]
        /\ lost' = TRUE
        /\ UNCHANGED late
     \/ Fails(c, [to |-> c, mail |-> <<>>])
  /\ UNCHANGED <<users, program>>

(* The server handles a request whose client has given it up.              *)
LateRequest(r) ==
  /\ r \in late
  /\ inbox' = [inbox EXCEPT ![r.to] = IF r.mail = <<>> THEN <<>> ELSE @ \o r.mail]
  /\ late' = late \ {r}
  /\ UNCHANGED <<users, program, lost>>

Return(c) ==
  /\ status' = [status EXCEPT ![c] = "menu"]
  /\ batch' = [batch EXCEPT ![c] = <<>>]

(* The loop goes on behind the message.                                    *)
Continue(c) ==
  /\ batch' = [batch EXCEPT ![c] = Tail(@)]
  /\ UNCHANGED status

Reads(c, type) ==
  /\ status[c] = "reading" /\ batch[c] # <<>>
  /\ Head(batch[c]).type = type
  /\ NamesFor(c, Head(batch[c]).sender) # {}

EndReading(c) ==
  /\ status[c] = "reading" /\ batch[c] = <<>>
  /\ Return(c)
  /\ UNCHANGED <<server, run, friends, lost>>

(* The sender is not a friend: the rest of the batch is given up.          *)
ReadUnknown(c) ==
  /\ status[c] = "reading" /\ batch[c] # <<>>
  /\ NamesFor(c, Head(batch[c]).sender) = {}
  /\ Return(c)
  /\ lost' = TRUE
  /\ UNCHANGED <<server, run, friends>>

ReadGetSymKey(c) ==
  /\ Reads(c, GetSK)
  /\ Continue(c)
  /\ UNCHANGED <<server, run, friends, lost>>

(* RSAPrivateWrapper::decrypt throws on what another key encrypted.        *)
Decrypts(c, m) == m.cipher_for = c

(* What the private key does not decrypt ends the batch.                   *)
ReadSendSymKey(c) ==
  LET m == Head(batch[c])
  IN  /\ Reads(c, SendSK)
      /\ \/ /\ Decrypts(c, m)
            /\ \E n \in NamesFor(c, m.sender) : Update(c, n, SetSymKey(friends[c][n], m.key))
            /\ Continue(c) /\ UNCHANGED lost
         \/ /\ ~Decrypts(c, m)
            /\ Return(c) /\ lost' = TRUE /\ UNCHANGED friends
      /\ UNCHANGED <<server, run>>

(* AESWrapper::decrypt under another key finds no valid padding and        *)
(* throws, or by chance finds it and returns garbage.                      *)
DecryptMayThrow(f, m) == f.symkey # m.key

(* Nothing catches it.                                                     *)
Terminate(c) ==
  /\ status' = [status EXCEPT ![c] = "crashed"]
  /\ batch' = [batch EXCEPT ![c] = <<>>]
  /\ friends' = [friends EXCEPT ![c] = [n \in {} |-> {}]]

ReadText(c) ==
  LET m == Head(batch[c])
  IN  /\ Reads(c, Text)
      /\ \E n \in NamesFor(c, m.sender) :
           LET f == WithSymKey(c, friends[c][n])
           IN  \/ Update(c, n, f) /\ Continue(c) /\ UNCHANGED lost
               \/ DecryptMayThrow(f, m) /\ Terminate(c) /\ lost' = TRUE
      /\ UNCHANGED <<server, run>>
-----------------------------------------------------------------------------
(* The program ends, by the user's choice or otherwise, and is started     *)
(* again: its identity comes from me.info, its friends are forgotten.      *)
Restart(c) ==
  /\ status[c] # "unregistered"
  /\ run[c] < MaxRuns[c]
  /\ run' = [run EXCEPT ![c] = @ + 1]
  /\ status' = [status EXCEPT ![c] = "menu"]
  /\ friends' = [friends EXCEPT ![c] = [n \in {} |-> {}]]
  /\ batch' = [batch EXCEPT ![c] = <<>>]
  /\ lost' = TRUE
  /\ UNCHANGED server

(* The server forgets its users and their messages; a client keeps its     *)
(* identity, and every request of it is refused from then on.              *)
ServerRestart ==
  /\ ServerStops /\ users # <<>>
  /\ users' = <<>>
  /\ inbox' = [c \in Client |-> <<>>]
  /\ late' = {}
  /\ lost' = TRUE
  /\ UNCHANGED program

Next ==
  \/ \E c \in Client :
       \/ HandleRegister(c) \/ HandleList(c) \/ Fetch(c) \/ FetchFails(c)
       \/ EndReading(c) \/ ReadUnknown(c) \/ ReadGetSymKey(c)
       \/ ReadSendSymKey(c) \/ ReadText(c) \/ Restart(c)
       \/ \E n \in Name :
            \/ HandlePublicKey(c, n) \/ HandleRequestSymKey(c, n)
            \/ HandleSendSymKey(c, n) \/ HandleSendMessage(c, n)
  \/ \E r \in late : LateRequest(r)
  \/ ServerRestart

Spec == Init /\ [][Next]_vars
-----------------------------------------------------------------------------
(* Correctness                                                             *)

(* Every variable holds a value of its type.                               *)
TypeOK ==
  /\ users \in Seq(Client)
  /\ inbox \in [Client -> Seq(Message)]
  /\ late \subseteq Request /\ lost \in BOOLEAN
  /\ status \in [Client -> {"unregistered", "menu", "reading", "crashed"}]
  /\ run \in [Client -> Nat \ {0}]
  /\ \A c \in Client : known(c) \subseteq Name /\ friends[c] \in [known(c) -> Friend]
  /\ batch \in [Client -> Seq(Message)]

Waiting(c) == batch[c] \o inbox[c]

(* A symmetric key that waits for a client is encrypted for that client,   *)
(* although its sender asked for the public key by name, at another time   *)
(* than for the list, and two users may have that name.                    *)
KeysReadable ==
  \A c \in Client : \A i \in DOMAIN Waiting(c) :
    Waiting(c)[i].type = SendSK => Waiting(c)[i].cipher_for = c

(* A symmetric key is only ever held by the two clients it was generated   *)
(* for, each for the other.                                                *)
KeyPairing ==
  \A c \in Client : \A n \in known(c) :
    LET f == friends[c][n]
    IN  HasSym(f) => <<f.symkey.maker, f.symkey.peer>> \in {<<c, f.uuid>>, <<f.uuid, c>>}

HoldsFor(c, u, k) == \E n \in NamesFor(c, u) : friends[c][n].symkey = k

(* A client that took over a friend's key agrees with that friend on it,   *)
(* as long as the friend's program has not ended: whatever they sent each  *)
(* other at the same time, lost or sent again.                             *)
Agreement ==
  \A c \in Client : \A n \in known(c) :
    LET f == friends[c][n]
    IN  /\ HasSym(f) /\ f.symkey.maker = f.uuid
        /\ status[f.uuid] # "crashed" /\ f.symkey.run = run[f.uuid]
        => HoldsFor(f.uuid, c, f.symkey)

(* As long as nothing was lost and nobody restarted, a text is under the   *)
(* key that its reader holds when it comes to read it, unless the reader   *)
(* made a key for the sender itself.                                       *)
TextsReadable ==
  \A c \in Client :
    ~lost /\ batch[c] # <<>> /\ Head(batch[c]).type = Text =>
      LET m == Head(batch[c])
      IN  \/ HoldsFor(c, m.sender, m.key)
          \/ /\ m.key.maker = m.sender
             /\ HoldsFor(c, m.sender, [maker |-> c, peer |-> m.sender, run |-> run[c]])
-----------------------------------------------------------------------------
(* What the comments of the repository say, and the code does not keep.    *)

(* Client.h, on the handlers: "Each of them returns Client::ReturnStatus". *)
HandlersReturn == \A c \in Client : status[c] # "crashed"
=============================================================================
