--------------------------- MODULE ClientTextProofs ---------------------------
(***************************************************************************)
(* Why texts can be read as long as nothing is lost, for every set of      *)
(* clients and names and any number of messages: the server hands them out *)
(* in order, and no text is sent under a key that is not on its way.       *)
(***************************************************************************)
EXTENDS ClientProofs

-----------------------------------------------------------------------------
(* The inductive invariant, on top of KInv.                                *)

(* Client c has a symmetric key for d.                                     *)
Keyed(c, d) == \E n \in NamesFor(c, d) : HasSym(friends[c][n])

(* Message m brings a symmetric key of c.                                  *)
Offers(m, c) == m.type = SendSK /\ m.sender = c

(* What has not happened yet when nothing is lost.                         *)
Undisturbed ==
  /\ late = {}
  /\ \A c \in Client :
       /\ run[c] = 1 /\ status[c] # "crashed"
       /\ status[c] # "unregistered" <=> c \in Registered
       /\ status[c] # "reading" => batch[c] = <<>>
       /\ \A n \in known(c) : friends[c][n].uuid \in Registered

(* A friend for whom a client has a key has one too, or will read of one.  *)
OfferedInv ==
  \A c \in Client : \A n \in known(c) :
    LET d == friends[c][n].uuid
    IN  HasSym(friends[c][n]) =>
          Keyed(d, c) \/ \E i \in DOMAIN Waiting(d) : Offers(Waiting(d)[i], c)

(* Whoever is to read a text has a key for its sender, or reads of one     *)
(* before.                                                                 *)
PrecededInv ==
  \A c \in Client : \A i \in DOMAIN Waiting(c) :
    LET m == Waiting(c)[i]
    IN  m.type = Text =>
          Keyed(c, m.sender) \/ \E j \in 1..(i - 1) : Offers(Waiting(c)[j], m.sender)

QuietInv == Undisturbed /\ OfferedInv /\ PrecededInv

TInv == ~lost => QuietInv
-----------------------------------------------------------------------------
(* What waits for a client is the rest of its batch and its inbox.         *)

(* What is appended to the inbox is appended to what waits.                *)
LEMMA AppendBehind ==
  ASSUME NEW S, NEW s \in Seq(S), NEW t \in Seq(S), NEW m \in S
  PROVE  s \o Append(t, m) = Append(s \o t, m)
  <1>1. <<m>> \in Seq(S) /\ s \o t \in Seq(S)
    BY ConcatProperties
  <1>2. Append(t, m) = t \o <<m>> /\ Append(s \o t, m) = (s \o t) \o <<m>>
    BY <1>1, AppendIsConcat
  <1> QED
    BY <1>1, <1>2, ConcatAssociative

(* The first element of a sequence, and the others.                        *)
LEMMA HeadAndTail ==
  ASSUME NEW S, NEW s \in Seq(S), s # <<>>
  PROVE  /\ Len(s) \in Nat \ {0} /\ Head(s) = s[1] /\ Head(s) \in S
         /\ Tail(s) \in Seq(S) /\ Len(Tail(s)) = Len(s) - 1
         /\ DOMAIN Tail(s) = 1..(Len(s) - 1)
         /\ \A j \in 1..(Len(s) - 1) : Tail(s)[j] = s[j + 1]
  OBVIOUS

(* What is read from the batch is read from what waits.                    *)
LEMMA TailBefore ==
  ASSUME NEW S, NEW s \in Seq(S), NEW t \in Seq(S), s # <<>>
  PROVE  s \o t # <<>> /\ Head(s \o t) = Head(s) /\ Tail(s) \o t = Tail(s \o t)
  <1>1. /\ s \o t \in Seq(S) /\ Len(s \o t) = Len(s) + Len(t)
        /\ \A i \in 1..(Len(s) + Len(t)) :
             (s \o t)[i] = IF i <= Len(s) THEN s[i] ELSE t[i - Len(s)]
    BY ConcatProperties
  <1>2. Len(s) \in Nat \ {0} /\ Len(t) \in Nat
    OBVIOUS
  <1>3. s \o t # <<>> /\ Head(s \o t) = Head(s)
    BY <1>1, <1>2
  <1>4. /\ Tail(s) \in Seq(S) /\ Len(Tail(s)) = Len(s) - 1
        /\ \A i \in 1..(Len(s) - 1) : Tail(s)[i] = s[i + 1]
    OBVIOUS
  <1>5. /\ Tail(s \o t) \in Seq(S) /\ Len(Tail(s \o t)) = Len(s) + Len(t) - 1
        /\ \A i \in 1..(Len(s) + Len(t) - 1) : Tail(s \o t)[i] = (s \o t)[i + 1]
    BY <1>1, <1>2, <1>3, HeadTailProperties
  <1>6. PICK r \in Seq(S) : r = Tail(s)
    BY <1>4
  <1>7. /\ r \o t \in Seq(S) /\ Len(r \o t) = Len(r) + Len(t)
        /\ \A i \in 1..(Len(r) + Len(t)) :
             (r \o t)[i] = IF i <= Len(r) THEN r[i] ELSE t[i - Len(r)]
    BY ConcatProperties
  <1>8. ASSUME NEW i \in 1..(Len(s) + Len(t) - 1) PROVE (r \o t)[i] = Tail(s \o t)[i]
    BY <1>1, <1>2, <1>4, <1>5, <1>6, <1>7, <1>8
  <1>9. r \o t = Tail(s \o t)
    BY <1>2, <1>4, <1>5, <1>6, <1>7, <1>8, SeqEqual
  <1> QED
    BY <1>3, <1>6, <1>9

(* What waits are messages.                                                *)
LEMMA WaitingMail ==
  ASSUME TypeOK, NEW c \in Client
  PROVE  Waiting(c) \in Seq(Message)
  BY ConcatProperties DEF TypeOK, Waiting

(* A client knows another under one name only.                             *)
LEMMA OneFriend ==
  ASSUME KInv, NEW c \in Client, NEW n \in known(c), Keyed(c, friends[c][n].uuid)
  PROVE  HasSym(friends[c][n])
  BY DEF KInv, FriendInv, Keyed, NamesFor

(* In the first run of everybody every key is still kept by its maker.     *)
LEMMA KeptFirst ==
  ASSUME KInv, Undisturbed, NEW k, NEW c \in Client, NEW d \in Client, Shared(k, c, d)
  PROVE  Keyed(c, d) \/ Keyed(d, c)
  <1>1. /\ k \in SymKey /\ Kept(k)
        /\ (k.maker = c /\ k.peer = d) \/ (k.maker = d /\ k.peer = c)
    BY DEF Shared, Between
  <1>2. k # NoKey /\ k.run \in Nat \ {0}
    BY <1>1, KeyAssumption DEF SymKey
  <1>3. HoldsFor(k.maker, k.peer, k)
    BY <1>1, <1>2 DEF Undisturbed, Kept
  <1> QED
    BY <1>1, <1>2, <1>3 DEF HoldsFor, Keyed, HasSym
-----------------------------------------------------------------------------
(* What a step is to what waits for v, and to the keys that v has.         *)

Arrives(v, m) == Waiting(v)' = Append(Waiting(v), m)

IsRead(v, m) ==
  /\ Waiting(v) # <<>> /\ Waiting(v)' = Tail(Waiting(v))
  /\ m = Head(Waiting(v))
  /\ m.type = SendSK => Keyed(v, m.sender)'

WaitingAfter(v) ==
  \/ Waiting(v)' = Waiting(v)
  \/ \E m \in Message : IsRead(v, m)
  \/ \E m \in Message : Arrives(v, m) /\ (m.type = Text => Keyed(m.sender, v))

(* A key of v for u was there, answers one of u, or is on its way to u.    *)
KeyAfter(v, u, n) ==
  friends'[v][n].uuid = u /\ HasSym(friends'[v][n]) =>
    \/ n \in known(v) /\ friends[v][n].uuid = u /\ HasSym(friends[v][n])
    \/ Keyed(u, v)'
    \/ \E m \in Message : Arrives(u, m) /\ Offers(m, v)

Progress ==
  \A v \in Client :
    WaitingAfter(v) /\ \A n \in known(v)', u \in Client : KeyAfter(v, u, n)

(* A step that loses nothing is none of the faults.                        *)
LEMMA QuietStep ==
  ASSUME KInv, Undisturbed, [Next]_vars, ~lost'
  PROVE  \/ UNCHANGED vars
         \/ \E c \in Client :
              \/ HandleRegister(c) \/ HandleList(c) \/ Fetch(c)
              \/ EndReading(c) \/ ReadGetSymKey(c) \/ ReadSendSymKey(c) \/ ReadText(c)
              \/ \E n \in Name :
                   \/ HandlePublicKey(c, n) \/ HandleRequestSymKey(c, n)
                   \/ HandleSendSymKey(c, n) \/ HandleSendMessage(c, n)
  BY DEF Next, Undisturbed, FetchFails, Fails, ReadUnknown, Restart, ServerRestart

(* A registration adds one user.                                           *)
LEMMA NewUser ==
  ASSUME TypeOK, NEW c \in Client, users' = Append(users, c)
  PROVE  Registered' = Registered \cup {c}
  <1>1. users \in Seq(Client)
    BY DEF TypeOK
  <1>2. /\ DOMAIN users' = DOMAIN users \cup {Len(users) + 1}
        /\ Len(users) + 1 \notin DOMAIN users
        /\ users'[Len(users) + 1] = c
        /\ \A i \in DOMAIN users : users'[i] = users[i]
    BY <1>1
  <1> QED
    BY <1>2 DEF Registered

(* Nothing waits that did not.                                             *)
LEMMA SameWaiting ==
  ASSUME NEW v \in Client, inbox'[v] = inbox[v], batch'[v] = batch[v]
  PROVE  Waiting(v)' = Waiting(v)
  BY DEF Waiting

(* An exchange that loses nothing appends its message to what waits.       *)
LEMMA QuietExchange ==
  ASSUME TypeOK, ~lost', NEW c \in Client, NEW u \in Client, NEW m \in Message,
         {c, u} \subseteq Registered, Exchange(c, u, m), UNCHANGED batch
  PROVE  Arrives(u, m) /\ \A v \in Client : v # u => Waiting(v)' = Waiting(v)
  <1>1. inbox' = [inbox EXCEPT ![u] = Append(@, m)]
    BY DEF Exchange, Fails
  <1>2. /\ inbox'[u] = Append(inbox[u], m) /\ inbox[u] \in Seq(Message)
        /\ batch[u] \in Seq(Message) /\ \A v \in Client : v # u => inbox'[v] = inbox[v]
    BY <1>1 DEF TypeOK
  <1>3. Arrives(u, m)
    <2>1. Waiting(u)' = batch[u] \o Append(inbox[u], m)
      BY <1>2 DEF Waiting
    <2>2. batch[u] \o Append(inbox[u], m) = Append(batch[u] \o inbox[u], m)
      <3>1. PICK s \in Seq(Message), t \in Seq(Message) : s = batch[u] /\ t = inbox[u]
        BY <1>2
      <3>2. s \o Append(t, m) = Append(s \o t, m)
        BY AppendBehind
      <3> QED
        BY ONLY <3>1, <3>2
    <2> QED
      BY <2>1, <2>2 DEF Arrives, Waiting
  <1> QED
    BY <1>2, <1>3, SameWaiting

Calm(c) ==
  /\ run[c] = 1 /\ status[c] # "crashed"
  /\ status[c] # "unregistered" <=> c \in Registered
  /\ status[c] # "reading" => batch[c] = <<>>

(* A step that loses nothing keeps programs and users as they are.         *)
LEMMA CalmStep ==
  ASSUME KInv, Undisturbed, [Next]_vars, ~lost'
  PROVE  late' = {} /\ Registered \subseteq Registered' /\ \A v \in Client : Calm(v)'
  <1> DEFINE Goal == /\ late' = {} /\ Registered \subseteq Registered'
                     /\ \A v \in Client : Calm(v)'
  <1>a. /\ TypeOK /\ late = {} /\ \A v \in Client : Calm(v)
        /\ status \in [Client -> {"unregistered", "menu", "reading", "crashed"}]
        /\ batch \in [Client -> Seq(Message)]
    BY DEF KInv, TypeOK, Undisturbed, Calm
  <1>s. ASSUME UNCHANGED <<users, late, status, run, batch>> PROVE Goal
    BY <1>a, <1>s DEF Registered, Calm
  <1>r. UNCHANGED users => Registered' = Registered
    BY DEF Registered
  <1>1. ASSUME NEW c \in Client, HandleRegister(c) PROVE Goal
    <2>1. /\ status[c] = "unregistered" /\ status' = [status EXCEPT ![c] = "menu"]
          /\ UNCHANGED <<late, run, batch>> /\ Registered' = Registered \cup {c}
      BY <1>a, <1>1, NewUser DEF HandleRegister
    <2> QED
      BY <1>a, <2>1 DEF Calm
  <1>2. ASSUME NEW c \in Client, HandleList(c) PROVE Goal
    BY <1>s, <1>2 DEF HandleList, server
  <1>3. ASSUME NEW c \in Client, Fetch(c) PROVE Goal
    BY <1>a, <1>r, <1>3 DEF Fetch, Calm
  <1>4. ASSUME NEW c \in Client, EndReading(c) PROVE Goal
    BY <1>a, <1>r, <1>4 DEF EndReading, Return, server, Calm
  <1>5. ASSUME NEW c \in Client, ReadGetSymKey(c) \/ ReadSendSymKey(c) \/ ReadText(c)
        PROVE  Goal
    <2>1. /\ UNCHANGED <<users, late, status, run>> /\ status[c] = "reading"
          /\ batch' = [batch EXCEPT ![c] = Tail(@)]
      BY <1>5 DEF ReadGetSymKey, ReadSendSymKey, ReadText, Reads, Continue, server
    <2> QED
      BY <1>a, <1>r, <2>1 DEF Calm
  <1>6. ASSUME NEW c \in Client, NEW n \in Name, HandlePublicKey(c, n) PROVE Goal
    BY <1>s, <1>6 DEF HandlePublicKey, server
  <1>7. ASSUME NEW c \in Client, NEW n \in Name,
               \/ HandleRequestSymKey(c, n) \/ HandleSendSymKey(c, n)
               \/ HandleSendMessage(c, n)
        PROVE  Goal
    <2>1. UNCHANGED <<status, run, batch>> /\ \E u, m : Exchange(c, u, m)
      BY <1>7 DEF HandleRequestSymKey, HandleSendSymKey, HandleSendMessage, program
    <2>2. UNCHANGED <<users, late>>
      BY <2>1 DEF Exchange, Fails
    <2> QED
      BY <1>s, <2>1, <2>2
  <1>8. ASSUME UNCHANGED vars PROVE Goal
    BY <1>s, <1>8 DEF vars, server, program
  <1> HIDE DEF Goal
  <1>9. Goal
    BY <1>1, <1>2, <1>3, <1>4, <1>5, <1>6, <1>7, <1>8, QuietStep
  <1> QED
    BY <1>9 DEF Goal

(* Nobody is disturbed or forgets by a step that loses nothing.            *)
LEMMA QuietStays ==
  ASSUME KInv, Undisturbed, [Next]_vars, ~lost'
  PROVE  Undisturbed' /\ \A v \in Client : Remembers(v)
  <1>a. \A v \in Client : MemoryAfter(v)
    BY MemoryStep
  <1>b. late' = {} /\ Registered \subseteq Registered' /\ \A v \in Client : Calm(v)'
    BY CalmStep
  <1>c. ASSUME NEW v \in Client PROVE Remembers(v)
    <2>1. run[v] = 1 /\ run'[v] = 1 /\ status'[v] # "crashed"
      BY <1>b DEF Calm, Undisturbed
    <2> QED
      BY <1>a, <2>1 DEF MemoryAfter, Forgets
  <1>d. ASSUME NEW v \in Client, NEW n \in known(v)' PROVE friends'[v][n].uuid \in Registered'
    <2>1. CASE n \in known(v)
      BY <1>b, <1>c, <2>1 DEF Remembers, Undisturbed
    <2>2. CASE n \notin known(v)
      <3>1. PICK u \in Registered : friends'[v][n] = NewFriend(u)
        BY <1>a, <1>d, <2>2 DEF MemoryAfter, Learned
      <3> QED
        BY <1>b, <3>1 DEF NewFriend
    <2> QED
      BY <2>1, <2>2
  <1> QED
    BY <1>b, <1>c, <1>d DEF Undisturbed, Calm

(* A client that had a key keeps it.                                       *)
LEMMA KeyedStays ==
  ASSUME NEW v \in Client, NEW d, Remembers(v), Keyed(v, d)
  PROVE  Keyed(v, d)'
  BY DEF Remembers, Keyed, NamesFor, HasSym

(* A step that reads the first message of a batch.                         *)
LEMMA BatchRead ==
  ASSUME TypeOK, NEW c \in Client, batch[c] # <<>>, Continue(c), UNCHANGED inbox
  PROVE  /\ Waiting(c) # <<>> /\ Waiting(c)' = Tail(Waiting(c))
         /\ Head(Waiting(c)) = Head(batch[c]) /\ Head(batch[c]) \in Message
         /\ \A v \in Client : v # c => Waiting(v)' = Waiting(v)
  <1>1. /\ batch[c] \in Seq(Message) /\ inbox[c] \in Seq(Message)
        /\ batch'[c] = Tail(batch[c]) /\ \A v \in Client : v # c => batch'[v] = batch[v]
    BY DEF TypeOK, Continue
  <1>2. Head(batch[c]) \in Message
    BY <1>1
  <1>3. /\ batch[c] \o inbox[c] # <<>> /\ Head(batch[c] \o inbox[c]) = Head(batch[c])
        /\ Tail(batch[c]) \o inbox[c] = Tail(batch[c] \o inbox[c])
    BY <1>1, TailBefore
  <1>4. Waiting(c)' = Tail(batch[c]) \o inbox[c]
    BY <1>1 DEF Waiting
  <1> QED
    BY <1>1, <1>2, <1>3, <1>4, SameWaiting DEF Waiting

(* What each step that loses nothing is to the mail and the keys.          *)
LEMMA ProgressStep ==
  ASSUME KInv, QuietInv, [Next]_vars, ~lost'
  PROVE  Progress
  <1> DEFINE Goal == Progress
  <1>a. /\ TypeOK /\ TypeOK' /\ Undisturbed /\ \A v \in Client : Remembers(v)
        /\ MemoryOK
    BY QuietStays, ClientTypeStep DEF KInv, QuietInv
  <1>b. ASSUME NEW v \in Client, Waiting(v)' = Waiting(v) PROVE WaitingAfter(v)
    BY <1>b DEF WaitingAfter
  <1>c. ASSUME NEW v \in Client, NEW n \in known(v)', n \in known(v),
               HasSym(friends'[v][n]) => HasSym(friends[v][n]), NEW u \in Client
        PROVE  KeyAfter(v, u, n)
    BY <1>a, <1>c DEF KeyAfter, Remembers
  <1>k. ASSUME NEW v \in Client, friends'[v] = friends[v], NEW n \in known(v)', NEW u \in Client
        PROVE  KeyAfter(v, u, n)
    BY <1>k DEF KeyAfter, known
  <1>s. ASSUME UNCHANGED <<inbox, batch, friends>> PROVE Goal
    BY <1>b, <1>k, <1>s DEF Waiting, Progress
  <1>1. ASSUME NEW c \in Client, HandleRegister(c) PROVE Goal
    BY <1>s, <1>1 DEF HandleRegister
  <1>2. ASSUME NEW c \in Client, HandleList(c) PROVE Goal
    <2>1. \A v \in Client : Waiting(v)' = Waiting(v)
      BY <1>2 DEF HandleList, server, Waiting
    <2>2. /\ friends' = [d \in Client |-> IF d = c THEN Listed(c) ELSE friends[d]]
      BY <1>a, <1>2 DEF HandleList, MemoryOK
    <2>3. ASSUME NEW n \in known(c)', NEW u \in Client PROVE KeyAfter(c, u, n)
      <3>1. n \in known(c) => friends'[c][n] = friends[c][n]
        BY <2>2 DEF Listed
      <3>2. n \notin known(c) => ~HasSym(friends'[c][n])
        <4>1. friends'[c] = Listed(c)
          BY <2>2
        <4>2. n \in known(c) \cup NamesListed(c)
          BY <2>3, <4>1 DEF known, Listed
        <4> QED
          BY <4>1, <4>2 DEF Listed, NewFriend, HasSym
      <3> QED
        BY <3>1, <3>2 DEF KeyAfter
    <2>4. ASSUME NEW v \in Client, v # c, NEW n \in known(v)', NEW u \in Client
          PROVE  KeyAfter(v, u, n)
      BY <1>k, <2>2, <2>4
    <2> QED
      BY <1>b, <2>1, <2>3, <2>4 DEF Progress
  <1>3. ASSUME NEW c \in Client, Fetch(c) PROVE Goal
    <2>1. /\ batch[c] = <<>> /\ inbox[c] \in Seq(Message) /\ friends' = friends
          /\ inbox' = [inbox EXCEPT ![c] = <<>>] /\ batch' = [batch EXCEPT ![c] = inbox[c]]
          /\ inbox \in [Client -> Seq(Message)] /\ batch \in [Client -> Seq(Message)]
      BY <1>a, <1>3 DEF Fetch, Undisturbed, TypeOK
    <2>2. Waiting(c)' = inbox[c] \o <<>> /\ Waiting(c) = <<>> \o inbox[c]
      BY <2>1 DEF Waiting
    <2>3. Waiting(c)' = Waiting(c)
      BY <2>1, <2>2, ConcatEmptySeq
    <2>4. \A v \in Client : Waiting(v)' = Waiting(v)
      BY <2>1, <2>3, SameWaiting
    <2> QED
      BY <1>b, <1>k, <2>1, <2>4 DEF Progress
  <1>4. ASSUME NEW c \in Client, EndReading(c) PROVE Goal
    <2>1. /\ batch \in [Client -> Seq(Message)] /\ batch[c] = <<>>
          /\ batch' = [batch EXCEPT ![c] = <<>>] /\ UNCHANGED <<inbox, friends>>
      BY <1>a, <1>4 DEF EndReading, Return, TypeOK, server
    <2>2. batch' = batch
      BY <2>1
    <2> QED
      BY <1>s, <2>1, <2>2
  <1>5. ASSUME NEW c \in Client, ReadGetSymKey(c) PROVE Goal
    <2>1. /\ batch[c] # <<>> /\ Head(batch[c]).type = GetSK /\ Continue(c)
          /\ UNCHANGED <<inbox, friends>>
      BY <1>5 DEF ReadGetSymKey, Reads, server
    <2>2. IsRead(c, Head(batch[c])) /\ Head(batch[c]) \in Message
      BY <1>a, <2>1, BatchRead DEF IsRead, GetSK, SendSK
    <2>3. \A v \in Client : v # c => Waiting(v)' = Waiting(v)
      BY <1>a, <2>1, BatchRead
    <2> QED
      BY <1>b, <1>k, <2>1, <2>2, <2>3 DEF Progress, WaitingAfter
  <1>u. ASSUME NEW c \in Client, NEW n \in known(c), NEW f \in Friend, Update(c, n, f),
               \A u \in Client : KeyAfter(c, u, n)
        PROVE  \A v \in Client : \A l \in known(v)', u \in Client : KeyAfter(v, u, l)
    <2>1. /\ \A v \in Client : v # c => friends'[v] = friends[v]
          /\ \A l \in known(c) : l # n => friends'[c][l] = friends[c][l]
          /\ known(c)' = known(c)
      BY <1>a, <1>u, UpdateAt
    <2>2. ASSUME NEW l \in known(c)', l # n, NEW u \in Client PROVE KeyAfter(c, u, l)
      BY <1>c, <2>1, <2>2
    <2>3. ASSUME NEW v \in Client, v # c, NEW l \in known(v)', NEW u \in Client
          PROVE  KeyAfter(v, u, l)
      BY <1>k, <2>1, <2>3
    <2> QED
      BY <1>u, <2>2, <2>3
  <1>v. ASSUME NEW c \in Client, NEW n \in known(c), NEW f \in Friend, Update(c, n, f)
        PROVE  friends'[c][n] = f /\ n \in known(c)'
    BY <1>a, <1>v, UpdateAt
  <1>6. ASSUME NEW c \in Client, ReadSendSymKey(c) PROVE Goal
    <2>1. /\ batch[c] # <<>> /\ Head(batch[c]).type = SendSK /\ inbox' = inbox
          /\ Continue(c)
          /\ \E n \in NamesFor(c, Head(batch[c]).sender) :
                Update(c, n, SetSymKey(friends[c][n], Head(batch[c]).key))
      BY <1>6 DEF ReadSendSymKey, Reads, server
    <2>2. PICK m \in Message : m = Head(batch[c]) /\ m.type = SendSK
      BY <1>a, <2>1, BatchRead
    <2>3. PICK n \in known(c) : /\ friends[c][n].uuid = m.sender
                               /\ Update(c, n, SetSymKey(friends[c][n], m.key))
      BY <2>1, <2>2 DEF NamesFor
    <2>4. PICK f \in Friend : f = friends[c][n] /\ f.uuid \in Client
      BY <1>a, FriendsTyped
    <2>5. Mailed(c, m)
      <3>1. batch[c] \in Seq(Message)
        BY <1>a DEF TypeOK
      <3> QED
        BY <2>1, <2>2, <3>1 DEF Mailed
    <2>6. Shared(m.key, c, f.uuid)
      BY <2>2, <2>3, <2>4, <2>5 DEF KInv, MailInv, SendSK, GetSK
    <2>7. m.key \in SymKey /\ m.key # NoKey
      BY <2>6, KeyAssumption DEF Shared
    <2>8. PICK g \in Friend : /\ g = SetSymKey(f, m.key) /\ g.uuid = f.uuid
                             /\ g.symkey = IF HasSym(f) THEN f.symkey ELSE m.key
      BY <2>7, SetSymKeyKeeps
    <2>9. friends'[c][n] = g /\ n \in known(c)' /\ HasSym(g)
      BY <1>v, <2>3, <2>4, <2>7, <2>8 DEF HasSym
    <2>10. Keyed(c, m.sender)'
      BY <2>3, <2>4, <2>8, <2>9 DEF Keyed, NamesFor, HasSym
    <2>11. IsRead(c, m)
      BY <1>a, <2>1, <2>2, <2>10, BatchRead DEF IsRead
    <2>12. \A v \in Client : v # c => Waiting(v)' = Waiting(v)
      BY <1>a, <2>1, BatchRead
    <2>13. ASSUME NEW u \in Client PROVE KeyAfter(c, u, n)
      <3>1. HasSym(f) \/ Keyed(f.uuid, c)
        BY <1>a, <2>4, <2>6, KeptFirst, OneFriend
      <3>2. Keyed(f.uuid, c) => Keyed(f.uuid, c)'
        BY <1>a, <2>4, KeyedStays
      <3> QED
        BY <2>4, <2>8, <2>9, <3>1, <3>2 DEF KeyAfter
    <2>14. \A v \in Client : \A l \in known(v)', u \in Client : KeyAfter(v, u, l)
      BY <1>u, <2>3, <2>4, <2>8, <2>13
    <2> QED
      BY <1>b, <2>11, <2>12, <2>14 DEF Progress, WaitingAfter
  <1>7. ASSUME NEW c \in Client, ReadText(c) PROVE Goal
    <2>1. /\ batch[c] # <<>> /\ Head(batch[c]).type = Text /\ inbox' = inbox
          /\ Continue(c)
          /\ \E n \in NamesFor(c, Head(batch[c]).sender) :
                Update(c, n, WithSymKey(c, friends[c][n]))
      BY <1>7 DEF ReadText, Reads, server
    <2>2. PICK m \in Message : m = Head(batch[c]) /\ m.type = Text
      BY <1>a, <2>1, BatchRead
    <2>3. PICK n \in known(c) : /\ friends[c][n].uuid = m.sender
                               /\ Update(c, n, WithSymKey(c, friends[c][n]))
      BY <2>1, <2>2 DEF NamesFor
    <2>4. PICK f \in Friend : f = friends[c][n]
      BY <1>a, FriendsTyped
    <2>5. Keyed(c, m.sender)
      <3>1. /\ Waiting(c) \in Seq(Message) /\ Waiting(c) # <<>> /\ m = Head(Waiting(c))
        BY <1>a, <2>1, <2>2, WaitingMail, BatchRead
      <3>2. 1 \in DOMAIN Waiting(c) /\ Waiting(c)[1] = m
        BY <3>1
      <3> QED
        BY <2>2, <3>2 DEF QuietInv, PrecededInv
    <2>6. HasSym(f)
      BY <2>3, <2>4, <2>5, OneFriend
    <2>7. WithSymKey(c, f) = f
      BY <2>6 DEF WithSymKey
    <2>8. friends'[c][n] = f /\ n \in known(c)'
      BY <1>v, <2>3, <2>4, <2>7
    <2>9. IsRead(c, m)
      BY <1>a, <2>1, <2>2, BatchRead DEF IsRead, Text, SendSK
    <2>10. \A v \in Client : v # c => Waiting(v)' = Waiting(v)
      BY <1>a, <2>1, BatchRead
    <2>11. \A u \in Client : KeyAfter(c, u, n)
      BY <1>c, <2>4, <2>6, <2>8
    <2>12. \A v \in Client : \A l \in known(v)', u \in Client : KeyAfter(v, u, l)
      BY <1>u, <2>3, <2>4, <2>7, <2>11
    <2> QED
      BY <1>b, <2>9, <2>10, <2>12 DEF Progress, WaitingAfter
  <1>8. ASSUME NEW c \in Client, NEW n \in Name, HandlePublicKey(c, n) PROVE Goal
    <2>1. /\ n \in known(c) /\ Update(c, n, SetPublicKey(friends[c][n], friends[c][n].uuid))
          /\ UNCHANGED <<inbox, batch>>
      BY <1>8 DEF HandlePublicKey, server
    <2>2. friends[c][n] \in Friend
      BY <1>a, <2>1, FriendsTyped
    <2>3. PICK f \in Friend : /\ f = SetPublicKey(friends[c][n], friends[c][n].uuid)
                              /\ f.symkey = friends[c][n].symkey
      BY <2>2, SetPublicKeyKeeps
    <2>4. friends'[c][n] = f /\ n \in known(c)'
      BY <1>v, <2>1, <2>3
    <2>5. \A u \in Client : KeyAfter(c, u, n)
      BY <1>c, <2>1, <2>3, <2>4 DEF HasSym
    <2>6. \A v \in Client : \A l \in known(v)', u \in Client : KeyAfter(v, u, l)
      BY <1>u, <2>1, <2>3, <2>5
    <2> QED
      BY <1>b, <2>1, <2>6, SameWaiting DEF Progress
  <1>e. ASSUME NEW c \in Client, NEW u \in Client, NEW m \in Message,
               {c, u} \subseteq Registered, Exchange(c, u, m), UNCHANGED batch,
               m.type = Text => Keyed(m.sender, u)
        PROVE  \A v \in Client : WaitingAfter(v)
    <2>1. Arrives(u, m) /\ \A v \in Client : v # u => Waiting(v)' = Waiting(v)
      BY <1>a, <1>e, QuietExchange
    <2> QED
      BY <1>b, <1>e, <2>1 DEF WaitingAfter
  <1>f. ASSUME NEW c \in Client, status[c] = "menu", NEW n \in known(c)
        PROVE  /\ friends[c][n] \in Friend /\ friends[c][n].uuid \in Client
               /\ {c, friends[c][n].uuid} \subseteq Registered
    BY <1>a, <1>f, FriendsTyped DEF Undisturbed
  <1>9. ASSUME NEW c \in Client, NEW n \in Name, HandleRequestSymKey(c, n) PROVE Goal
    <2>1. /\ n \in known(c) /\ status[c] = "menu" /\ UNCHANGED <<friends, batch>>
      BY <1>9 DEF HandleRequestSymKey, program
    <2>2. PICK u \in Client : u = friends[c][n].uuid /\ {c, u} \subseteq Registered
      BY <1>f, <2>1
    <2>3. PICK m \in Message :
            m = [sender |-> c, type |-> GetSK, cipher_for |-> NoKey, key |-> NoKey]
      BY DEF Message, MessageTypes
    <2>4. Exchange(c, u, m) /\ m.type # Text
      BY <1>9, <2>2, <2>3 DEF HandleRequestSymKey, GetSK, Text
    <2>5. \A v \in Client : WaitingAfter(v)
      BY <1>e, <2>1, <2>2, <2>4
    <2> QED
      BY <1>k, <2>1, <2>5 DEF Progress
  <1>10. ASSUME NEW c \in Client, NEW n \in Name, HandleSendSymKey(c, n) PROVE Goal
    <2>1. /\ n \in known(c) /\ Update(c, n, WithSymKey(c, friends[c][n])) /\ batch' = batch
          /\ status[c] = "menu"
      BY <1>10 DEF HandleSendSymKey
    <2>2. PICK f \in Friend : /\ f = WithSymKey(c, friends[c][n]) /\ f.symkey \in SymKey
                             /\ f.uuid = friends[c][n].uuid
      BY <1>a, <2>1, FriendsTyped, WithSymKeyKeeps
    <2>3. PICK u \in Client : u = f.uuid /\ {c, u} \subseteq Registered
      BY <1>f, <2>1, <2>2
    <2>4. PICK m : m = [sender |-> c, type |-> SendSK, cipher_for |-> f.public, key |-> f.symkey]
      OBVIOUS
    <2>5. m \in Message /\ Offers(m, c) /\ m.type # Text
      BY <2>2, <2>4 DEF Message, MessageTypes, Friend, Offers, SendSK, Text
    <2>6. Exchange(c, u, m)
      BY <1>10, <2>2, <2>3, <2>4 DEF HandleSendSymKey
    <2>7. \A v \in Client : WaitingAfter(v)
      BY <1>e, <2>1, <2>3, <2>5, <2>6
    <2>8. Arrives(u, m)
      BY <1>a, <2>1, <2>3, <2>5, <2>6, QuietExchange
    <2>9. friends'[c][n] = f /\ n \in known(c)'
      BY <1>v, <2>1, <2>2
    <2>10. \A w \in Client : KeyAfter(c, w, n)
      BY <2>3, <2>5, <2>8, <2>9 DEF KeyAfter
    <2>11. \A v \in Client : \A l \in known(v)', w \in Client : KeyAfter(v, w, l)
      BY <1>u, <2>1, <2>2, <2>10
    <2> QED
      BY <2>7, <2>11 DEF Progress
  <1>11. ASSUME NEW c \in Client, NEW n \in Name, HandleSendMessage(c, n) PROVE Goal
    <2>1. /\ n \in known(c) /\ Update(c, n, WithSymKey(c, friends[c][n])) /\ batch' = batch
          /\ status[c] = "menu" /\ HasSym(friends[c][n])
      BY <1>11 DEF HandleSendMessage, MaySendText
    <2>2. PICK f \in Friend : /\ f = WithSymKey(c, friends[c][n]) /\ f.symkey \in SymKey
                             /\ f = friends[c][n]
      BY <1>a, <2>1, FriendsTyped, WithSymKeyKeeps DEF WithSymKey
    <2>3. PICK u \in Client : u = f.uuid /\ {c, u} \subseteq Registered
      BY <1>f, <2>1, <2>2
    <2>4. PICK m : m = [sender |-> c, type |-> Text, cipher_for |-> NoKey, key |-> f.symkey]
      OBVIOUS
    <2>5. m \in Message
      BY <2>2, <2>4 DEF Message, MessageTypes
    <2>6. Exchange(c, u, m)
      BY <1>11, <2>2, <2>3, <2>4 DEF HandleSendMessage
    <2>7. Keyed(m.sender, u)
      BY <2>1, <2>2, <2>3, <2>4 DEF Keyed, NamesFor
    <2>8. \A v \in Client : WaitingAfter(v)
      BY <1>e, <2>1, <2>3, <2>5, <2>6, <2>7
    <2>9. friends'[c][n] = f /\ n \in known(c)'
      BY <1>v, <2>1, <2>2
    <2>10. \A w \in Client : KeyAfter(c, w, n)
      BY <1>c, <2>1, <2>2, <2>9
    <2>11. \A v \in Client : \A l \in known(v)', w \in Client : KeyAfter(v, w, l)
      BY <1>u, <2>1, <2>2, <2>10
    <2> QED
      BY <2>8, <2>11 DEF Progress
  <1>12. ASSUME UNCHANGED vars PROVE Goal
    BY <1>s, <1>12 DEF vars, server, program
  <1> HIDE DEF Goal
  <1>13. Goal
    BY <1>a, <1>1, <1>2, <1>3, <1>4, <1>5, <1>6, <1>7, <1>8, <1>9, <1>10, <1>11, <1>12,
       QuietStep
  <1> QED
    BY <1>13 DEF Goal
-----------------------------------------------------------------------------
(* What waits stays in order.                                              *)

(* A key that is on its way still is, or has been read.                    *)
LEMMA OfferStays ==
  ASSUME KInv, [Next]_vars, NEW v \in Client, NEW d, WaitingAfter(v),
         NEW i \in DOMAIN Waiting(v), Offers(Waiting(v)[i], d)
  PROVE  \/ Keyed(v, d)'
         \/ \E j \in DOMAIN Waiting(v)' : j <= i /\ Offers(Waiting(v)'[j], d)
  <1>1. PICK s \in Seq(Message) : s = Waiting(v)
    BY WaitingMail DEF KInv
  <1>2. PICK t : t = Waiting(v)'
    OBVIOUS
  <1>3. i \in 1..Len(s) /\ Offers(s[i], d)
    BY <1>1
  <1>4. SUFFICES Keyed(v, d)' \/ \E j \in DOMAIN t : j <= i /\ Offers(t[j], d)
    BY <1>2
  <1>5. CASE t = s
    BY <1>3, <1>5
  <1>6. CASE \E m \in Message : t = Append(s, m)
    <2>1. i \in DOMAIN t /\ t[i] = s[i]
      BY <1>3, <1>6
    <2> QED
      BY <1>3, <2>1
  <1>7. CASE \E m \in Message : IsRead(v, m)
    <2>0. PICK m \in Message : IsRead(v, m)
      BY <1>7
    <2>1. s # <<>> /\ t = Tail(s) /\ m = Head(s)
      BY <1>1, <1>2, <2>0 DEF IsRead
    <2>t. /\ Len(s) \in Nat \ {0} /\ m = s[1] /\ DOMAIN t = 1..(Len(s) - 1)
          /\ \A j \in 1..(Len(s) - 1) : t[j] = s[j + 1]
      BY <2>1, HeadAndTail
    <2>2. CASE i = 1
      BY <1>3, <2>0, <2>t, <2>2 DEF Offers, IsRead, Keyed, NamesFor
    <2>3. CASE i > 1
      <3>1. i - 1 \in DOMAIN t /\ t[i - 1] = s[i] /\ i - 1 <= i
        BY <1>3, <2>t, <2>3
      <3> QED
        BY <1>3, <3>1
    <2> QED
      BY <1>3, <2>2, <2>3
  <1> QED
    BY <1>1, <1>2, <1>5, <1>6, <1>7 DEF WaitingAfter, Arrives

(* A step that loses nothing keeps keys and offers together.               *)
LEMMA OfferedStep ==
  ASSUME KInv, QuietInv, [Next]_vars, ~lost'
  PROVE  OfferedInv'
  <1>a. /\ TypeOK /\ TypeOK' /\ Progress /\ \A v \in Client : Remembers(v)
    BY ProgressStep, QuietStays, ClientTypeStep DEF KInv, QuietInv
  <1> SUFFICES ASSUME NEW c \in Client, NEW n \in known(c)', NEW u \in Client,
                      u = friends'[c][n].uuid, HasSym(friends'[c][n])
               PROVE  \/ Keyed(u, c)'
                      \/ \E i \in DOMAIN Waiting(u)' : Offers(Waiting(u)'[i], c)
    <2>1. \A c \in Client : \A n \in known(c)' : friends'[c][n].uuid \in Client
      BY <1>a DEF TypeOK, Friend
    <2> QED
      BY <2>1 DEF OfferedInv, HasSym
  <1>1. KeyAfter(c, u, n) /\ WaitingAfter(u)
    BY <1>a DEF Progress
  <1>2. CASE n \in known(c) /\ friends[c][n].uuid = u /\ HasSym(friends[c][n])
    <2>1. CASE Keyed(u, c)
      BY <1>a, <2>1, KeyedStays
    <2>2. CASE \E i \in DOMAIN Waiting(u) : Offers(Waiting(u)[i], c)
      BY <1>1, <2>2, OfferStays
    <2> QED
      BY <1>2, <2>1, <2>2 DEF QuietInv, OfferedInv
  <1>3. CASE \E m \in Message : Arrives(u, m) /\ Offers(m, c)
    <2>1. PICK m \in Message : Waiting(u)' = Append(Waiting(u), m) /\ Offers(m, c)
      BY <1>3 DEF Arrives
    <2>2. PICK s \in Seq(Message) : s = Waiting(u)
      BY <1>a, WaitingMail
    <2>3. PICK t : t = Waiting(u)' /\ t = Append(s, m)
      BY <2>1, <2>2
    <2>4. Len(s) + 1 \in DOMAIN t /\ t[Len(s) + 1] = m
      BY <2>2, <2>3
    <2> QED
      BY <2>1, <2>3, <2>4
  <1> QED
    BY <1>1, <1>2, <1>3 DEF KeyAfter

(* A step that loses nothing keeps offers before texts.                    *)
LEMMA PrecededStep ==
  ASSUME KInv, QuietInv, [Next]_vars, ~lost'
  PROVE  PrecededInv'
  <1>a. /\ TypeOK /\ TypeOK' /\ Progress /\ \A v \in Client : Remembers(v)
    BY ProgressStep, QuietStays, ClientTypeStep DEF KInv, QuietInv
  <1> SUFFICES ASSUME NEW c \in Client, NEW i \in DOMAIN Waiting(c)', NEW m,
                      m = Waiting(c)'[i], m.type = Text
               PROVE  \/ Keyed(c, m.sender)'
                      \/ \E j \in 1..(i - 1) : Offers(Waiting(c)'[j], m.sender)
    BY DEF PrecededInv
  <1>1. PICK s \in Seq(Message), t \in Seq(Message) : s = Waiting(c) /\ t = Waiting(c)'
    <2>1. PICK s \in Seq(Message) : s = Waiting(c)
      BY <1>a, WaitingMail
    <2>2. \/ Waiting(c)' = s
          \/ \E l \in Message : Waiting(c)' = Append(s, l)
          \/ s # <<>> /\ Waiting(c)' = Tail(s)
      BY <1>a, <2>1 DEF Progress, WaitingAfter, Arrives, IsRead
    <2>3. Waiting(c)' \in Seq(Message)
      BY <2>2
    <2> QED
      BY <2>1, <2>3
  <1>2. i \in 1..Len(t) /\ m = t[i] /\ m \in Message /\ m.sender \in Client
    <2>1. i \in DOMAIN t /\ m = t[i]
      BY <1>1
    <2>2. i \in 1..Len(t) /\ m \in Message
      BY <2>1
    <2> QED
      BY <2>1, <2>2 DEF Message
  <1>3. SUFFICES Keyed(c, m.sender)' \/ \E j \in 1..(i - 1) : Offers(t[j], m.sender)
    BY <1>1
  <1>4. Keyed(c, m.sender) => Keyed(c, m.sender)'
    BY <1>a, KeyedStays
  <1>5. ASSUME NEW k \in 1..Len(s), s[k] = m
        PROVE  Keyed(c, m.sender) \/ \E j \in 1..(k - 1) : Offers(s[j], m.sender)
    BY <1>1, <1>5 DEF QuietInv, PrecededInv
  <1>6. CASE t = s
    BY <1>2, <1>4, <1>5, <1>6
  <1>7. CASE \E l \in Message : Arrives(c, l) /\ (l.type = Text => Keyed(l.sender, c))
    <2>1. PICK l \in Message : t = Append(s, l) /\ (l.type = Text => Keyed(l.sender, c))
      BY <1>1, <1>7 DEF Arrives
    <2>2. \A j \in 1..Len(s) : t[j] = s[j]
      BY <2>1
    <2>3. CASE i <= Len(s)
      <3>1. i \in 1..Len(s) /\ s[i] = m
        BY <1>2, <2>2, <2>3
      <3>2. \A j \in 1..(i - 1) : t[j] = s[j]
        BY <2>2, <3>1
      <3> QED
        BY <1>4, <1>5, <3>1, <3>2
    <2>4. CASE i > Len(s)
      <3>1. i = Len(s) + 1 /\ m = l
        BY <1>2, <2>1, <2>4
      <3>2. PICK n \in known(m.sender) : /\ friends[m.sender][n].uuid = c
                                        /\ HasSym(friends[m.sender][n])
        BY <2>1, <3>1 DEF Keyed, NamesFor
      <3>3. Keyed(c, m.sender) \/ \E j \in DOMAIN s : Offers(s[j], m.sender)
        BY <1>1, <1>2, <3>2 DEF QuietInv, OfferedInv
      <3>4. DOMAIN s = 1..(i - 1)
        BY <3>1
      <3> QED
        BY <1>4, <2>2, <3>1, <3>3, <3>4
    <2> QED
      BY <1>2, <2>3, <2>4
  <1>8. CASE \E l \in Message : IsRead(c, l)
    <2>0. PICK l \in Message : IsRead(c, l)
      BY <1>8
    <2>1. s # <<>> /\ t = Tail(s) /\ l = Head(s)
      BY <1>1, <2>0 DEF IsRead
    <2>t. /\ Len(s) \in Nat \ {0} /\ l = s[1] /\ Len(t) = Len(s) - 1
          /\ \A j \in 1..(Len(s) - 1) : t[j] = s[j + 1]
      BY <2>1, HeadAndTail
    <2>2. i + 1 \in 1..Len(s) /\ s[i + 1] = m /\ s[1] = l
      BY <1>2, <2>t
    <2>3. \A j \in 2..i : j - 1 \in 1..(i - 1) /\ t[j - 1] = s[j]
      BY <1>2, <2>t, <2>2
    <2>4. Keyed(c, m.sender) \/ \E j \in 1..i : Offers(s[j], m.sender)
      BY <1>2, <1>5, <2>2
    <2>5. Offers(s[1], m.sender) => Keyed(c, m.sender)'
      BY <2>0, <2>2 DEF Offers, IsRead, Keyed, NamesFor
    <2> QED
      BY <1>2, <1>4, <2>3, <2>4, <2>5
  <1> QED
    BY <1>a, <1>1, <1>6, <1>7, <1>8 DEF Progress, WaitingAfter

(* What is lost stays lost.                                                *)
LEMMA LostStays ==
  ASSUME TypeOK, [Next]_vars, lost
  PROVE  lost'
  <1>x. ASSUME NEW c, NEW u, NEW m, Exchange(c, u, m) PROVE lost'
    BY <1>x DEF Exchange, Fails
  <1>1. ASSUME NEW c \in Client,
               \/ HandleRegister(c) \/ HandleList(c) \/ Fetch(c) \/ FetchFails(c)
               \/ EndReading(c) \/ ReadUnknown(c) \/ ReadGetSymKey(c)
               \/ ReadSendSymKey(c) \/ ReadText(c) \/ Restart(c)
        PROVE  lost'
    BY <1>1 DEF HandleRegister, HandleList, Fetch, FetchFails, Fails, EndReading,
       ReadUnknown, ReadGetSymKey, ReadSendSymKey, ReadText, Restart
  <1>2. ASSUME NEW c \in Client, NEW n \in Name,
               \/ HandlePublicKey(c, n) \/ HandleRequestSymKey(c, n)
               \/ HandleSendSymKey(c, n) \/ HandleSendMessage(c, n)
        PROVE  lost'
    BY <1>x, <1>2 DEF HandlePublicKey, HandleRequestSymKey, HandleSendSymKey,
       HandleSendMessage
  <1>3. ASSUME (\E r \in late : LateRequest(r)) \/ ServerRestart \/ UNCHANGED vars
        PROVE  lost'
    BY <1>3 DEF LateRequest, ServerRestart, vars
  <1> QED
    BY <1>1, <1>2, <1>3 DEF Next

(* The invariant holds in every reachable state.                           *)
LEMMA TInvariance == Spec => []TInv
  <1>1. Init => TInv
    <2> SUFFICES ASSUME Init PROVE QuietInv
      BY DEF TInv
    <2>1. \A c \in Client : known(c) = {} /\ batch[c] = <<>> /\ inbox[c] = <<>>
      BY DEF Init, known
    <2>2. \A c \in Client : Waiting(c) = <<>>
      BY <2>1 DEF Waiting
    <2>3. Registered = {}
      BY DEF Init, Registered
    <2> QED
      BY <2>1, <2>2, <2>3 DEF Init, QuietInv, Undisturbed, OfferedInv, PrecededInv
  <1>2. KInv /\ TInv /\ [Next]_vars => TInv'
    <2> SUFFICES ASSUME KInv, TInv, [Next]_vars, ~lost' PROVE QuietInv'
      BY DEF TInv
    <2>1. ~lost
      BY LostStays DEF KInv
    <2> QED
      BY <2>1, QuietStays, OfferedStep, PrecededStep DEF TInv, QuietInv
  <1> QED
    BY <1>1, <1>2, KInvariance, PTL DEF Spec
-----------------------------------------------------------------------------
(* While nothing is lost, a client that reads a text holds the key it is   *)
(* under, or one that it made for the sender itself: HandleSendMessage     *)
(* never sends a text ahead of its key, and no batch is read out of order. *)
THEOREM TextsAreReadable == Spec => []TextsReadable
  <1>1. ASSUME KInv, TInv PROVE TextsReadable
    <2> SUFFICES ASSUME NEW c \in Client, ~lost, batch[c] # <<>>, NEW m, m = Head(batch[c]),
                        m.type = Text
                 PROVE  \/ HoldsFor(c, m.sender, m.key)
                        \/ /\ m.key.maker = m.sender
                           /\ HoldsFor(c, m.sender,
                                       [maker |-> c, peer |-> m.sender, run |-> run[c]])
      BY DEF TextsReadable
    <2>1. batch[c] \in Seq(Message) /\ Waiting(c) \in Seq(Message) /\ inbox[c] \in Seq(Message)
      BY <1>1, WaitingMail DEF KInv, TypeOK
    <2>2. m \in Message /\ m.sender \in Client /\ Mailed(c, m)
      <3>1. m \in Message /\ 1 \in DOMAIN batch[c] /\ batch[c][1] = m
        BY <2>1
      <3> QED
        BY <3>1 DEF Message, Mailed
    <2>3. Keyed(c, m.sender)
      <3>1. Waiting(c) # <<>> /\ Head(Waiting(c)) = m
        <4>1. PICK s \in Seq(Message), t \in Seq(Message) : s = batch[c] /\ t = inbox[c]
          BY <2>1
        <4>2. s \o t # <<>> /\ Head(s \o t) = Head(s)
          BY <4>1, TailBefore
        <4> QED
          BY <4>1, <4>2 DEF Waiting
      <3>2. 1 \in DOMAIN Waiting(c) /\ Waiting(c)[1] = m
        BY <2>1, <3>1
      <3> QED
        BY <1>1, <3>2 DEF TInv, QuietInv, PrecededInv
    <2>a. PICK n \in known(c) : friends[c][n].uuid = m.sender /\ HasSym(friends[c][n])
      BY <2>3 DEF Keyed, NamesFor
    <2>4. PICK k : k = friends[c][n].symkey /\ k # NoKey
      BY <2>a DEF HasSym
    <2>5. HoldsFor(c, m.sender, k)
      BY <2>a, <2>4 DEF HoldsFor, NamesFor
    <2>6. Shared(k, c, m.sender) /\ Shared(m.key, c, m.sender)
      BY <1>1, <2>2, <2>a, <2>4 DEF KInv, FriendInv, HasSym, MailInv, Text, GetSK
    <2>7. run[c] = 1 /\ run[m.sender] = 1 /\ \A v \in Client : status[v] # "crashed"
      BY <1>1, <2>2 DEF TInv, QuietInv, Undisturbed
    <2>8. ASSUME NEW l, Shared(l, c, m.sender)
          PROVE  /\ l = [maker |-> l.maker, peer |-> l.peer, run |-> 1]
                 /\ \/ l.maker = c /\ l.peer = m.sender
                    \/ l.maker = m.sender /\ l.peer = c
      BY <2>7, <2>8 DEF Shared, Between, Kept, SymKey
    <2>9. CASE m.key.maker = c
      BY <2>2, <2>6, <2>7, <2>8, <2>9 DEF Shared, Kept
    <2>10. CASE m.key.maker = m.sender /\ m.key.maker # c
      BY <2>5, <2>6, <2>7, <2>8, <2>10
    <2> QED
      BY <2>6, <2>8, <2>9, <2>10
  <1> QED
    BY <1>1, KInvariance, TInvariance, PTL
=============================================================================
