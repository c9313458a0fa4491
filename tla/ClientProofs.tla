---------------------------- MODULE ClientProofs ----------------------------
(***************************************************************************)
(* What Client guarantees for every set of clients and names, every number *)
(* of runs, messages and late requests: whose a symmetric key is, who can  *)
(* read it, and that friends agree on it.                                  *)
(***************************************************************************)
EXTENDS Client, WellFoundedInduction, SequenceTheorems, TLAPS

-----------------------------------------------------------------------------
(* The inductive invariant.                                                *)

(* The key was generated by one of the two, for the other.                 *)
Between(k, c, d) == <<k.maker, k.peer>> \in {<<c, d>>, <<d, c>>}

(* No key is of a run to come, and its maker keeps it for the whole run.   *)
Kept(k) ==
  /\ k.run <= run[k.maker]
  /\ k.run = run[k.maker] /\ status[k.maker] # "crashed" => HoldsFor(k.maker, k.peer, k)

Shared(k, c, d) == k \in SymKey /\ Between(k, c, d) /\ Kept(k)

(* What client c knows under name n.                                       *)
FriendInv(c, n) ==
  /\ NameOf[friends[c][n].uuid] = n
  /\ friends[c][n].public \in {NoKey, friends[c][n].uuid}
  /\ HasSym(friends[c][n]) => Shared(friends[c][n].symkey, c, friends[c][n].uuid)

(* Client u may come to read message m.                                    *)
Mailed(u, m) ==
  \/ \E i \in DOMAIN inbox[u] : inbox[u][i] = m
  \/ \E i \in DOMAIN batch[u] : batch[u][i] = m
  \/ \E r \in late : r.to = u /\ \E i \in DOMAIN r.mail : r.mail[i] = m

MailInv(u, m) ==
  /\ m.type # GetSK => Shared(m.key, u, m.sender)
  /\ m.type = SendSK => m.cipher_for = u

MemoryOK == friends = [c \in Client |-> friends[c]]

KInv ==
  /\ TypeOK
  /\ MemoryOK
  /\ \A c \in Client : \A n \in known(c) : FriendInv(c, n)
  /\ \A u \in Client, m \in Message : Mailed(u, m) => MailInv(u, m)
-----------------------------------------------------------------------------
(* The operations of Friend.                                               *)

(* The constructor makes a friend without keys.                            *)
LEMMA NewFriendIs ==
  ASSUME NEW u \in Client
  PROVE  NewFriend(u) \in Friend /\ ~HasSym(NewFriend(u))
  BY DEF NewFriend, Friend, HasSym

(* SetPublicKey changes the public key only.                               *)
LEMMA SetPublicKeyKeeps ==
  ASSUME NEW f \in Friend
  PROVE  LET g == SetPublicKey(f, f.uuid)
         IN  /\ g \in Friend /\ g.uuid = f.uuid /\ g.symkey = f.symkey
             /\ g.public \in {f.public, f.uuid}
  BY DEF SetPublicKey, Friend

(* SetSymKey replaces no key.                                              *)
LEMMA SetSymKeyKeeps ==
  ASSUME NEW f \in Friend, NEW k \in SymKey
  PROVE  LET g == SetSymKey(f, k)
         IN  /\ g \in Friend /\ g.uuid = f.uuid /\ g.public = f.public
             /\ g.symkey = IF HasSym(f) THEN f.symkey ELSE k
  BY DEF SetSymKey, Friend

(* A generated key is its maker's, of this run, for its friend.            *)
LEMMA GeneratedIs ==
  ASSUME TypeOK, NEW c \in Client, NEW f \in Friend
  PROVE  /\ Generated(c, f) \in SymKey /\ Generated(c, f) # NoKey
         /\ Generated(c, f).maker = c /\ Generated(c, f).peer = f.uuid
         /\ Generated(c, f).run = run[c]
  BY KeyAssumption DEF Generated, SymKey, Friend, TypeOK

(* GetSymKey replaces no key.                                              *)
LEMMA WithSymKeyKeeps ==
  ASSUME TypeOK, NEW c \in Client, NEW f \in Friend
  PROVE  LET g == WithSymKey(c, f)
         IN  /\ g \in Friend /\ g.uuid = f.uuid /\ g.public = f.public
             /\ g.symkey \in SymKey /\ HasSym(g)
             /\ g.symkey = IF HasSym(f) THEN f.symkey ELSE Generated(c, f)
  BY GeneratedIs DEF WithSymKey, Friend, HasSym

(* Whatever is known is a friend.                                          *)
LEMMA FriendsTyped ==
  ASSUME TypeOK, NEW c \in Client, NEW n \in known(c)
  PROVE  n \in Name /\ friends[c][n] \in Friend /\ friends[c][n].uuid \in Client
  BY DEF TypeOK, Friend

(* What Update changes.                                                    *)
LEMMA UpdateAt ==
  ASSUME TypeOK, MemoryOK, NEW c \in Client, NEW n \in known(c), NEW f \in Friend,
         Update(c, n, f)
  PROVE  /\ MemoryOK'
         /\ \A d \in Client : d # c => friends'[d] = friends[d]
         /\ friends'[c][n] = f
         /\ \A m \in known(c) : m # n => friends'[c][m] = friends[c][m]
         /\ \A d \in Client : /\ known(d)' = known(d)
                              /\ friends'[d] \in [known(d)' -> Friend]
  <1>1. friends' = [d \in Client |-> IF d = c THEN [friends[c] EXCEPT ![n] = f] ELSE friends[d]]
    BY DEF Update, MemoryOK
  <1>2. friends'[c] = [friends[c] EXCEPT ![n] = f] /\ friends[c] \in [known(c) -> Friend]
    BY <1>1 DEF TypeOK
  <1>3. friends'[c] \in [known(c) -> Friend] /\ friends'[c][n] = f
    BY <1>2
  <1>4. \A d \in Client : d # c => friends'[d] = friends[d]
    BY <1>1
  <1>5. MemoryOK'
    BY <1>1 DEF MemoryOK
  <1>6. \A d \in Client : known(d)' = known(d) /\ friends'[d] \in [known(d)' -> Friend]
    BY <1>3, <1>4 DEF TypeOK, known
  <1>7. \A m \in known(c) : m # n => friends'[c][m] = friends[c][m]
    BY <1>2
  <1> QED
    BY <1>3, <1>4, <1>5, <1>6, <1>7
-----------------------------------------------------------------------------
(* What a step is to the memory of a client v, and to what it knows under  *)
(* a name.                                                                 *)

Remembers(v) ==
  /\ run'[v] = run[v]
  /\ status'[v] = "crashed" <=> status[v] = "crashed"
  /\ \A n \in known(v) :
       /\ n \in known(v)' /\ friends'[v][n].uuid = friends[v][n].uuid
       /\ HasSym(friends[v][n]) => friends'[v][n].symkey = friends[v][n].symkey

Forgets(v) ==
  /\ known(v)' = {}
  /\ \/ run'[v] = run[v] /\ status'[v] = "crashed"
     \/ run'[v] = run[v] + 1

(* A friend is as it was, new, has a public key or a key generated for it, *)
(* or one that it sent.                                                    *)
Learned(v, n) ==
  \/ n \in known(v) /\ friends'[v][n] = friends[v][n]
  \/ \E u \in Registered : u \in Client /\ NameOf[u] = n /\ friends'[v][n] = NewFriend(u)
  \/ n \in known(v) /\ friends'[v][n] = SetPublicKey(friends[v][n], friends[v][n].uuid)
  \/ n \in known(v) /\ run'[v] = run[v] /\ friends'[v][n] = WithSymKey(v, friends[v][n])
  \/ /\ n \in known(v)
     /\ \E m \in Message :
          /\ Mailed(v, m) /\ m.type = SendSK /\ m.sender = friends[v][n].uuid
          /\ friends'[v][n] = SetSymKey(friends[v][n], m.key)

MemoryAfter(v) ==
  /\ Remembers(v) \/ Forgets(v)
  /\ known(v)' \subseteq Name /\ friends'[v] \in [known(v)' -> Friend]
  /\ \A n \in known(v)' : Learned(v, n)

SameState == run' = run /\ \A v \in Client : status'[v] = "crashed" <=> status[v] = "crashed"

(* A client that a step does not concern.                                  *)
LEMMA SameMemory ==
  ASSUME TypeOK, MemoryOK, NEW v \in Client, friends'[v] = friends[v],
         run'[v] = run[v], status'[v] = "crashed" <=> status[v] = "crashed"
  PROVE  MemoryAfter(v)
  BY DEF MemoryAfter, Remembers, Learned, TypeOK, known

(* A client updates a friend without replacing its key.                    *)
LEMMA UpdatedMemory ==
  ASSUME TypeOK, MemoryOK, SameState, NEW c \in Client, NEW n \in known(c), NEW f \in Friend,
         Update(c, n, f), f.uuid = friends[c][n].uuid,
         HasSym(friends[c][n]) => f.symkey = friends[c][n].symkey,
         friends'[c][n] = f => Learned(c, n)
  PROVE  MemoryOK' /\ \A v \in Client : MemoryAfter(v)
  <1>1. /\ MemoryOK'
        /\ \A d \in Client : d # c => friends'[d] = friends[d]
        /\ friends'[c][n] = f
        /\ \A m \in known(c) : m # n => friends'[c][m] = friends[c][m]
        /\ \A d \in Client : known(d)' = known(d) /\ friends'[d] \in [known(d)' -> Friend]
    BY UpdateAt
  <1>2. ASSUME NEW v \in Client, v # c PROVE MemoryAfter(v)
    BY <1>1, <1>2, SameMemory DEF SameState
  <1>3. Remembers(c)
    BY <1>1 DEF Remembers, SameState
  <1>4. \A m \in known(c) : Learned(c, m)
    BY <1>1 DEF Learned
  <1>5. known(c)' \subseteq Name
    BY <1>1 DEF TypeOK
  <1>6. MemoryAfter(c)
    BY <1>1, <1>3, <1>4, <1>5 DEF MemoryAfter
  <1> QED
    BY <1>1, <1>2, <1>6

(* A client's program ends.                                                *)
LEMMA ForgottenMemory ==
  ASSUME TypeOK, MemoryOK, NEW c \in Client,
         friends' = [friends EXCEPT ![c] = [n \in {} |-> {}]],
         \A v \in Client \ {c} : run'[v] = run[v] /\ status'[v] = status[v],
         (run'[c] = run[c] /\ status'[c] = "crashed") \/ run'[c] = run[c] + 1
  PROVE  MemoryOK' /\ \A v \in Client : MemoryAfter(v)
  <1>1. friends' = [d \in Client |-> IF d = c THEN [n \in {} |-> {}] ELSE friends[d]]
    BY DEF MemoryOK
  <1>2. MemoryOK'
    BY <1>1 DEF MemoryOK
  <1>3. ASSUME NEW v \in Client, v # c PROVE MemoryAfter(v)
    BY <1>1, <1>3, SameMemory
  <1>4. friends'[c] = [n \in {} |-> {}] /\ known(c)' = {}
    BY <1>1 DEF known
  <1>5. friends'[c] \in [{} -> Friend]
    BY <1>4
  <1>6. MemoryAfter(c)
    BY <1>4, <1>5 DEF MemoryAfter, Forgets
  <1> QED
    BY <1>2, <1>3, <1>6

(* A set of numbers has a least one.                                       *)
LEMMA LeastOf ==
  ASSUME NEW S, S \subseteq Nat, S # {}
  PROVE  \E i \in S : \A j \in S : i <= j
  <1>1. IsWellFoundedOn(OpToRel(<, Nat), Nat)
    BY NatLessThanWellFounded
  <1>2. \A i, j \in Nat : <<j, i>> \in OpToRel(<, Nat) <=> j < i
    BY DEF OpToRel
  <1>3. PICK i \in S : \A j \in S : ~(<<j, i>> \in OpToRel(<, Nat))
    BY <1>1, WFMin
  <1>4. ASSUME NEW j \in S PROVE i <= j
    <2>1. ~(j < i)
      BY <1>2, <1>3
    <2> QED
      BY <2>1
  <1> QED
    BY <1>4

(* A list adds friends and changes none.                                   *)
LEMMA ListedMemory ==
  ASSUME TypeOK, MemoryOK, NEW c \in Client, HandleList(c)
  PROVE  MemoryOK' /\ \A v \in Client : MemoryAfter(v)
  <1>1. /\ friends' = [d \in Client |-> IF d = c THEN Listed(c) ELSE friends[d]]
        /\ UNCHANGED <<status, run>>
    BY DEF HandleList, MemoryOK
  <1>2. MemoryOK'
    BY <1>1 DEF MemoryOK
  <1>3. ASSUME NEW v \in Client, v # c PROVE MemoryAfter(v)
    BY <1>1, <1>3, SameMemory
  <1>4. friends'[c] = Listed(c) /\ known(c)' = known(c) \cup NamesListed(c)
    BY <1>1 DEF known, Listed
  <1>5. \A n \in known(c) : friends'[c][n] = friends[c][n]
    BY <1>4 DEF Listed
  <1>6. ASSUME NEW n \in NamesListed(c), n \notin known(c)
        PROVE  \E u \in Registered : u \in Client /\ NameOf[u] = n /\ friends'[c][n] = NewFriend(u)
    <2>1. \E i \in Others(c) : NameOf[users[i]] = n
      BY DEF NamesListed
    <2>2. Others(c) \subseteq Nat
      BY DEF Others, TypeOK
    <2>3. \E i \in Others(c) :
            NameOf[users[i]] = n /\ \A j \in Others(c) : NameOf[users[j]] = n => i <= j
      <3> DEFINE S == {i \in Others(c) : NameOf[users[i]] = n}
      <3>1. S \subseteq Nat /\ S # {}
        BY <2>1, <2>2
      <3>2. \E i \in S : \A j \in S : i <= j
        <4> HIDE DEF S
        <4> QED
          BY <3>1, LeastOf
      <3> QED
        BY <3>2
    <2>4. First(c, n) \in Others(c) /\ NameOf[users[First(c, n)]] = n
      BY <2>3 DEF First
    <2>5. users[First(c, n)] \in Registered /\ users[First(c, n)] \in Client
      BY <2>4 DEF Others, Registered, TypeOK
    <2>6. friends'[c][n] = NewFriend(users[First(c, n)])
      BY <1>4, <1>6 DEF Listed
    <2> QED
      BY <2>4, <2>5, <2>6
  <1>7. known(c)' \subseteq Name
    BY <1>4, ConstantsAssumption DEF TypeOK, NamesListed, Others
  <1>8. friends'[c] \in [known(c)' -> Friend]
    <2>1. \A n \in known(c)' : friends'[c][n] \in Friend
      BY <1>4, <1>5, <1>6, NewFriendIs, FriendsTyped
    <2>2. friends'[c] = [n \in known(c)' |-> friends'[c][n]]
      BY <1>4 DEF Listed
    <2> QED
      BY <2>1, <2>2
  <1>9. Remembers(c)
    BY <1>1, <1>4, <1>5 DEF Remembers
  <1>10. \A n \in known(c)' : Learned(c, n)
    BY <1>4, <1>5, <1>6 DEF Learned
  <1> QED
    BY <1>2, <1>3, <1>7, <1>8, <1>9, <1>10 DEF MemoryAfter

(* A friend that gets the key of a message from it.                        *)
LEMMA TakenMemory ==
  ASSUME KInv, SameState, NEW c \in Client, NEW n \in known(c),
         NEW m \in Message, Mailed(c, m), m.type = SendSK, m.sender = friends[c][n].uuid,
         Update(c, n, SetSymKey(friends[c][n], m.key))
  PROVE  MemoryOK' /\ \A v \in Client : MemoryAfter(v)
  <1>1. m.key \in SymKey
    BY DEF KInv, MailInv, Shared, SendSK, GetSK
  <1>2. friends[c][n] \in Friend
    BY FriendsTyped DEF KInv
  <1>3. PICK f \in Friend : /\ f = SetSymKey(friends[c][n], m.key)
                            /\ f.uuid = friends[c][n].uuid
                            /\ HasSym(friends[c][n]) => f.symkey = friends[c][n].symkey
    BY <1>1, <1>2, SetSymKeyKeeps
  <1>4. friends'[c][n] = f => Learned(c, n)
    BY <1>3 DEF Learned
  <1> QED
    BY <1>3, <1>4, UpdatedMemory DEF KInv

(* A friend whose key is asked for.                                        *)
LEMMA KeyedMemory ==
  ASSUME KInv, SameState, NEW c \in Client, NEW n \in known(c),
         Update(c, n, WithSymKey(c, friends[c][n]))
  PROVE  MemoryOK' /\ \A v \in Client : MemoryAfter(v)
  <1>1. friends[c][n] \in Friend
    BY FriendsTyped DEF KInv
  <1>2. PICK f \in Friend : /\ f = WithSymKey(c, friends[c][n])
                            /\ f.uuid = friends[c][n].uuid
                            /\ HasSym(friends[c][n]) => f.symkey = friends[c][n].symkey
    BY <1>1, WithSymKeyKeeps DEF KInv
  <1>3. friends'[c][n] = f => Learned(c, n)
    BY <1>2 DEF Learned, SameState
  <1> QED
    BY <1>2, <1>3, UpdatedMemory DEF KInv

(* What every step is to the memory of every client.                       *)
LEMMA MemoryStep ==
  ASSUME KInv, [Next]_vars
  PROVE  MemoryOK' /\ \A v \in Client : MemoryAfter(v)
  <1> DEFINE Goal == MemoryOK' /\ \A v \in Client : MemoryAfter(v)
  <1> USE DEF Goal
  <1>a. TypeOK /\ MemoryOK
    BY DEF KInv
  <1>b. status \in [Client -> {"unregistered", "menu", "reading", "crashed"}]
        /\ run \in [Client -> Nat \ {0}]
    BY <1>a DEF TypeOK
  <1>s. ASSUME friends' = friends, SameState PROVE Goal
    <2>1. MemoryOK'
      BY <1>a, <1>s DEF MemoryOK
    <2> QED
      BY <1>a, <1>s, <2>1, SameMemory DEF SameState
  <1>t. ASSUME NEW c \in Client, Return(c), status[c] # "crashed", run' = run PROVE SameState
    BY <1>b, <1>t DEF SameState, Return
  <1>1. ASSUME NEW c \in Client, HandleRegister(c) PROVE Goal
    BY <1>b, <1>s, <1>1 DEF HandleRegister, SameState
  <1>2. ASSUME NEW c \in Client, HandleList(c) PROVE Goal
    BY <1>a, <1>2, ListedMemory
  <1>3. ASSUME NEW c \in Client, Fetch(c) PROVE Goal
    BY <1>b, <1>s, <1>3 DEF Fetch, SameState
  <1>4. ASSUME NEW c \in Client, FetchFails(c) PROVE Goal
    BY <1>s, <1>4 DEF FetchFails, SameState, program
  <1>5. ASSUME NEW c \in Client, EndReading(c) PROVE Goal
    BY <1>b, <1>s, <1>t, <1>5 DEF EndReading
  <1>6. ASSUME NEW c \in Client, ReadUnknown(c) PROVE Goal
    BY <1>b, <1>s, <1>t, <1>6 DEF ReadUnknown
  <1>7. ASSUME NEW c \in Client, ReadGetSymKey(c) PROVE Goal
    BY <1>s, <1>7 DEF ReadGetSymKey, Continue, SameState
  <1>8. ASSUME NEW c \in Client, ReadSendSymKey(c) PROVE Goal
    <2>1. run' = run /\ status[c] = "reading"
      BY <1>8 DEF ReadSendSymKey, Reads
    <2>2. CASE Return(c) /\ UNCHANGED friends
      BY <1>s, <1>t, <2>1, <2>2
    <2>3. ASSUME NEW n \in NamesFor(c, Head(batch[c]).sender), Continue(c),
                 Update(c, n, SetSymKey(friends[c][n], Head(batch[c]).key))
          PROVE  Goal
      <3>1. batch[c] \in Seq(Message) /\ batch[c] # <<>> /\ Head(batch[c]).type = SendSK
        BY <1>a, <1>8 DEF ReadSendSymKey, Reads, TypeOK
      <3>2. PICK m \in Message : m = Head(batch[c]) /\ m = batch[c][1] /\ 1 \in DOMAIN batch[c]
        BY <3>1
      <3>3. Mailed(c, m) /\ m.type = SendSK
        BY <3>1, <3>2 DEF Mailed
      <3>4. n \in known(c) /\ m.sender = friends[c][n].uuid
        BY <2>3, <3>2 DEF NamesFor
      <3>5. SameState
        BY <2>1, <2>3 DEF SameState, Continue
      <3> QED
        BY <2>3, <3>2, <3>3, <3>4, <3>5, TakenMemory
    <2> QED
      BY <1>8, <2>2, <2>3 DEF ReadSendSymKey
  <1>9. ASSUME NEW c \in Client, ReadText(c) PROVE Goal
    <2>1. run' = run /\ status[c] = "reading"
      BY <1>9 DEF ReadText, Reads
    <2>2. ASSUME NEW n \in NamesFor(c, Head(batch[c]).sender), Continue(c),
                 Update(c, n, WithSymKey(c, friends[c][n]))
          PROVE  Goal
      <3>1. n \in known(c) /\ SameState
        BY <2>1, <2>2 DEF NamesFor, SameState, Continue
      <3> QED
        BY <2>2, <3>1, KeyedMemory
    <2>3. CASE Terminate(c)
      BY <1>a, <1>b, <2>1, <2>3, ForgottenMemory DEF Terminate
    <2> QED
      BY <1>9, <2>2, <2>3 DEF ReadText
  <1>10. ASSUME NEW c \in Client, Restart(c) PROVE Goal
    BY <1>a, <1>b, <1>10, ForgottenMemory DEF Restart
  <1>11. ASSUME NEW c \in Client, NEW n \in Name, HandlePublicKey(c, n) PROVE Goal
    <2>1. n \in known(c) /\ Update(c, n, SetPublicKey(friends[c][n], friends[c][n].uuid))
          /\ SameState
      BY <1>11 DEF HandlePublicKey, SameState
    <2>2. friends[c][n] \in Friend
      BY <1>a, <2>1, FriendsTyped
    <2>3. PICK f \in Friend : /\ f = SetPublicKey(friends[c][n], friends[c][n].uuid)
                              /\ f.uuid = friends[c][n].uuid
                              /\ f.symkey = friends[c][n].symkey
      BY <2>2, SetPublicKeyKeeps
    <2>4. friends'[c][n] = f => Learned(c, n)
      BY <2>1, <2>3 DEF Learned
    <2> QED
      BY <1>a, <2>1, <2>3, <2>4, UpdatedMemory
  <1>12. ASSUME NEW c \in Client, NEW n \in Name, HandleRequestSymKey(c, n) PROVE Goal
    BY <1>s, <1>12 DEF HandleRequestSymKey, SameState, program
  <1>13. ASSUME NEW c \in Client, NEW n \in Name,
                HandleSendSymKey(c, n) \/ HandleSendMessage(c, n)
         PROVE  Goal
    <2>1. n \in known(c) /\ Update(c, n, WithSymKey(c, friends[c][n])) /\ SameState
      BY <1>13 DEF HandleSendSymKey, HandleSendMessage, MaySendText, SameState
    <2> QED
      BY <2>1, KeyedMemory
  <1>14. ASSUME NEW r \in late, LateRequest(r) PROVE Goal
    BY <1>s, <1>14 DEF LateRequest, SameState, program
  <1>15. ASSUME ServerRestart \/ UNCHANGED vars PROVE Goal
    BY <1>s, <1>15 DEF ServerRestart, vars, SameState, program
  <1> HIDE DEF Goal
  <1>16. Goal
    BY <1>1, <1>2, <1>3, <1>4, <1>5, <1>6, <1>7, <1>8, <1>9, <1>10, <1>11, <1>12, <1>13,
       <1>14, <1>15 DEF Next
  <1> QED
    BY <1>16 DEF Goal
-----------------------------------------------------------------------------
(* What a step is to the mail.                                             *)

(* Whatever is in a concatenation is in one of the parts.                  *)
LEMMA ElementOf ==
  ASSUME NEW S, NEW s \in Seq(S), NEW t \in Seq(S), NEW i \in DOMAIN (s \o t)
  PROVE  \/ \E j \in DOMAIN s : (s \o t)[i] = s[j]
         \/ \E j \in DOMAIN t : (s \o t)[i] = t[j]
  <1>1. i \in 1..(Len(s) + Len(t))
    BY ConcatProperties
  <1>2. CASE i <= Len(s)
    BY <1>1, <1>2, ConcatProperties
  <1>3. CASE i > Len(s)
    <2>1. i - Len(s) \in DOMAIN t /\ (s \o t)[i] = t[i - Len(s)]
      BY <1>1, <1>3, ConcatProperties
    <2> QED
      BY <2>1
  <1> QED
    BY <1>1, <1>2, <1>3

(* A message that c sends to u, of what it now knows under the name n.     *)
Sent(c, n, u, m) ==
  /\ n \in known(c)' /\ friends'[c][n].uuid = u
  /\ m \in Message /\ m.sender = c
  /\ m.type # GetSK => HasSym(friends'[c][n]) /\ m.key = friends'[c][n].symkey
  /\ m.type = SendSK => m.cipher_for = friends'[c][n].public /\ m.cipher_for # NoKey

MailAfter(u, m) ==
  Mailed(u, m)' => Mailed(u, m) \/ \E c \in Client, n \in Name : Sent(c, n, u, m)

MailTypes ==
  /\ inbox \in [Client -> Seq(Message)] /\ batch \in [Client -> Seq(Message)]
  /\ late \subseteq Request

(* An exchange mails its message or nothing.                               *)
LEMMA ExchangeMail ==
  ASSUME TypeOK, NEW c \in Client, NEW u \in Client, NEW m \in Message, NEW n \in Name,
         Exchange(c, u, m), UNCHANGED batch, Sent(c, n, u, m)
  PROVE  MailTypes' /\ \A v \in Client, l \in Message : MailAfter(v, l)
  <1> USE DEF TypeOK
  <1>1. CASE inbox' = [inbox EXCEPT ![u] = Append(@, m)] /\ UNCHANGED late
    <2>1. MailTypes'
      BY <1>1 DEF MailTypes
    <2>2. /\ inbox'[u] = Append(inbox[u], m) /\ inbox[u] \in Seq(Message)
          /\ \A v \in Client : v # u => inbox'[v] = inbox[v]
      BY <1>1
    <2>3. \A i \in DOMAIN inbox'[u] :
            inbox'[u][i] = m \/ \E j \in DOMAIN inbox[u] : inbox'[u][i] = inbox[u][j]
      BY <2>2
    <2>4. ASSUME NEW v \in Client, NEW l \in Message PROVE MailAfter(v, l)
      BY <1>1, <2>2, <2>3 DEF MailAfter, Mailed
    <2> QED
      BY <2>1, <2>4
  <1>2. CASE UNCHANGED <<inbox, late>>
    <2>1. MailTypes'
      BY <1>2 DEF MailTypes
    <2> QED
      BY <1>2, <2>1 DEF MailAfter, Mailed
  <1>3. CASE UNCHANGED inbox /\ late' = late \cup {[to |-> u, mail |-> <<m>>]}
    <2> DEFINE r == [to |-> u, mail |-> <<m>>]
    <2>1. r \in Request /\ r.to = u /\ DOMAIN r.mail = {1} /\ r.mail[1] = m
      BY DEF Request
    <2> HIDE DEF r
    <2>2. late' = late \cup {r}
      BY <1>3 DEF r
    <2>3. MailTypes'
      BY <1>3, <2>1, <2>2 DEF MailTypes
    <2>4. ASSUME NEW v \in Client, NEW l \in Message PROVE MailAfter(v, l)
      BY <1>3, <2>1, <2>2 DEF MailAfter, Mailed
    <2> QED
      BY <2>3, <2>4
  <1> QED
    BY <1>1, <1>2, <1>3 DEF Exchange, Fails

(* The batch is given up, or goes on behind its first message.             *)
LEMMA BatchMail ==
  ASSUME TypeOK, NEW c \in Client, UNCHANGED <<inbox, late>>,
         \/ batch' = [batch EXCEPT ![c] = <<>>]
         \/ batch' = [batch EXCEPT ![c] = Tail(@)] /\ batch[c] # <<>>
  PROVE  MailTypes' /\ \A v \in Client, l \in Message : MailAfter(v, l)
  <1> USE DEF TypeOK
  <1>1. CASE batch' = [batch EXCEPT ![c] = <<>>]
    BY <1>1 DEF MailTypes, MailAfter, Mailed
  <1>2. CASE batch' = [batch EXCEPT ![c] = Tail(@)] /\ batch[c] # <<>>
    <2>1. batch[c] \in Seq(Message) /\ batch[c] # <<>> /\ batch'[c] = Tail(batch[c])
          /\ \A v \in Client : v # c => batch'[v] = batch[v]
      BY <1>2
    <2>2. \A i \in DOMAIN batch'[c] : i + 1 \in DOMAIN batch[c] /\ batch'[c][i] = batch[c][i + 1]
      BY <2>1
    <2>3. MailTypes'
      BY <1>2, <2>1 DEF MailTypes
    <2>4. ASSUME NEW v \in Client, NEW l \in Message, Mailed(v, l)' PROVE Mailed(v, l)
      <3>1. CASE v = c
        <4>1. \A i \in DOMAIN batch'[c] : \E j \in DOMAIN batch[c] : batch'[c][i] = batch[c][j]
          BY <2>2
        <4> QED
          BY <2>4, <3>1, <4>1 DEF Mailed
      <3>2. CASE v # c
        BY <2>1, <2>4, <3>2 DEF Mailed
      <3> QED
        BY <3>1, <3>2
    <2> QED
      BY <2>3, <2>4 DEF MailAfter
  <1> QED
    BY <1>1, <1>2

(* Every step mails what somebody sends, or nothing.                       *)
LEMMA MailStep ==
  ASSUME KInv, [Next]_vars
  PROVE  MailTypes' /\ \A u \in Client, m \in Message : MailAfter(u, m)
  <1> DEFINE Goal == MailTypes' /\ \A u \in Client, m \in Message : MailAfter(u, m)
  <1> USE DEF Goal
  <1>a. TypeOK /\ MemoryOK
    BY DEF KInv
  <1>b. MailTypes
    BY <1>a DEF TypeOK, MailTypes
  <1>s. ASSUME UNCHANGED <<inbox, late, batch>> PROVE Goal
    BY <1>b, <1>s DEF MailTypes, MailAfter, Mailed
  <1>1. ASSUME NEW c \in Client, HandleRegister(c) PROVE Goal
    BY <1>s, <1>1 DEF HandleRegister
  <1>2. ASSUME NEW c \in Client, HandleList(c) PROVE Goal
    BY <1>s, <1>2 DEF HandleList, server
  <1>3. ASSUME NEW c \in Client, Fetch(c) PROVE Goal
    <2>1. /\ inbox' = [inbox EXCEPT ![c] = <<>>] /\ batch' = [batch EXCEPT ![c] = inbox[c]]
          /\ late' = late
      BY <1>3 DEF Fetch
    <2> QED
      BY <1>b, <2>1 DEF MailTypes, MailAfter, Mailed
  <1>4. ASSUME NEW c \in Client, FetchFails(c) PROVE Goal
    <2>1. batch' = batch
      BY <1>4 DEF FetchFails, program
    <2>2. CASE inbox' = [inbox EXCEPT ![c] = <<>>] /\ UNCHANGED late
      BY <1>b, <2>1, <2>2 DEF MailTypes, MailAfter, Mailed
    <2>3. CASE UNCHANGED <<inbox, late>>
      BY <1>s, <2>1, <2>3
    <2>4. CASE UNCHANGED inbox /\ late' = late \cup {[to |-> c, mail |-> <<>>]}
      <3>0. <<>> \in Seq(Message)
        OBVIOUS
      <3>1. PICK r \in Request : r = [to |-> c, mail |-> <<>>]
        BY <3>0 DEF Request
      <3>2. r.mail = <<>> /\ DOMAIN r.mail = {}
        BY <3>1
      <3> QED
        BY <1>b, <2>1, <2>4, <3>1, <3>2 DEF MailTypes, MailAfter, Mailed
    <2> QED
      BY <1>4, <2>2, <2>3, <2>4 DEF FetchFails, Fails
  <1>5. ASSUME NEW c \in Client, EndReading(c) PROVE Goal
    BY <1>a, <1>5, BatchMail DEF EndReading, Return, server
  <1>6. ASSUME NEW c \in Client, ReadUnknown(c) PROVE Goal
    BY <1>a, <1>6, BatchMail DEF ReadUnknown, Return, server
  <1>7. ASSUME NEW c \in Client, ReadGetSymKey(c) PROVE Goal
    BY <1>a, <1>7, BatchMail DEF ReadGetSymKey, Reads, Continue, server
  <1>8. ASSUME NEW c \in Client, ReadSendSymKey(c) PROVE Goal
    BY <1>a, <1>8, BatchMail DEF ReadSendSymKey, Reads, Continue, Return, server
  <1>9. ASSUME NEW c \in Client, ReadText(c) PROVE Goal
    BY <1>a, <1>9, BatchMail DEF ReadText, Reads, Continue, Terminate, server
  <1>10. ASSUME NEW c \in Client, Restart(c) PROVE Goal
    BY <1>a, <1>10, BatchMail DEF Restart, server
  <1>11. ASSUME NEW c \in Client, NEW n \in Name, HandlePublicKey(c, n) PROVE Goal
    BY <1>s, <1>11 DEF HandlePublicKey, server
  <1>12. ASSUME NEW c \in Client, NEW n \in Name, HandleRequestSymKey(c, n) PROVE Goal
    <2>1. n \in known(c) /\ friends' = friends /\ batch' = batch
      BY <1>12 DEF HandleRequestSymKey, program
    <2>2. PICK u \in Client : u = friends[c][n].uuid
      BY <1>a, <2>1, FriendsTyped
    <2>3. PICK m \in Message :
            m = [sender |-> c, type |-> GetSK, cipher_for |-> NoKey, key |-> NoKey]
      BY DEF Message, MessageTypes
    <2>4. Sent(c, n, u, m)
      BY <2>1, <2>2, <2>3 DEF Sent, GetSK, SendSK, known
    <2>5. Exchange(c, u, m)
      BY <1>12, <2>2, <2>3 DEF HandleRequestSymKey
    <2> QED
      BY <1>a, <2>1, <2>4, <2>5, ExchangeMail
  <1>13. ASSUME NEW c \in Client, NEW n \in Name,
                HandleSendSymKey(c, n) \/ HandleSendMessage(c, n)
         PROVE  Goal
    <2>1. n \in known(c) /\ Update(c, n, WithSymKey(c, friends[c][n])) /\ batch' = batch
      BY <1>13 DEF HandleSendSymKey, HandleSendMessage, MaySendText
    <2>2. PICK f \in Friend : f = WithSymKey(c, friends[c][n]) /\ f.symkey \in SymKey /\ HasSym(f)
      BY <1>a, <2>1, FriendsTyped, WithSymKeyKeeps
    <2>3. friends'[c][n] = f /\ n \in known(c)'
      BY <1>a, <2>1, <2>2, UpdateAt
    <2>4. PICK u \in Client : u = f.uuid
      BY <2>2 DEF Friend
    <2>5. CASE HandleSendSymKey(c, n)
      <3>1. PICK m : m = [sender |-> c, type |-> SendSK, cipher_for |-> f.public, key |-> f.symkey]
        OBVIOUS
      <3>2. m \in Message
        BY <2>2, <3>1 DEF Message, MessageTypes, Friend
      <3>3. f.public # NoKey /\ Exchange(c, u, m)
        BY <2>2, <2>4, <2>5, <3>1 DEF HandleSendSymKey
      <3>4. Sent(c, n, u, m)
        BY <2>2, <2>3, <2>4, <3>1, <3>2, <3>3 DEF Sent
      <3> QED
        BY <1>a, <2>1, <3>2, <3>3, <3>4, ExchangeMail
    <2>6. CASE HandleSendMessage(c, n)
      <3>1. PICK m : m = [sender |-> c, type |-> Text, cipher_for |-> NoKey, key |-> f.symkey]
        OBVIOUS
      <3>2. m \in Message
        BY <2>2, <3>1 DEF Message, MessageTypes
      <3>3. Exchange(c, u, m)
        BY <2>2, <2>4, <2>6, <3>1 DEF HandleSendMessage
      <3>4. Sent(c, n, u, m)
        BY <2>2, <2>3, <2>4, <3>1, <3>2 DEF Sent, Text, SendSK
      <3> QED
        BY <1>a, <2>1, <3>2, <3>3, <3>4, ExchangeMail
    <2> QED
      BY <1>13, <2>5, <2>6
  <1>14. ASSUME NEW r \in late, LateRequest(r) PROVE Goal
    <2>1. /\ r \in Request /\ late' = late \ {r} /\ batch' = batch
          /\ inbox' = [inbox EXCEPT ![r.to] = IF r.mail = <<>> THEN <<>> ELSE @ \o r.mail]
      BY <1>b, <1>14 DEF LateRequest, MailTypes, program
    <2>2. PICK u \in Client, s \in Seq(Message) : u = r.to /\ s = r.mail
      BY <2>1 DEF Request
    <2>3. /\ inbox'[u] = IF s = <<>> THEN <<>> ELSE inbox[u] \o s
          /\ \A v \in Client : v # u => inbox'[v] = inbox[v]
      BY <1>b, <2>1, <2>2 DEF MailTypes
    <2>4. inbox[u] \in Seq(Message)
      BY <1>b DEF MailTypes
    <2>5. \A i \in DOMAIN inbox'[u] :
             \/ \E j \in DOMAIN inbox[u] : inbox'[u][i] = inbox[u][j]
             \/ \E j \in DOMAIN s : inbox'[u][i] = s[j]
      BY <2>3, <2>4, ElementOf
    <2>6. MailTypes'
      <3>1. (IF s = <<>> THEN <<>> ELSE inbox[u] \o s) \in Seq(Message)
        BY <2>4
      <3> QED
        BY <1>b, <2>1, <2>2, <3>1 DEF MailTypes
    <2>7. ASSUME NEW v \in Client, NEW m \in Message, Mailed(v, m)' PROVE Mailed(v, m)
      <3>1. CASE v = u
        <4>1. ASSUME NEW i \in DOMAIN inbox'[u], inbox'[u][i] = m PROVE Mailed(u, m)
          BY <1>14, <2>2, <2>5, <4>1 DEF Mailed
        <4> QED
          BY <2>1, <2>7, <3>1, <4>1 DEF Mailed
      <3>2. CASE v # u
        BY <2>1, <2>3, <2>7, <3>2 DEF Mailed
      <3> QED
        BY <3>1, <3>2
    <2> QED
      BY <2>6, <2>7 DEF MailAfter
  <1>15. ASSUME ServerRestart PROVE Goal
    <2>1. inbox' = [c \in Client |-> <<>>] /\ late' = {} /\ batch' = batch
      BY <1>15 DEF ServerRestart, program
    <2> QED
      BY <1>b, <2>1 DEF MailTypes, MailAfter, Mailed
  <1>16. ASSUME UNCHANGED vars PROVE Goal
    BY <1>s, <1>16 DEF vars, server, program
  <1> HIDE DEF Goal
  <1>17. Goal
    BY <1>1, <1>2, <1>3, <1>4, <1>5, <1>6, <1>7, <1>8, <1>9, <1>10, <1>11, <1>12, <1>13,
       <1>14, <1>15, <1>16 DEF Next
  <1> QED
    BY <1>17 DEF Goal
-----------------------------------------------------------------------------
RestTypes ==
  /\ users \in Seq(Client) /\ lost \in BOOLEAN
  /\ status \in [Client -> {"unregistered", "menu", "reading", "crashed"}]
  /\ run \in [Client -> Nat \ {0}]

(* Nobody knows anybody, and nothing is mailed.                            *)
LEMMA KInit == Init => KInv
  <1> SUFFICES ASSUME Init PROVE KInv
    OBVIOUS
  <1>1. \A c \in Client : known(c) = {} /\ friends[c] \in [{} -> Friend]
    BY DEF Init, known
  <1>2. TypeOK
    <2>1. \A c \in Client : known(c) \subseteq Name /\ friends[c] \in [known(c) -> Friend]
      BY <1>1
    <2>2. <<>> \in Seq(Message) /\ <<>> \in Seq(Client)
      OBVIOUS
    <2>3. MailTypes
      BY <2>2 DEF Init, MailTypes
    <2>4. RestTypes
      <3>1. users \in Seq(Client) /\ lost \in BOOLEAN
        BY <2>2 DEF Init
      <3>2. status \in [Client -> {"unregistered", "menu", "reading", "crashed"}]
        BY DEF Init
      <3>3. run \in [Client -> Nat \ {0}]
        BY DEF Init
      <3> QED
        BY <3>1, <3>2, <3>3 DEF RestTypes
    <2> QED
      BY <2>1, <2>3, <2>4 DEF TypeOK, MailTypes, RestTypes
  <1>3. MemoryOK
    BY DEF Init, MemoryOK
  <1>4. \A u \in Client, m \in Message : ~Mailed(u, m)
    BY DEF Init, Mailed
  <1> QED
    BY <1>1, <1>2, <1>3, <1>4 DEF KInv

(* The types of what is not about keys or mail.                            *)
LEMMA RestStep ==
  ASSUME TypeOK, [Next]_vars
  PROVE  RestTypes'
  <1> DEFINE Goal == RestTypes'
  <1>a. RestTypes
    BY DEF TypeOK, RestTypes
  <1>s. ASSUME UNCHANGED <<users, status, run>>, lost' \in {lost, TRUE} PROVE Goal
    BY <1>a, <1>s DEF RestTypes
  <1>1. ASSUME NEW c \in Client, HandleRegister(c) PROVE Goal
    BY <1>a, <1>1 DEF HandleRegister, RestTypes
  <1>2. ASSUME NEW c \in Client, HandleList(c) PROVE Goal
    BY <1>s, <1>2 DEF HandleList, server
  <1>3. ASSUME NEW c \in Client, Fetch(c) PROVE Goal
    BY <1>a, <1>3 DEF Fetch, RestTypes
  <1>4. ASSUME NEW c \in Client, FetchFails(c) PROVE Goal
    BY <1>s, <1>4 DEF FetchFails, Fails, program
  <1>5. ASSUME NEW c \in Client, EndReading(c) \/ ReadUnknown(c) PROVE Goal
    BY <1>a, <1>5 DEF EndReading, ReadUnknown, Return, server, RestTypes
  <1>6. ASSUME NEW c \in Client, ReadGetSymKey(c) PROVE Goal
    BY <1>s, <1>6 DEF ReadGetSymKey, Continue, server
  <1>7. ASSUME NEW c \in Client, ReadSendSymKey(c) PROVE Goal
    <2>1. UNCHANGED <<users, run>> /\ lost' \in {lost, TRUE} /\ (UNCHANGED status \/ Return(c))
      BY <1>7 DEF ReadSendSymKey, Continue, server
    <2> QED
      BY <1>a, <2>1 DEF RestTypes, Return
  <1>8. ASSUME NEW c \in Client, ReadText(c) PROVE Goal
    <2>1. UNCHANGED <<users, run>> /\ lost' \in {lost, TRUE} /\ (UNCHANGED status \/ Terminate(c))
      BY <1>8 DEF ReadText, Continue, server
    <2> QED
      BY <1>a, <2>1 DEF RestTypes, Terminate
  <1>9. ASSUME NEW c \in Client, Restart(c) PROVE Goal
    BY <1>a, <1>9 DEF Restart, server, RestTypes
  <1>10. ASSUME NEW c \in Client, NEW n \in Name, HandlePublicKey(c, n) PROVE Goal
    BY <1>s, <1>10 DEF HandlePublicKey, server
  <1>x. ASSUME NEW c, NEW u, NEW m, Exchange(c, u, m)
        PROVE  users' = users /\ lost' \in {lost, TRUE}
    BY <1>x DEF Exchange, Fails
  <1>11. ASSUME NEW c \in Client, NEW n \in Name,
                \/ HandleRequestSymKey(c, n) \/ HandleSendSymKey(c, n) \/ HandleSendMessage(c, n)
         PROVE  Goal
    <2>1. UNCHANGED <<status, run>> /\ \E u, m : Exchange(c, u, m)
      BY <1>11 DEF HandleRequestSymKey, HandleSendSymKey, HandleSendMessage, program
    <2> QED
      BY <1>s, <1>x, <2>1
  <1>12. ASSUME NEW r \in late, LateRequest(r) PROVE Goal
    BY <1>s, <1>12 DEF LateRequest, program
  <1>13. ASSUME ServerRestart PROVE Goal
    BY <1>a, <1>13 DEF ServerRestart, program, RestTypes
  <1>14. ASSUME UNCHANGED vars PROVE Goal
    BY <1>s, <1>14 DEF vars, server, program
  <1> HIDE DEF Goal
  <1>15. Goal
    BY <1>1, <1>2, <1>3, <1>4, <1>5, <1>6, <1>7, <1>8, <1>9, <1>10, <1>11, <1>12, <1>13,
       <1>14 DEF Next
  <1> QED
    BY <1>15 DEF Goal

(* Every step keeps the types.                                             *)
LEMMA ClientTypeStep ==
  ASSUME KInv, [Next]_vars
  PROVE  TypeOK' /\ MemoryOK'
  <1>1. RestTypes' /\ MailTypes' /\ MemoryOK' /\ \A v \in Client : MemoryAfter(v)
    BY RestStep, MailStep, MemoryStep DEF KInv
  <1>2. \A v \in Client : known(v)' \subseteq Name /\ friends'[v] \in [known(v)' -> Friend]
    BY <1>1 DEF MemoryAfter
  <1> QED
    BY <1>1, <1>2 DEF RestTypes, MailTypes, TypeOK

(* A key that its maker keeps is kept for as long as the maker's program   *)
(* runs.                                                                   *)
LEMMA KeptStays ==
  ASSUME KInv, [Next]_vars, NEW k \in SymKey, Kept(k)
  PROVE  Kept(k)'
  <1>1. k.maker \in Client /\ k.run \in Nat
    BY DEF SymKey
  <1>2. PICK v \in Client : v = k.maker
    BY <1>1
  <1>3. run[v] \in Nat
    BY <1>2 DEF KInv, TypeOK
  <1>4. k # NoKey
    BY KeyAssumption
  <1>5. CASE Remembers(v)
    <2>1. HoldsFor(v, k.peer, k) => HoldsFor(v, k.peer, k)'
      BY <1>4, <1>5 DEF Remembers, HoldsFor, NamesFor, HasSym
    <2> QED
      BY <1>2, <1>5, <2>1 DEF Kept, Remembers
  <1>6. CASE Forgets(v)
    BY <1>1, <1>2, <1>3, <1>6 DEF Kept, Forgets
  <1> QED
    BY <1>5, <1>6, MemoryStep DEF MemoryAfter

(* A key that two clients share stays theirs.                              *)
LEMMA SharedStays ==
  ASSUME KInv, [Next]_vars, NEW k, NEW c, NEW d, Shared(k, c, d)
  PROVE  Shared(k, c, d)'
  BY KeptStays DEF Shared

(* Every step keeps what is said of friends.                               *)
LEMMA FriendStep ==
  ASSUME KInv, [Next]_vars, NEW c \in Client, NEW n \in known(c)'
  PROVE  FriendInv(c, n)'
  <1>1. TypeOK /\ TypeOK' /\ friends'[c][n] \in Friend
    BY ClientTypeStep DEF KInv, TypeOK
  <1>2. PICK g \in Friend : g = friends'[c][n]
    BY <1>1
  <1>3. SUFFICES /\ NameOf[g.uuid] = n
                 /\ g.public \in {NoKey, g.uuid}
                 /\ HasSym(g) => Shared(g.symkey, c, g.uuid)'
    BY <1>2 DEF FriendInv, HasSym
  <1>4. ASSUME n \in known(c)
        PROVE  \E f \in Friend :
                 /\ f = friends[c][n] /\ NameOf[f.uuid] = n
                 /\ f.public \in {NoKey, f.uuid}
                 /\ HasSym(f) => Shared(f.symkey, c, f.uuid)
    <2>1. friends[c][n] \in Friend
      BY <1>1, <1>4, FriendsTyped
    <2>2. FriendInv(c, n)
      BY <1>4 DEF KInv
    <2> QED
      BY <2>1, <2>2 DEF FriendInv
  <1>5. CASE n \in known(c) /\ friends'[c][n] = friends[c][n]
    BY <1>2, <1>4, <1>5, SharedStays
  <1>6. CASE \E u \in Registered : u \in Client /\ NameOf[u] = n /\ friends'[c][n] = NewFriend(u)
    BY <1>2, <1>6 DEF NewFriend, HasSym
  <1>7. CASE n \in known(c) /\ friends'[c][n] = SetPublicKey(friends[c][n], friends[c][n].uuid)
    <2>1. PICK f \in Friend : /\ f = friends[c][n] /\ NameOf[f.uuid] = n
                              /\ f.public \in {NoKey, f.uuid}
                              /\ HasSym(f) => Shared(f.symkey, c, f.uuid)
      BY <1>4, <1>7
    <2>2. g.uuid = f.uuid /\ g.symkey = f.symkey /\ g.public \in {f.public, f.uuid}
      BY <1>2, <1>7, <2>1, SetPublicKeyKeeps
    <2> QED
      BY <2>1, <2>2, SharedStays DEF HasSym
  <1>8. CASE n \in known(c) /\ run'[c] = run[c] /\ friends'[c][n] = WithSymKey(c, friends[c][n])
    <2>1. PICK f \in Friend : /\ f = friends[c][n] /\ NameOf[f.uuid] = n
                              /\ f.public \in {NoKey, f.uuid}
                              /\ HasSym(f) => Shared(f.symkey, c, f.uuid)
      BY <1>4, <1>8
    <2>2. /\ g.uuid = f.uuid /\ g.public = f.public /\ g.symkey \in SymKey /\ HasSym(g)
          /\ g.symkey = IF HasSym(f) THEN f.symkey ELSE Generated(c, f)
      BY <1>1, <1>2, <1>8, <2>1, WithSymKeyKeeps
    <2>3. CASE HasSym(f)
      BY <2>1, <2>2, <2>3, SharedStays
    <2>4. CASE ~HasSym(f)
      <3>1. PICK k : k = g.symkey
        OBVIOUS
      <3>2. k \in SymKey /\ k.maker = c /\ k.peer = g.uuid /\ k.run = run'[c]
        BY <1>1, <1>8, <2>1, <2>2, <2>4, <3>1, GeneratedIs
      <3>3. run'[c] \in Nat
        BY <1>1 DEF TypeOK
      <3>4. HoldsFor(c, g.uuid, k)'
        BY <1>2, <3>1 DEF HoldsFor, NamesFor
      <3>5. Kept(k)'
        BY <3>2, <3>3, <3>4 DEF Kept
      <3>6. Shared(k, c, g.uuid)'
        BY <3>2, <3>5 DEF Shared, Between
      <3> QED
        BY <2>1, <2>2, <3>1, <3>6
    <2> QED
      BY <2>3, <2>4
  <1>9. CASE /\ n \in known(c)
             /\ \E m \in Message :
                  /\ Mailed(c, m) /\ m.type = SendSK /\ m.sender = friends[c][n].uuid
                  /\ friends'[c][n] = SetSymKey(friends[c][n], m.key)
    <2>1. PICK f \in Friend : /\ f = friends[c][n] /\ NameOf[f.uuid] = n
                              /\ f.public \in {NoKey, f.uuid}
                              /\ HasSym(f) => Shared(f.symkey, c, f.uuid)
      BY <1>4, <1>9
    <2>2. PICK m \in Message : /\ Mailed(c, m) /\ m.type = SendSK /\ m.sender = f.uuid
                               /\ g = SetSymKey(f, m.key)
      BY <1>2, <1>9, <2>1
    <2>3. Shared(m.key, c, f.uuid)
      BY <2>2 DEF KInv, MailInv, SendSK, GetSK
    <2>4. m.key \in SymKey
      BY <2>3 DEF Shared
    <2>5. /\ g.uuid = f.uuid /\ g.public = f.public
          /\ g.symkey = IF HasSym(f) THEN f.symkey ELSE m.key
      BY <2>2, <2>4, SetSymKeyKeeps
    <2> QED
      BY <2>1, <2>3, <2>5, SharedStays DEF HasSym
  <1>10. Learned(c, n)
    BY MemoryStep DEF MemoryAfter
  <1> QED
    BY <1>5, <1>6, <1>7, <1>8, <1>9, <1>10 DEF Learned

(* Every step keeps what is said of mail.                                  *)
LEMMA SentInv ==
  ASSUME KInv, [Next]_vars, NEW u \in Client, NEW m \in Message, Mailed(u, m)'
  PROVE  MailInv(u, m)'
  <1>1. CASE Mailed(u, m)
    BY <1>1, SharedStays DEF KInv, MailInv
  <1>2. CASE \E c \in Client, n \in Name : Sent(c, n, u, m)
    <2>1. PICK c \in Client, n \in Name : Sent(c, n, u, m)
      BY <1>2
    <2>2. FriendInv(c, n)'
      BY <2>1, FriendStep DEF Sent
    <2>3. PICK f : f = friends'[c][n]
      OBVIOUS
    <2>4. /\ f.uuid = u /\ m.sender = c
          /\ m.type # GetSK => HasSym(f) /\ m.key = f.symkey
          /\ m.type = SendSK => m.cipher_for = f.public /\ m.cipher_for # NoKey
      BY <2>1, <2>3 DEF Sent
    <2>5. /\ f.public \in {NoKey, f.uuid}
          /\ HasSym(f) => Shared(f.symkey, c, u)'
      BY <2>2, <2>3, <2>4 DEF FriendInv, HasSym
    <2>6. m.type # GetSK => Shared(m.key, u, m.sender)'
      BY <2>4, <2>5 DEF Shared, Between
    <2> QED
      BY <2>4, <2>5, <2>6 DEF MailInv
  <1> QED
    BY <1>1, <1>2, MailStep DEF MailAfter

(* The inductive invariant holds in every reachable state.                 *)
LEMMA KInvariance == Spec => []KInv
  <1>1. KInv /\ [Next]_vars => KInv'
    BY ClientTypeStep, FriendStep, SentInv DEF KInv
  <1> QED
    BY KInit, <1>1, PTL DEF Spec
-----------------------------------------------------------------------------
(* Every variable always holds a value of its type.                        *)
THEOREM ClientTypes == Spec => []TypeOK
  <1>1. KInv => TypeOK
    BY DEF KInv
  <1> QED
    BY <1>1, KInvariance, PTL

(* HandleSendSymKey asks for a public key under a name and may meet two    *)
(* users of that name, yet the key that waits for a client was encrypted   *)
(* with the public key of that client: RSA decryption never throws.        *)
THEOREM WaitingKeysReadable == Spec => []KeysReadable
  <1>1. ASSUME KInv PROVE KeysReadable
    <2> SUFFICES ASSUME NEW c \in Client, NEW i \in DOMAIN Waiting(c),
                        Waiting(c)[i].type = SendSK
                 PROVE  Waiting(c)[i].cipher_for = c
      BY DEF KeysReadable
    <2>1. batch[c] \in Seq(Message) /\ inbox[c] \in Seq(Message)
      BY <1>1 DEF KInv, TypeOK
    <2>2. \/ \E j \in DOMAIN batch[c] : Waiting(c)[i] = batch[c][j]
          \/ \E j \in DOMAIN inbox[c] : Waiting(c)[i] = inbox[c][j]
      <3>1. PICK s \in Seq(Message), t \in Seq(Message) : s = batch[c] /\ t = inbox[c]
        BY <2>1
      <3>2. i \in DOMAIN (s \o t) /\ Waiting(c)[i] = (s \o t)[i]
        BY <3>1 DEF Waiting
      <3>3. \/ \E j \in DOMAIN s : (s \o t)[i] = s[j]
            \/ \E j \in DOMAIN t : (s \o t)[i] = t[j]
        BY <3>2, ElementOf
      <3> QED
        BY ONLY <3>1, <3>2, <3>3
    <2>3. Waiting(c)[i] \in Message /\ Mailed(c, Waiting(c)[i])
      BY <2>1, <2>2 DEF Mailed
    <2> QED
      BY <1>1, <2>3 DEF KInv, MailInv
  <1> QED
    BY <1>1, KInvariance, PTL

(* Whatever GetSymKey generates and SetSymKey takes over, a symmetric key  *)
(* is held by the two clients it was made for only, each for the other.    *)
THEOREM KeysPaired == Spec => []KeyPairing
  <1>1. KInv => KeyPairing
    BY DEF KInv, FriendInv, KeyPairing, Shared, Between
  <1> QED
    BY <1>1, KInvariance, PTL

(* A friend whose key a client took over holds that key for the client as  *)
(* long as its program runs: SetSymKey and GetSymKey replace none.         *)
THEOREM FriendsAgree == Spec => []Agreement
  <1>1. ASSUME KInv PROVE Agreement
    <2> SUFFICES ASSUME NEW c \in Client, NEW n \in known(c),
                        HasSym(friends[c][n]),
                        friends[c][n].symkey.maker = friends[c][n].uuid,
                        status[friends[c][n].uuid] # "crashed",
                        friends[c][n].symkey.run = run[friends[c][n].uuid]
                 PROVE  HoldsFor(friends[c][n].uuid, c, friends[c][n].symkey)
      BY DEF Agreement
    <2>1. Shared(friends[c][n].symkey, c, friends[c][n].uuid)
      BY <1>1 DEF KInv, FriendInv
    <2>2. friends[c][n].symkey.peer = c
      BY <2>1 DEF Shared, Between
    <2> QED
      BY <2>1, <2>2 DEF Shared, Kept
  <1> QED
    BY <1>1, KInvariance, PTL
=============================================================================
