------------------------- MODULE RegistrationProofs -------------------------
(***************************************************************************)
(* What Registration guarantees for every set of clients, names,           *)
(* identifiers and keys, whatever is stopped, lost, late or restarted: the *)
(* identity of a client, in memory and in me.info, is its own.             *)
(***************************************************************************)
EXTENDS Registration, TLAPS

-----------------------------------------------------------------------------
(* The inductive invariant.                                                *)

(* Client c goes by identifier u: its program runs with it, or its me.info *)
(* holds it, whole or not.                                                 *)
GoesBy(c, u) == (isInit[c] /\ uuid[c] = u) \/ (file[c].lines >= 2 /\ file[c].uuid = u)

(* An unregistered client has no identifier, and no name or key unless it  *)
(* waits for an answer; only a client without a me.info may register.      *)
ProcessOf(c) ==
  /\ ~isInit[c] => uuid[c] = NoUuid
  /\ ~isInit[c] /\ process[c] # "registering" => name[c] = NoName /\ privateKey[c] = NoKey
  /\ process[c] = "registering" => ~isInit[c] /\ ~exists[c]
  /\ process[c] \in {"down", "failed"} => ~isInit[c]
  /\ process[c] = "writing" => isInit[c] /\ exists[c]
  /\ process[c] = "menu" /\ ~isInit[c] => ~exists[c]
  /\ ~exists[c] => file[c] = EmptyFile

ProcessInv == \A c \in Client : ProcessOf(c)

(* The request that is under way for a client's key has the client's name. *)
RequestInv ==
  \A c \in Client : process[c] = "registering" => \A r \in Own(c) : r.name = name[c]

(* An identifier is given out before anybody goes by it, and to one client.*)
IssuedInv ==
  /\ registered \subseteq issued
  /\ \A c \in Client : \A u \in UUID \cup {NoUuid} : GoesBy(c, u) => u \in issued
  /\ \A c, d \in Client, u \in UUID \cup {NoUuid} : GoesBy(c, u) /\ GoesBy(d, u) => c = d

RInv ==
  /\ TypeOK
  /\ ProcessInv
  /\ RequestInv
  /\ IssuedInv
  /\ OwnIdentity
  /\ Remembered
-----------------------------------------------------------------------------
(* What one more line of me.info holds.                                    *)
LEMMA NextLineWrites ==
  ASSUME TypeOK, NEW c \in Client, ~Complete(c)
  PROVE  /\ NextLine(c) \in MeInfo
         /\ NextLine(c).lines = file[c].lines + 1
         /\ NextLine(c).name = IF file[c].lines = 0 THEN name[c] ELSE file[c].name
         /\ NextLine(c).uuid = IF file[c].lines = 1 THEN uuid[c] ELSE file[c].uuid
         /\ NextLine(c).key = IF file[c].lines = 2 THEN privateKey[c] ELSE file[c].key
  <1> DEFINE f == file[c]
  <1>1. f \in MeInfo /\ f.lines \in {0, 1, 2}
    BY DEF TypeOK, MeInfo, Complete, LINES
  <1>2. CASE f.lines = 0
    <2>1. NextLine(c) = [f EXCEPT !.lines = 1, !.name = name[c]]
      BY <1>2 DEF NextLine
    <2>2. NextLine(c) = [lines |-> 1, name |-> name[c], uuid |-> f.uuid, key |-> f.key]
      BY <1>1, <2>1 DEF MeInfo
    <2>3. NextLine(c) \in MeInfo
      BY <1>1, <2>2 DEF MeInfo, LINES, TypeOK
    <2> QED
      BY <1>2, <2>2, <2>3
  <1>3. CASE f.lines = 1
    <2>1. NextLine(c) = [f EXCEPT !.lines = 2, !.uuid = uuid[c]]
      BY <1>3 DEF NextLine
    <2>2. NextLine(c) = [lines |-> 2, name |-> f.name, uuid |-> uuid[c], key |-> f.key]
      BY <1>1, <2>1 DEF MeInfo
    <2>3. NextLine(c) \in MeInfo
      BY <1>1, <2>2 DEF MeInfo, LINES, TypeOK
    <2> QED
      BY <1>3, <2>2, <2>3
  <1>4. CASE f.lines = 2
    <2>1. NextLine(c) = [f EXCEPT !.lines = 3, !.key = privateKey[c]]
      BY <1>4 DEF NextLine
    <2>2. NextLine(c) = [lines |-> 3, name |-> f.name, uuid |-> f.uuid, key |-> privateKey[c]]
      BY <1>1, <2>1 DEF MeInfo
    <2>3. NextLine(c) \in MeInfo
      BY <1>1, <2>2 DEF MeInfo, LINES, TypeOK
    <2> QED
      BY <1>4, <2>2, <2>3
  <1> QED
    BY <1>1, <1>2, <1>3, <1>4

(* A new user gets an identifier of its own, and the others keep theirs.   *)
LEMMA AddsOne ==
  ASSUME TypeOK, registered \subseteq issued, NEW u, NEW n \in Name, NEW k \in Key,
         AddUser(u, n, k)
  PROVE  /\ u \in UUID \ issued
         /\ registered' = registered \cup {u} /\ issued' = issued \cup {u}
         /\ users' \in [registered' -> User]
         /\ registered' \subseteq UUID /\ issued' \subseteq UUID
         /\ users'[u] = [name |-> n, public_key |-> k]
         /\ \A v \in issued : (v \in registered' <=> v \in registered)
         /\ \A v \in registered : users'[v] = users[v]
  BY DEF AddUser, FreshUuid, registered, TypeOK, User

(* The same, of a request.                                                 *)
LEMMA AddsOfRequest ==
  ASSUME RInv, NEW r, NEW u, Adds(r, u)
  PROVE  /\ r \in pending /\ r.name \in Name /\ r.public_key \in Key
         /\ AddUser(u, r.name, r.public_key)
         /\ pending' = pending \ {r}
  BY DEF RInv, TypeOK, Adds, Request

(* And the types stay.                                                     *)
LEMMA AddsTypes ==
  ASSUME RInv, NEW r, NEW u, Adds(r, u)
  PROVE  /\ registered' \subseteq UUID /\ issued' \subseteq UUID
         /\ users' \in [registered' -> User] /\ pending' \subseteq Request
  <1>1. PICK n \in Name, k \in Key : AddUser(u, n, k)
    BY AddsOfRequest
  <1>2. TypeOK /\ registered \subseteq issued
    BY DEF RInv, IssuedInv
  <1>3. pending' \subseteq Request
    BY AddsOfRequest DEF RInv, TypeOK
  <1> QED
    BY <1>1, <1>2, <1>3, AddsOne

(* What a step does to one client, and to no other.                        *)
LEMMA BecomeAt ==
  ASSUME TypeOK, NEW c \in Client, NEW state, Become(c, state)
  PROVE  process'[c] = state /\ \A d \in Client \ {c} : process'[d] = process[d]
  BY DEF TypeOK, Become

(* Clients start without files, the server without users.                  *)
LEMMA RInit == Init => RInv
  <1> SUFFICES ASSUME Init PROVE RInv
    OBVIOUS
  <1> USE DEF Init
  <1>1. registered = {}
    BY DEF registered
  <1>2. EmptyFile \in MeInfo /\ EmptyFile.lines = 0
    BY DEF EmptyFile, MeInfo, LINES
  <1>3. TypeOK
    BY <1>1, <1>2 DEF TypeOK, registered
  <1>4. ProcessInv /\ RequestInv
    BY DEF ProcessInv, ProcessOf, RequestInv
  <1>5. IssuedInv /\ OwnIdentity /\ Remembered
    BY <1>1, <1>2 DEF IssuedInv, GoesBy, OwnIdentity, Complete, LINES, Remembered
  <1> QED
    BY <1>3, <1>4, <1>5 DEF RInv

(* The types are preserved.                                                *)
LEMMA TypeStep ==
  ASSUME RInv, [Next]_vars
  PROVE  TypeOK'
  <1> USE DEF RInv, TypeOK, memory, disk, server, Remember, Forget, CleanUp, Become, Request
  <1>F. \A c \in Client : /\ file[c].name \in Name \cup {NoName}
                          /\ file[c].uuid \in UUID \cup {NoUuid}
                          /\ file[c].key \in Key \cup {NoKey}
    BY DEF MeInfo
  <1>E. EmptyFile \in MeInfo
    BY DEF EmptyFile, MeInfo, LINES
  <1>1. ASSUME NEW c \in Client, Start(c) PROVE TypeOK'
    BY <1>1, <1>F DEF Start, registered
  <1>2. ASSUME NEW c \in Client, Stop(c) PROVE TypeOK'
    BY <1>2 DEF Stop, registered
  <1>3. ASSUME NEW c \in Client, RegisterFails(c) PROVE TypeOK'
    BY <1>3 DEF RegisterFails, registered
  <1>4. ASSUME NEW c \in Client, WriteLine(c) PROVE TypeOK'
    <2>1. NextLine(c) \in MeInfo
      BY <1>4, NextLineWrites DEF WriteLine
    <2> QED
      BY <1>4, <2>1 DEF WriteLine, registered
  <1>5. ASSUME NEW c \in Client, EndWrite(c) PROVE TypeOK'
    BY <1>5 DEF EndWrite, registered
  <1>6. ASSUME NEW c \in Client, NEW n \in Name, Ask(c, n) PROVE TypeOK'
    <2>1. PICK k \in FreshKey :
            /\ privateKey' = [privateKey EXCEPT ![c] = k]
            /\ pending' = pending \cup {[name |-> n, public_key |-> k, checked |-> FALSE]}
      BY <1>6 DEF Ask
    <2>2. k \in Key
      BY DEF FreshKey
    <2>3. [name |-> n, public_key |-> k, checked |-> FALSE] \in Request
      BY ONLY <2>2 DEF Request
    <2>4. pending' \subseteq Request /\ privateKey' \in [Client -> Key \cup {NoKey}]
      <3> HIDE DEF Request
      <3> QED
        BY <2>1, <2>2, <2>3
    <2> QED
      BY <1>6, <2>4 DEF Ask, registered
  <1>7. ASSUME NEW r \in pending, CheckName(r) PROVE TypeOK'
    <2>1. [r EXCEPT !.checked = TRUE] \in Request
      OBVIOUS
    <2>2. pending' \subseteq Request
      BY <1>7, <2>1 DEF CheckName
    <2> QED
      BY <1>7, <2>2 DEF CheckName, registered
  <1>8. ASSUME NEW c \in Client, Answered(c) PROVE TypeOK'
    <2>1. PICK r \in Own(c), u \in UUID :
            /\ Adds(r, u)
            /\ IF Refuses(c) THEN Become(c, "menu") /\ CleanUp(c) /\ UNCHANGED disk
                             ELSE Enroll(c, u)
      BY <1>8 DEF Answered
    <2>2. /\ registered' \subseteq UUID /\ issued' \subseteq UUID
          /\ users' \in [registered' -> User] /\ pending' \subseteq Request
      BY <2>1, AddsTypes
    <2>3. CASE Refuses(c)
      BY <2>1, <2>2, <2>3
    <2>4. CASE ~Refuses(c)
      <3>1. Enroll(c, u)
        BY <2>1, <2>4
      <3> QED
        BY <2>2, <3>1, <1>E DEF Enroll
    <2> QED
      BY <2>3, <2>4
  <1>9. ASSUME NEW r \in pending, AddUnheard(r) PROVE TypeOK'
    <2>1. PICK u \in UUID : Adds(r, u)
      BY <1>9 DEF AddUnheard
    <2>2. /\ registered' \subseteq UUID /\ issued' \subseteq UUID
          /\ users' \in [registered' -> User] /\ pending' \subseteq Request
      BY <2>1, AddsTypes
    <2> QED
      BY <1>9, <2>2 DEF AddUnheard
  <1>10. CASE ServerRestart
    BY <1>10 DEF ServerRestart, registered
  <1>11. CASE UNCHANGED vars
    BY <1>11 DEF vars, registered
  <1> QED
    BY <1>1, <1>2, <1>3, <1>4, <1>5, <1>6, <1>7, <1>8, <1>9, <1>10, <1>11 DEF Next

-----------------------------------------------------------------------------
(* What a step is to a client.                                             *)

Same(c) == /\ isInit'[c] <=> isInit[c]
           /\ name'[c] = name[c]
           /\ uuid'[c] = uuid[c] /\ privateKey'[c] = privateKey[c]

Holds(c, n, u, k) == isInit'[c] /\ name'[c] = n /\ uuid'[c] = u /\ privateKey'[c] = k

SameFile(c) == file'[c] = file[c] /\ (exists'[c] <=> exists[c])

(* Nothing, or the end of its writing.                                     *)
Untouched(c) ==
  /\ Same(c) /\ SameFile(c)
  /\ process'[c] = process[c] \/ (process[c] = "writing" /\ process'[c] = "menu")

(* It forgets what it held.                                                *)
Cleared(c) ==
  /\ ~isInit'[c] /\ name'[c] = NoName /\ uuid'[c] = NoUuid /\ privateKey'[c] = NoKey
  /\ SameFile(c)
  /\ process'[c] \in {"down", "failed"} \/ (process'[c] = "menu" /\ ~exists[c])

(* It takes its identity from me.info.                                     *)
Loaded(c) ==
  /\ exists[c] /\ Complete(c)
  /\ Holds(c, file[c].name, file[c].uuid, file[c].key)
  /\ SameFile(c) /\ process'[c] = "menu"

(* It asks for an identity.                                                *)
Asked(c) ==
  /\ process[c] = "menu" /\ process'[c] = "registering"
  /\ ~exists[c] /\ SameFile(c)
  /\ ~isInit[c] /\ ~isInit'[c] /\ uuid'[c] = uuid[c]

(* It gets an identity from the server, and may open me.info.              *)
Enrolled(c) ==
  /\ process[c] = "registering" /\ ~exists[c]
  /\ \E n \in Name, u \in UUID, k \in Key : AddUser(u, n, k) /\ Holds(c, n, u, k)
  /\ file'[c] = EmptyFile
  /\ (exists'[c] /\ process'[c] = "writing") \/ (~exists'[c] /\ process'[c] = "menu")

(* It writes a line.                                                       *)
Wrote(c) ==
  /\ process[c] = "writing" /\ process'[c] = "writing"
  /\ Same(c) /\ (exists'[c] <=> exists[c])
  /\ ~Complete(c) /\ file'[c] = NextLine(c)

(* A program that ends forgets, the others do not.                         *)
LEMMA ForgetAt ==
  ASSUME TypeOK, NEW c \in Client, Forget(c)
  PROVE  /\ ~isInit'[c] /\ name'[c] = NoName /\ uuid'[c] = NoUuid /\ privateKey'[c] = NoKey
         /\ \A d \in Client \ {c} : Same(d)
  BY DEF TypeOK, Forget, Remember, Same

(* A program that is told an identity holds it.                            *)
LEMMA HoldAt ==
  ASSUME TypeOK, NEW c \in Client, NEW n, NEW u, NEW k, Remember(c, TRUE, n, u, k)
  PROVE  Holds(c, n, u, k) /\ \A d \in Client \ {c} : Same(d)
  BY DEF TypeOK, Remember, Same, Holds

(* A step is one of these to the client it is of, and nothing to the       *)
(* others: what the actions of Registration come to.                       *)
LEMMA StepOfOne ==
  ASSUME RInv, [Next]_vars
  PROVE  \/ \A d \in Client : Untouched(d)
         \/ \E c \in Client :
              /\ \A d \in Client \ {c} : Untouched(d)
              /\ \/ Cleared(c) \/ Loaded(c) \/ Asked(c) \/ Enrolled(c) \/ Wrote(c)
                 \/ Untouched(c)
  <1> DEFINE Others(c) == \A d \in Client \ {c} : Untouched(d)
             Acts(c) == \/ Untouched(c) \/ Cleared(c) \/ Loaded(c)
                        \/ Asked(c) \/ Enrolled(c) \/ Wrote(c)
  <1> USE DEF RInv, SameFile
  <1>U. ASSUME NEW c \in Client, process[c] = "registering"
        PROVE  ~exists[c] /\ ~isInit[c] /\ uuid[c] = NoUuid /\ file[c] = EmptyFile
    BY <1>U DEF ProcessInv, ProcessOf
  <1>1. ASSUME NEW c \in Client, Start(c) PROVE Others(c) /\ Acts(c)
    <2>1. UNCHANGED disk
      BY <1>1 DEF Start
    <2>2. CASE ~exists[c] /\ Become(c, "menu") /\ Forget(c)
      <3>1. Others(c)
        BY <2>1, <2>2, BecomeAt, ForgetAt DEF Untouched, disk
      <3>2. Cleared(c)
        BY <2>1, <2>2, BecomeAt, ForgetAt DEF Cleared, disk
      <3> QED
        BY <3>1, <3>2
    <2>3. CASE /\ exists[c] /\ Complete(c) /\ Become(c, "menu")
               /\ Remember(c, TRUE, file[c].name, file[c].uuid, file[c].key)
      <3>1. Others(c)
        BY <2>1, <2>3, BecomeAt, HoldAt DEF Untouched, disk
      <3>2. Loaded(c)
        BY <2>1, <2>3, BecomeAt, HoldAt DEF Loaded, disk
      <3> QED
        BY <3>1, <3>2
    <2>4. CASE exists[c] /\ ~Complete(c) /\ Become(c, "failed") /\ Forget(c)
      <3>1. Others(c)
        BY <2>1, <2>4, BecomeAt, ForgetAt DEF Untouched, disk
      <3>2. Cleared(c)
        BY <2>1, <2>4, BecomeAt, ForgetAt DEF Cleared, disk
      <3> QED
        BY <3>1, <3>2
    <2> QED
      BY <1>1, <2>2, <2>3, <2>4 DEF Start
  <1>2. ASSUME NEW c \in Client, Stop(c) PROVE Others(c) /\ Acts(c)
    <2>1. Others(c)
      BY <1>2, BecomeAt, ForgetAt DEF Stop, Untouched, disk
    <2>2. Cleared(c)
      BY <1>2, BecomeAt, ForgetAt DEF Stop, Cleared, disk
    <2> QED
      BY <2>1, <2>2
  <1>3. ASSUME NEW c \in Client, process[c] = "registering", CleanUp(c), Become(c, "menu"),
               UNCHANGED disk
        PROVE  Others(c) /\ Acts(c)
    <2>1. /\ name'[c] = NoName /\ privateKey'[c] = NoKey /\ UNCHANGED <<isInit, uuid>>
          /\ \A d \in Client \ {c} : Same(d)
      BY <1>3 DEF CleanUp, Same, TypeOK
    <2>2. Others(c)
      BY <1>3, <2>1, BecomeAt DEF Untouched, disk
    <2>3. Cleared(c)
      BY <1>3, <1>U, <2>1, BecomeAt DEF Cleared, disk
    <2> QED
      BY <2>2, <2>3
  <1>4. ASSUME NEW c \in Client, WriteLine(c) PROVE Others(c) /\ Acts(c)
    <2>1. Others(c)
      BY <1>4 DEF WriteLine, Untouched, Same, memory, TypeOK
    <2>2. Wrote(c)
      BY <1>4 DEF WriteLine, Wrote, Same, memory, TypeOK
    <2> QED
      BY <2>1, <2>2
  <1>5. ASSUME NEW c \in Client, EndWrite(c) PROVE Others(c) /\ Acts(c)
    <2>1. Others(c) /\ Untouched(c)
      BY <1>5, BecomeAt DEF EndWrite, Untouched, Same, memory, disk
    <2> QED
      BY <2>1
  <1>6. ASSUME NEW c \in Client, Answered(c) PROVE Others(c) /\ Acts(c)
    <2>1. PICK u \in UUID : \E r \in Own(c) : Adds(r, u) /\ ~Refuses(c) /\ Enroll(c, u)
      BY <1>6, <1>U DEF Answered, Refuses
    <2>2. process[c] = "registering"
      BY <1>6 DEF Answered
    <2>3. AddUser(u, name[c], privateKey[c]) /\ name[c] \in Name /\ privateKey[c] \in Key
      BY <2>1, <2>2, AddsOfRequest DEF RequestInv, Own
    <2>4. /\ \A d \in Client \ {c} : Same(d)
          /\ Holds(c, name[c], u, privateKey[c])
      BY <2>1 DEF Enroll, Same, Holds, TypeOK
    <2>5. CASE Become(c, "menu") /\ UNCHANGED disk
      <3>1. Others(c)
        BY <2>4, <2>5, BecomeAt DEF Untouched, disk
      <3>2. Enrolled(c)
        BY <1>U, <2>2, <2>3, <2>4, <2>5, BecomeAt DEF Enrolled, disk
      <3> QED
        BY <3>1, <3>2
    <2>6. CASE /\ Become(c, "writing") /\ file' = [file EXCEPT ![c] = EmptyFile]
               /\ exists' = [exists EXCEPT ![c] = TRUE]
      <3>1. /\ process'[c] = "writing" /\ file'[c] = EmptyFile /\ exists'[c]
            /\ \A d \in Client \ {c} : process'[d] = process[d] /\ SameFile(d)
        BY <2>6, BecomeAt DEF TypeOK
      <3>2. Others(c)
        BY <2>4, <3>1 DEF Untouched
      <3>3. Enrolled(c)
        BY <1>U, <2>2, <2>3, <2>4, <3>1 DEF Enrolled
      <3> QED
        BY <3>2, <3>3
    <2> QED
      BY <2>1, <2>5, <2>6 DEF Enroll
  <1>7. ASSUME NEW c \in Client, NEW n \in Name, Ask(c, n) PROVE Others(c) /\ Acts(c)
    <2>1. /\ UNCHANGED <<isInit, uuid, disk>>
          /\ \A d \in Client \ {c} : Same(d)
      BY <1>7 DEF Ask, Same, TypeOK
    <2>2. Others(c)
      BY <1>7, <2>1, BecomeAt DEF Ask, Untouched, disk
    <2>3. Asked(c)
      BY <1>7, <2>1, BecomeAt DEF Ask, MayRegister, Asked, disk, ProcessInv, ProcessOf
    <2> QED
      BY <2>2, <2>3
  <1>8. ASSUME NEW c \in Client, RegisterFails(c) PROVE Others(c) /\ Acts(c)
    BY <1>3, <1>8 DEF RegisterFails
  <1>9. ASSUME NEW r \in pending, CheckName(r) \/ AddUnheard(r)
        PROVE  \A d \in Client : Untouched(d)
    BY <1>9 DEF CheckName, AddUnheard, Untouched, Same, memory, disk
  <1>10. ASSUME ServerRestart \/ UNCHANGED vars PROVE \A d \in Client : Untouched(d)
    BY <1>10 DEF ServerRestart, vars, Untouched, Same, memory, disk
  <1> HIDE DEF RInv
  <1> QED
    BY <1>1, <1>2, <1>4, <1>5, <1>6, <1>7, <1>8, <1>9, <1>10 DEF Next

(* Every step is one of six things to a client.                            *)
LEMMA StepOf ==
  ASSUME RInv, [Next]_vars, NEW c \in Client
  PROVE  Untouched(c) \/ Cleared(c) \/ Loaded(c) \/ Asked(c) \/ Enrolled(c) \/ Wrote(c)
  BY StepOfOne

(* What a step is to the server: nothing, a restart, or one more user.     *)
LEMMA StepOfServer ==
  ASSUME RInv, [Next]_vars
  PROVE  \/ users' = users /\ issued' = issued
         \/ registered' = {} /\ issued' = issued
         \/ \E u \in UUID, n \in Name, k \in Key : AddUser(u, n, k)
  <1> USE DEF server
  <1>1. ASSUME NEW r, NEW u \in UUID, Adds(r, u)
        PROVE  \E n \in Name, k \in Key : AddUser(u, n, k)
    BY <1>1, AddsOfRequest
  <1>2. ASSUME NEW r \in pending, CheckName(r) PROVE users' = users /\ issued' = issued
    BY <1>2 DEF CheckName
  <1>3. ASSUME ServerRestart PROVE registered' = {} /\ issued' = issued
    BY <1>3 DEF ServerRestart, registered
  <1>4. ASSUME NEW c \in Client, NEW n \in Name, Ask(c, n)
        PROVE  users' = users /\ issued' = issued
    BY <1>4 DEF Ask
  <1>5. ASSUME NEW c \in Client,
               Start(c) \/ Stop(c) \/ RegisterFails(c) \/ WriteLine(c) \/ EndWrite(c)
        PROVE  users' = users /\ issued' = issued
    BY <1>5 DEF Start, Stop, RegisterFails, WriteLine, EndWrite
  <1>6. UNCHANGED vars => users' = users /\ issued' = issued
    BY DEF vars
  <1>7. ASSUME NEW c \in Client, Answered(c)
        PROVE  \E u \in UUID, n \in Name, k \in Key : AddUser(u, n, k)
    BY <1>1, <1>7 DEF Answered
  <1>8. ASSUME NEW r \in pending, AddUnheard(r)
        PROVE  \E u \in UUID, n \in Name, k \in Key : AddUser(u, n, k)
    BY <1>1, <1>8 DEF AddUnheard
  <1> QED
    BY <1>2, <1>3, <1>4, <1>5, <1>6, <1>7, <1>8 DEF Next

(* A client asks in no step but its own.                                   *)
LEMMA OnlyAskAsks ==
  ASSUME RInv, [Next]_vars, NEW c \in Client, Asked(c)
  PROVE  \E d \in Client, n \in Name : Ask(d, n)
  <1> USE DEF RInv, TypeOK, Become
  <1> SUFFICES ASSUME ~\E d \in Client, n \in Name : Ask(d, n)
               PROVE  process'[c] # "registering" \/ process[c] = "registering"
    BY DEF Asked
  <1>1. ASSUME NEW d \in Client,
               \/ Start(d) \/ Stop(d)
               \/ RegisterFails(d) \/ Answered(d) \/ WriteLine(d) \/ EndWrite(d)
        PROVE  process' = process \/ \E state \in {"down", "failed", "menu", "writing"} :
                                       Become(d, state)
    BY <1>1 DEF Start, Stop, RegisterFails, Answered, Enroll, WriteLine, EndWrite
  <1>2. ASSUME NEW q \in pending, CheckName(q) \/ AddUnheard(q) PROVE process' = process
    BY <1>2 DEF CheckName, AddUnheard
  <1>3. ServerRestart \/ UNCHANGED vars => process' = process
    BY DEF ServerRestart, vars
  <1>4. \/ process' = process
        \/ \E d \in Client, state \in {"down", "failed", "menu", "writing"} : Become(d, state)
    BY <1>1, <1>2, <1>3 DEF Next
  <1> QED
    BY <1>4

(* A request that is under way was so before, checked or not, or has just  *)
(* been sent.                                                              *)
LEMMA RequestFrom ==
  ASSUME RInv, [Next]_vars, NEW r \in pending'
  PROVE  \/ \E q \in pending : q.name = r.name /\ q.public_key = r.public_key
         \/ \E c \in Client, n \in Name : Ask(c, n)
  <1>1. CASE pending' \subseteq pending
    BY <1>1
  <1>2. ASSUME NEW q \in pending, CheckName(q)
        PROVE  \E p \in pending : p.name = r.name /\ p.public_key = r.public_key
    <2>1. q \in Request
      BY DEF RInv, TypeOK
    <2>2. r \in pending \/ r = [q EXCEPT !.checked = TRUE]
      BY <1>2 DEF CheckName
    <2> QED
      BY <2>1, <2>2 DEF Request
  <1>3. ASSUME NEW q \in pending, AddUnheard(q) PROVE pending' \subseteq pending
    BY <1>3 DEF AddUnheard, Adds
  <1>4. ASSUME NEW c \in Client,
               \/ Start(c) \/ Stop(c)
               \/ RegisterFails(c) \/ Answered(c) \/ WriteLine(c) \/ EndWrite(c)
        PROVE  pending' \subseteq pending
    BY <1>4 DEF Start, Stop, RegisterFails, Answered, Adds, WriteLine, EndWrite, server
  <1>5. ServerRestart \/ UNCHANGED vars => pending' \subseteq pending
    BY DEF ServerRestart, vars, server
  <1> QED
    BY <1>1, <1>2, <1>3, <1>4, <1>5 DEF Next

(* A client that waits for an answer waits with the name and key it asked  *)
(* with, and the key is in no other request.                               *)
LEMMA RequestStep ==
  ASSUME RInv, [Next]_vars
  PROVE  RequestInv'
  <1> SUFFICES ASSUME NEW c \in Client, process'[c] = "registering",
                      NEW r \in pending', r.public_key = privateKey'[c]
               PROVE  r.name = name'[c]
    BY DEF RequestInv, Own
  <1>1. RInv /\ RequestInv /\ TypeOK
    BY DEF RInv
  <1>2. ASSUME NEW d \in Client, NEW n \in Name, Ask(d, n) PROVE r.name = name'[c]
    <2>1. PICK k \in FreshKey :
            /\ privateKey' = [privateKey EXCEPT ![d] = k]
            /\ pending' = pending \cup {[name |-> n, public_key |-> k, checked |-> FALSE]}
      BY <1>2 DEF Ask
    <2>2. name' = [name EXCEPT ![d] = n] /\ Become(d, "registering")
      BY <1>2 DEF Ask
    <2>3. /\ \A e \in Client : privateKey[e] # k
          /\ \A q \in pending : q.public_key # k
      BY DEF FreshKey
    <2>4. CASE c = d
      BY <1>1, <2>1, <2>2, <2>3, <2>4 DEF TypeOK
    <2>5. CASE c # d
      <3>1. process[c] = "registering" /\ privateKey'[c] = privateKey[c] /\ name'[c] = name[c]
        BY <1>1, <2>1, <2>2, <2>5, BecomeAt DEF TypeOK
      <3>2. r \in pending
        BY <2>1, <2>3, <3>1
      <3> QED
        BY <1>1, <3>1, <3>2 DEF RequestInv, Own
    <2> QED
      BY <2>4, <2>5
  <1>3. ASSUME ~\E d \in Client, n \in Name : Ask(d, n) PROVE r.name = name'[c]
    <2>1. PICK q \in pending : q.name = r.name /\ q.public_key = r.public_key
      BY <1>3, RequestFrom
    <2>2. process[c] = "registering" /\ Same(c)
      <3>1. Untouched(c) \/ Asked(c)
        BY StepOf DEF Cleared, Loaded, Enrolled, Wrote
      <3>2. ~Asked(c)
        BY <1>1, <1>3, OnlyAskAsks
      <3> QED
        BY <3>1, <3>2 DEF Untouched
    <2> QED
      BY <1>1, <2>1, <2>2 DEF RequestInv, Own, Same
  <1> QED
    BY <1>2, <1>3

(* The server gives out identifiers and renames nobody.                    *)
LEMMA ServerStep ==
  ASSUME RInv, [Next]_vars
  PROVE  /\ registered' \subseteq issued' /\ issued \subseteq issued'
         /\ \A u \in issued : \A n, k : Identifies(u, n, k) => Identifies(u, n, k)'
  <1> USE DEF RInv
  <1>1. CASE users' = users /\ issued' = issued
    BY <1>1 DEF IssuedInv, Identifies, registered
  <1>2. CASE registered' = {} /\ issued' = issued
    BY <1>2 DEF Identifies
  <1>3. ASSUME NEW u \in UUID, NEW n \in Name, NEW k \in Key, AddUser(u, n, k)
        PROVE  /\ registered' \subseteq issued' /\ issued \subseteq issued'
               /\ \A v \in issued : \A m, l : Identifies(v, m, l) => Identifies(v, m, l)'
    <2>1. registered \subseteq issued
      BY DEF IssuedInv
    <2>2. /\ u \in UUID \ issued
          /\ registered' = registered \cup {u} /\ issued' = issued \cup {u}
          /\ \A v \in issued : (v \in registered' <=> v \in registered)
          /\ \A v \in registered : users'[v] = users[v]
      BY <1>3, <2>1, AddsOne
    <2> QED
      BY <2>1, <2>2 DEF Identifies
  <1> QED
    BY <1>1, <1>2, <1>3, StepOfServer

(* The file of a client holds nothing before it registers, and while it    *)
(* writes it holds what the client runs with.                              *)
LEMMA ProcessStep ==
  ASSUME RInv, [Next]_vars
  PROVE  ProcessInv'
  <1> SUFFICES ASSUME NEW c \in Client PROVE ProcessOf(c)'
    BY DEF ProcessInv
  <1>1. ProcessOf(c)
    BY DEF RInv, ProcessInv
  <1>2. process[c] \in {"down", "failed", "menu", "registering", "writing"}
    BY DEF RInv, TypeOK
  <1>3. CASE Untouched(c)
    BY <1>1, <1>2, <1>3 DEF Untouched, Same, SameFile, ProcessOf, EmptyFile
  <1>4. CASE Cleared(c)
    BY <1>1, <1>2, <1>4 DEF Cleared, SameFile, ProcessOf, EmptyFile
  <1>5. CASE Loaded(c)
    BY <1>1, <1>2, <1>5 DEF Loaded, Holds, SameFile, ProcessOf, EmptyFile
  <1>6. CASE Enrolled(c)
    BY <1>1, <1>2, <1>6 DEF Enrolled, Holds, ProcessOf, EmptyFile
  <1>7. CASE Wrote(c)
    BY <1>1, <1>2, <1>7 DEF Wrote, Same, ProcessOf, EmptyFile
  <1>8. CASE Asked(c)
    BY <1>1, <1>8 DEF Asked, SameFile, ProcessOf, EmptyFile
  <1> QED
    BY <1>3, <1>4, <1>5, <1>6, <1>7, <1>8, StepOf

(* Whoever goes by an identifier after a step did before it, or has just   *)
(* got it.                                                                 *)
LEMMA GoesByFrom ==
  ASSUME RInv, [Next]_vars, NEW c \in Client, NEW u \in UUID \cup {NoUuid}, GoesBy(c, u)'
  PROVE  \/ GoesBy(c, u)
         \/ Enrolled(c) /\ ~Untouched(c) /\ u \notin issued /\ u \in issued'
  <1>1. file[c].lines \in 0..LINES
    BY DEF RInv, TypeOK, MeInfo
  <1>2. CASE Untouched(c)
    BY <1>2 DEF Untouched, Same, SameFile, GoesBy
  <1>3. CASE Cleared(c)
    BY <1>3 DEF Cleared, SameFile, GoesBy
  <1>4. CASE Loaded(c)
    BY <1>4 DEF Loaded, Holds, SameFile, GoesBy, Complete, LINES
  <1>5. CASE Enrolled(c) /\ ~Untouched(c)
    <2>1. PICK n \in Name, v \in UUID, k \in Key : AddUser(v, n, k) /\ Holds(c, n, v, k)
      BY <1>5 DEF Enrolled
    <2>2. file'[c].lines = 0
      BY <1>5 DEF Enrolled, EmptyFile
    <2>3. u = v
      BY <2>1, <2>2 DEF GoesBy, Holds
    <2> QED
      BY <1>5, <2>1, <2>3 DEF AddUser, FreshUuid
  <1>6. CASE Wrote(c)
    <2>1. isInit[c] /\ file'[c] = NextLine(c)
      BY <1>6 DEF Wrote, RInv, ProcessInv, ProcessOf
    <2>2. /\ NextLine(c).lines = file[c].lines + 1
          /\ NextLine(c).uuid = IF file[c].lines = 1 THEN uuid[c] ELSE file[c].uuid
      BY <1>6, NextLineWrites DEF Wrote, RInv
    <2> QED
      BY <1>1, <1>6, <2>1, <2>2 DEF Wrote, Same, GoesBy, LINES
  <1>7. CASE Asked(c)
    BY <1>7 DEF Asked, SameFile, GoesBy
  <1> QED
    BY <1>2, <1>3, <1>4, <1>5, <1>6, <1>7, StepOf

(* Nobody takes over an identifier that is in use.                         *)
LEMMA IssuedStep ==
  ASSUME RInv, [Next]_vars
  PROVE  IssuedInv'
  <1> USE DEF RInv
  <1>1. registered' \subseteq issued' /\ issued \subseteq issued'
    BY ServerStep
  <1>2. ASSUME NEW c \in Client, NEW u \in UUID \cup {NoUuid}, GoesBy(c, u)'
        PROVE  u \in issued'
    BY <1>1, <1>2, GoesByFrom DEF IssuedInv
  <1>3. ASSUME NEW c \in Client, NEW d \in Client, NEW u \in UUID \cup {NoUuid},
               GoesBy(c, u)', GoesBy(d, u)', c # d
        PROVE  FALSE
    <2>1. Untouched(c) \/ Untouched(d)
      BY <1>3, StepOfOne
    <2>2. (GoesBy(c, u) /\ u \in issued) \/ (u \notin issued /\ ~Untouched(c))
      BY <1>3, GoesByFrom DEF IssuedInv
    <2>3. (GoesBy(d, u) /\ u \in issued) \/ (u \notin issued /\ ~Untouched(d))
      BY <1>3, GoesByFrom DEF IssuedInv
    <2> QED
      BY <1>3, <2>1, <2>2, <2>3 DEF IssuedInv
  <1> QED
    BY <1>1, <1>2, <1>3 DEF IssuedInv

(* What me.info holds of a registered client stays what the client holds.  *)
LEMMA RememberedStep ==
  ASSUME RInv, [Next]_vars
  PROVE  Remembered'
  <1> DEFINE Kept(c) ==
        isInit[c] =>
          /\ file[c].lines >= 1 => file[c].name = name[c]
          /\ file[c].lines >= 2 => file[c].uuid = uuid[c]
          /\ file[c].lines = LINES => file[c].key = privateKey[c]
  <1> SUFFICES ASSUME NEW c \in Client PROVE Kept(c)'
    BY DEF Remembered
  <1>1. Kept(c) /\ file[c].lines \in 0..LINES
    BY DEF RInv, Remembered, TypeOK, MeInfo
  <1>2. CASE Untouched(c)
    BY <1>1, <1>2 DEF Untouched, Same, SameFile
  <1>3. CASE Cleared(c)
    BY <1>3 DEF Cleared
  <1>4. CASE Loaded(c)
    BY <1>4 DEF Loaded, Holds, SameFile
  <1>5. CASE Enrolled(c)
    <2>1. file'[c].lines = 0
      BY <1>5 DEF Enrolled, EmptyFile
    <2> QED
      BY <2>1 DEF LINES
  <1>6. CASE Wrote(c)
    <2>1. /\ NextLine(c).lines = file[c].lines + 1
          /\ NextLine(c).name = IF file[c].lines = 0 THEN name[c] ELSE file[c].name
          /\ NextLine(c).uuid = IF file[c].lines = 1 THEN uuid[c] ELSE file[c].uuid
          /\ NextLine(c).key = IF file[c].lines = 2 THEN privateKey[c] ELSE file[c].key
      BY <1>6, NextLineWrites DEF Wrote, RInv
    <2> QED
      BY <1>1, <1>6, <2>1 DEF Wrote, Same, LINES
  <1>7. CASE Asked(c)
    BY <1>7 DEF Asked
  <1> QED
    BY <1>2, <1>3, <1>4, <1>5, <1>6, <1>7, StepOf

(* Who runs with an identity, runs with its own.                           *)
LEMMA OwnStep ==
  ASSUME RInv, [Next]_vars
  PROVE  OwnIdentity'
  <1> DEFINE Runs(c) == isInit[c] => Identifies(uuid[c], name[c], privateKey[c])
             Keeps(c) == Complete(c) => Identifies(file[c].uuid, file[c].name, file[c].key)
  <1> SUFFICES ASSUME NEW c \in Client PROVE Runs(c)' /\ Keeps(c)'
    BY DEF OwnIdentity
  <1>1. Runs(c) /\ Keeps(c)
    BY DEF RInv, OwnIdentity
  <1>2. /\ uuid[c] \in UUID \cup {NoUuid} /\ file[c].uuid \in UUID \cup {NoUuid}
        /\ file[c].lines \in 0..LINES
    BY DEF RInv, TypeOK, MeInfo
  <1>3. isInit[c] => uuid[c] \in issued
    BY <1>2 DEF RInv, IssuedInv, GoesBy
  <1>4. Complete(c) => file[c].uuid \in issued
    BY <1>2 DEF RInv, IssuedInv, GoesBy, Complete, LINES
  <1> DEFINE Will(u, n, k) == u \in registered' => users'[u] = [name |-> n, public_key |-> k]
  <1>5. \A u \in issued : \A n, k : Identifies(u, n, k) => Will(u, n, k)
    BY ServerStep DEF Identifies
  <1>6. isInit[c] => Will(uuid[c], name[c], privateKey[c])
    BY <1>1, <1>3, <1>5
  <1>7. Complete(c) => Will(file[c].uuid, file[c].name, file[c].key)
    BY <1>1, <1>4, <1>5
  <1>8. SUFFICES /\ isInit'[c] => Will(uuid'[c], name'[c], privateKey'[c])
                 /\ file'[c].lines = LINES => Will(file'[c].uuid, file'[c].name, file'[c].key)
    BY DEF Identifies, Complete
  <1>9. CASE Untouched(c)
    BY <1>6, <1>7, <1>9 DEF Untouched, Same, SameFile, Complete
  <1>10. CASE Cleared(c)
    BY <1>7, <1>10 DEF Cleared, SameFile, Complete
  <1>11. CASE Loaded(c)
    BY <1>7, <1>11 DEF Loaded, Holds, SameFile, Complete
  <1>12. CASE Enrolled(c)
    <2>1. PICK n \in Name, u \in UUID, k \in Key : AddUser(u, n, k) /\ Holds(c, n, u, k)
      BY <1>12 DEF Enrolled
    <2>2. Will(u, n, k)
      <3>1. TypeOK /\ registered \subseteq issued
        BY DEF RInv, IssuedInv
      <3>2. users'[u] = [name |-> n, public_key |-> k]
        BY <2>1, <3>1, AddsOne
      <3> QED
        BY <3>2
    <2>3. file'[c].lines # LINES
      BY <1>12 DEF Enrolled, EmptyFile, LINES
    <2> QED
      BY <2>1, <2>2, <2>3 DEF Holds
  <1>13. CASE Wrote(c)
    <2>1. isInit[c] /\ file'[c] = NextLine(c) /\ ~Complete(c)
      BY <1>13 DEF Wrote, RInv, ProcessInv, ProcessOf
    <2>2. /\ NextLine(c).lines = file[c].lines + 1
          /\ NextLine(c).name = IF file[c].lines = 0 THEN name[c] ELSE file[c].name
          /\ NextLine(c).uuid = IF file[c].lines = 1 THEN uuid[c] ELSE file[c].uuid
          /\ NextLine(c).key = IF file[c].lines = 2 THEN privateKey[c] ELSE file[c].key
      BY <2>1, NextLineWrites DEF RInv
    <2>3. /\ file[c].lines >= 1 => file[c].name = name[c]
          /\ file[c].lines >= 2 => file[c].uuid = uuid[c]
      BY <2>1 DEF RInv, Remembered
    <2>4. file'[c].lines = LINES =>
            file'[c].name = name[c] /\ file'[c].uuid = uuid[c] /\ file'[c].key = privateKey[c]
      BY <1>2, <2>1, <2>2, <2>3 DEF LINES
    <2> QED
      BY <1>6, <1>13, <2>1, <2>4 DEF Wrote, Same
  <1>14. CASE Asked(c)
    BY <1>7, <1>14 DEF Asked, SameFile, Complete
  <1> QED
    BY <1>9, <1>10, <1>11, <1>12, <1>13, <1>14, StepOf

(* The inductive invariant holds in every reachable state.                 *)
LEMMA RInvariance == Spec => []RInv
  <1>1. RInv /\ [Next]_vars => RInv'
    BY TypeStep, ProcessStep, RequestStep, IssuedStep, OwnStep, RememberedStep DEF RInv
  <1> QED
    BY RInit, <1>1, PTL DEF Spec

(* Who is answered is registered.                                          *)
LEMMA AnsweredEnrolls ==
  ASSUME RInv, NEW c \in Client, Answered(c)
  PROVE  isInit'[c]
  <1>1. ~Refuses(c)
    BY DEF Answered, Refuses, RInv, ProcessInv, ProcessOf
  <1>2. PICK u \in UUID : Enroll(c, u)
    BY <1>1 DEF Answered
  <1> QED
    BY <1>2 DEF Enroll, RInv, TypeOK

(* A client that stops waiting while the server adds a user is answered.   *)
LEMMA OnlyAnsweredLearns ==
  ASSUME RInv, [Next]_vars, NEW c \in Client, process[c] = "registering",
         process'[c] # "registering", issued' # issued
  PROVE  Answered(c)
  <1> SUFFICES ASSUME ~Answered(c) PROVE process'[c] = process[c] \/ issued' = issued
    OBVIOUS
  <1>1. ASSUME NEW d \in Client, NEW n \in Name, Ask(d, n) PROVE issued' = issued
    BY <1>1 DEF Ask
  <1>2. ASSUME NEW d \in Client, Answered(d) PROVE process'[c] = process[c]
    <2>1. Become(d, "menu") \/ Become(d, "writing")
      BY <1>2 DEF Answered, Enroll
    <2> QED
      BY <1>2, <2>1, BecomeAt DEF RInv
  <1>3. ASSUME NEW q \in pending, CheckName(q) \/ AddUnheard(q) PROVE process' = process
    BY <1>3 DEF CheckName, AddUnheard
  <1>4. ServerRestart \/ UNCHANGED vars => process' = process
    BY DEF ServerRestart, vars
  <1>5. ASSUME NEW d \in Client,
               \/ Start(d) \/ Stop(d)
               \/ RegisterFails(d) \/ WriteLine(d) \/ EndWrite(d)
        PROVE  issued' = issued
    BY <1>5 DEF Start, Stop, RegisterFails, WriteLine, EndWrite, server
  <1> QED
    BY <1>1, <1>2, <1>3, <1>4, <1>5 DEF Next
-----------------------------------------------------------------------------
(* Every variable always holds a value of its type.                        *)
THEOREM RegistrationTypes == Spec => []TypeOK
  <1>1. RInv => TypeOK
    BY DEF RInv
  <1> QED
    BY <1>1, RInvariance, PTL

(* Whatever is stopped, lost or restarted, and however often: the identity *)
(* a client runs with, and the one in its me.info when that is whole, are  *)
(* its own (HandleRegister, UpdateMeInfo, ParseMeInfo).                    *)
THEOREM IdentityIsOwn == Spec => []OwnIdentity
  <1>1. RInv => OwnIdentity
    BY DEF RInv
  <1> QED
    BY <1>1, RInvariance, PTL

(* Two clients never run or keep files under one identifier, though the    *)
(* server forgets whom it gave its identifiers to.                         *)
THEOREM NoSharedIdentity == Spec => []IdentitiesApart
  <1>1. ASSUME RInv PROVE IdentitiesApart
    <2>1. SUFFICES ASSUME NEW c \in Client, NEW d \in Client, c # d
          PROVE  /\ isInit[c] /\ isInit[d] => uuid[c] # uuid[d]
                 /\ Complete(c) /\ Complete(d) => file[c].uuid # file[d].uuid
                 /\ Complete(c) /\ isInit[d] => file[c].uuid # uuid[d]
      BY DEF IdentitiesApart
    <2>2. /\ {uuid[c], uuid[d], file[c].uuid, file[d].uuid} \subseteq UUID \cup {NoUuid}
          /\ file[c].lines \in 0..LINES /\ file[d].lines \in 0..LINES
      BY <1>1 DEF RInv, TypeOK, MeInfo
    <2>3. /\ isInit[c] => GoesBy(c, uuid[c])
          /\ isInit[d] => GoesBy(d, uuid[d])
          /\ Complete(c) => GoesBy(c, file[c].uuid)
          /\ Complete(d) => GoesBy(d, file[d].uuid)
      BY <2>2 DEF GoesBy, Complete, LINES
    <2>4. \A u \in UUID \cup {NoUuid} : GoesBy(c, u) /\ GoesBy(d, u) => c = d
      BY <1>1 DEF RInv, IssuedInv
    <2> QED
      BY <2>1, <2>2, <2>3, <2>4
  <1> QED
    BY <1>1, RInvariance, PTL

(* What a stop leaves in me.info of what a registered client wrote is its  *)
(* own, line by line.                                                      *)
THEOREM FileIsOfItsClient == Spec => []Remembered
  <1>1. RInv => Remembered
    BY DEF RInv
  <1> QED
    BY <1>1, RInvariance, PTL

(* No step writes to a me.info that is whole: a client that has one is     *)
(* never offered to register again, so UpdateMeInfo never truncates it.    *)
THEOREM WholeFileStays == Spec => WrittenOnce
  <1>1. ASSUME RInv, [Next]_vars
        PROVE  \A c \in Client : Complete(c) => file'[c] = file[c]
    <2>1. SUFFICES ASSUME NEW c \in Client, Complete(c) PROVE file'[c] = file[c]
      OBVIOUS
    <2>2. exists[c]
      BY <1>1, <2>1 DEF RInv, ProcessInv, ProcessOf, Complete, EmptyFile, LINES
    <2> QED
      BY <1>1, <2>1, <2>2, StepOf
         DEF Untouched, Cleared, Loaded, Asked, Enrolled, Wrote, SameFile
  <1>2. RInv /\ [Next]_vars => [\A c \in Client : Complete(c) => file'[c] = file[c]]_vars
    BY <1>1
  <1> QED
    BY <1>2, RInvariance, PTL DEF Spec, WrittenOnce

(* The answer to a registration makes the client registered under the      *)
(* identifier in it: no attempt or run before leaves anything in Client    *)
(* that makes UpdateMeInfo refuse what the server has stored.              *)
THEOREM AnswersAreKept == Spec => AnswerKept
  <1> DEFINE A == \A c \in Client :
               process[c] = "registering" /\ process'[c] # "registering" /\ issued' # issued =>
                 isInit'[c] /\ uuid'[c] \in issued' \ issued
  <1>1. ASSUME RInv, [Next]_vars PROVE A
    <2> SUFFICES ASSUME NEW c \in Client, process[c] = "registering",
                        process'[c] # "registering", issued' # issued
                 PROVE  isInit'[c] /\ uuid'[c] \in issued' \ issued
      OBVIOUS
    <2>1. Cleared(c) \/ Enrolled(c)
      BY <1>1, StepOf DEF Untouched, Loaded, Asked, Wrote, RInv, ProcessInv, ProcessOf
    <2>2. CASE Enrolled(c)
      BY <2>2 DEF Enrolled, Holds, AddUser, FreshUuid
    <2>3. CASE Cleared(c)
      <3>1. ~Answered(c)
        BY <1>1, <2>3, AnsweredEnrolls DEF Cleared
      <3> QED
        BY <1>1, <3>1, OnlyAnsweredLearns
    <2> QED
      BY <2>1, <2>2, <2>3
  <1>2. RInv /\ [Next]_vars => [A]_vars
    BY <1>1
  <1> QED
    BY <1>2, RInvariance, PTL DEF Spec, AnswerKept
=============================================================================
