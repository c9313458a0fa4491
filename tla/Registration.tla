---------------------------- MODULE Registration ----------------------------
(***************************************************************************)
(* How a client gets and keeps its identity (Client.cpp, main.cpp): the    *)
(* program starts from the file me.info, registers once with the server,   *)
(* and writes the file line by line when the server has answered.  The     *)
(* server looks for the name in one lock section and adds the user in      *)
(* another (see ClientHandler).  The program may be stopped between any    *)
(* two steps; an exchange may fail before, between or after the two (see   *)
(* Connection); a write may fail; the server, which keeps its users in     *)
(* memory only, may restart.                                               *)
(***************************************************************************)
EXTENDS Naturals, FiniteSets

CONSTANTS
  Client,        \* installations of the client program
  Name,          \* the names their users may type, all valid
  UUID,          \* identifiers the server may give out, each of them once
  Key,           \* RSA key pairs, a pair and its public half being one value
  NoName, NoUuid, NoKey,
  WritesFail,    \* TRUE: opening or writing me.info may fail
  ServerStops    \* TRUE: the server may restart

ASSUME ConstantsAssumption ==
  /\ NoName \notin Name /\ NoUuid \notin UUID /\ NoKey \notin Key
  /\ {WritesFail, ServerStops} \subseteq BOOLEAN

VARIABLES
  process,   \* of each client: down, failed (main returned 1), menu,
             \* registering (in the exchange) or writing
  isInit,    \* m_isInit
  name,      \* m_name
  uuid,      \* m_uuid
  privateKey,\* m_privateKey
  file,      \* me.info: the number of lines in it, and their values
  exists,    \* whether me.info exists
  users,     \* the server's users: name and public key by identifier
  pending,   \* registrations under way, checked once their name was found free
  issued     \* history: the identifiers given out so far

memory == <<isInit, name, uuid, privateKey>>
disk == <<file, exists>>
server == <<users, pending, issued>>
vars == <<process, memory, disk, server>>

LINES == 3   \* name, identifier, private key

User == [name : Name, public_key : Key]
Request == [name : Name, public_key : Key, checked : BOOLEAN]
EmptyFile == [lines |-> 0, name |-> NoName, uuid |-> NoUuid, key |-> NoKey]
registered == DOMAIN users
Complete(c) == file[c].lines = LINES
-----------------------------------------------------------------------------
Init ==
  /\ process = [c \in Client |-> "down"]
  /\ isInit = [c \in Client |-> FALSE]
  /\ name = [c \in Client |-> NoName]
  /\ uuid = [c \in Client |-> NoUuid]
  /\ privateKey = [c \in Client |-> NoKey]
  /\ file = [c \in Client |-> EmptyFile]
  /\ exists = [c \in Client |-> FALSE]
  /\ users = [u \in {} |-> {}]
  /\ pending = {}
  /\ issued = {}

Remember(c, init, n, u, k) ==
  /\ isInit' = [isInit EXCEPT ![c] = init]
  /\ name' = [name EXCEPT ![c] = n]
  /\ uuid' = [uuid EXCEPT ![c] = u]
  /\ privateKey' = [privateKey EXCEPT ![c] = k]

Forget(c) == Remember(c, FALSE, NoName, NoUuid, NoKey)

Become(c, state) == process' = [process EXCEPT ![c] = state]

(* Mutant: a me.info that cannot be opened counts as none.                 *)
StartUnopened(c) ==
  /\ process[c] \in {"down", "failed"}
  /\ Become(c, "menu") /\ Forget(c)
  /\ UNCHANGED <<disk, server>>

(* main and Client::Init: without me.info the client is unregistered; with *)
(* one it is registered, if ParseMeInfo finds all three lines.             *)
Start(c) ==
  /\ process[c] \in {"down", "failed"}
  /\ \/ /\ ~exists[c]
        /\ Become(c, "menu") /\ Forget(c)
     \/ /\ exists[c] /\ Complete(c)
        /\ Become(c, "menu")
        /\ Remember(c, TRUE, file[c].name, file[c].uuid, file[c].key)
     \/ /\ exists[c] /\ ~Complete(c)
        /\ Become(c, "failed") /\ Forget(c)
  /\ UNCHANGED <<disk, server>>

(* The user exits, or the program is killed.                               *)
Stop(c) ==
  /\ process[c] \in {"menu", "registering", "writing"}
  /\ Become(c, "down") /\ Forget(c)
  /\ UNCHANGED <<disk, server>>
-----------------------------------------------------------------------------
(* HandleRegister                                                          *)

(* The menu offers it to the unregistered only, and Name::Deserialize does *)
(* not overwrite a name.                                                   *)
MayRegister(c) == process[c] = "menu" /\ ~isInit[c] /\ name[c] = NoName

FreshKey ==
  Key \ ({privateKey[c] : c \in Client} \cup {file[c].key : c \in Client}
         \cup {users[u].public_key : u \in registered}
         \cup {r.public_key : r \in pending})

(* Up to the exchange: a name is typed, a key pair generated.              *)
Ask(c, n) ==
  /\ MayRegister(c)
  /\ Become(c, "registering")
  /\ name' = [name EXCEPT ![c] = n]
  /\ \E k \in FreshKey :
       /\ privateKey' = [privateKey EXCEPT ![c] = k]
       /\ pending' = pending \cup {[name |-> n, public_key |-> k, checked |-> FALSE]}
  /\ UNCHANGED <<isInit, uuid, disk, users, issued>>

(* The key is deleted and the name reset; m_isInit and m_uuid are left.    *)
CleanUp(c) ==
  /\ name' = [name EXCEPT ![c] = NoName]
  /\ privateKey' = [privateKey EXCEPT ![c] = NoKey]
  /\ UNCHANGED <<isInit, uuid>>

Own(c) == {r \in pending : r.public_key = privateKey[c]}

(* No connection, the error response or no response.  What the server has  *)
(* not read may never get to it, or may still be handled.                  *)
RegisterFails(c) ==
  /\ process[c] = "registering"
  /\ Become(c, "menu") /\ CleanUp(c)
  /\ pending' \in {pending, {r \in pending : r \in Own(c) => r.checked}}
  /\ UNCHANGED <<disk, users, issued>>
-----------------------------------------------------------------------------
(* handle_register of the server, for clients that wait or have given up   *)

Taken(n) == \E u \in registered : users[u].name = n

(* username_exists: if there is one, the response is the error.            *)
CheckName(r) ==
  /\ r \in pending /\ ~r.checked
  /\ pending' = (pending \ {r}) \cup (IF Taken(r.name) THEN {} ELSE {[r EXCEPT !.checked = TRUE]})
  /\ UNCHANGED <<process, memory, disk, users, issued>>

(* Mutant: identifiers are counted up from one in every run of the server. *)
FreshUuidPerRun == UUID \ registered

(* What uuid1 may return.                                                  *)
FreshUuid == UUID \ issued

(* The name may have been taken since it was checked.                      *)
AddUser(u, n, k) ==
  /\ u \in FreshUuid
  /\ users' = [v \in registered \cup {u} |->
                 IF v = u THEN [name |-> n, public_key |-> k] ELSE users[v]]
  /\ issued' = issued \cup {u}

Adds(r, u) ==
  /\ r \in pending /\ r.checked
  /\ AddUser(u, r.name, r.public_key)
  /\ pending' = pending \ {r}

(* The response gets to nobody.                                            *)
AddUnheard(r) ==
  /\ \E u \in UUID : Adds(r, u)
  /\ UNCHANGED <<process, memory, disk>>
-----------------------------------------------------------------------------
(* UpdateMeInfo                                                            *)

(* The fields are set, m_isInit among them, and me.info is opened, which   *)
(* truncates it; a failure to open goes unnoticed.                         *)
Enroll(c, u) ==
  /\ isInit' = [isInit EXCEPT ![c] = TRUE]
  /\ uuid' = [uuid EXCEPT ![c] = u]
  /\ UNCHANGED <<name, privateKey>>
  /\ \/ /\ Become(c, "writing")
        /\ file' = [file EXCEPT ![c] = EmptyFile]
        /\ exists' = [exists EXCEPT ![c] = TRUE]
     \/ /\ WritesFail
        /\ Become(c, "menu")
        /\ UNCHANGED disk

(* UUID::Deserialize does not overwrite an identifier.                     *)
Refuses(c) == isInit[c] \/ uuid[c] # NoUuid

(* The response arrives, and HandleRegister goes on to UpdateMeInfo.       *)
Answered(c) ==
  /\ process[c] = "registering"
  /\ \E r \in Own(c), u \in UUID :
       /\ Adds(r, u)
       /\ IF Refuses(c) THEN Become(c, "menu") /\ CleanUp(c) /\ UNCHANGED disk
                        ELSE Enroll(c, u)

(* Mutant: the line with the name is left out and the key fills the file.  *)
NextLineSwapped(c) ==
  LET f == file[c]
  IN  CASE f.lines = 0 -> [f EXCEPT !.lines = 1, !.uuid = uuid[c]]
        [] OTHER       -> [f EXCEPT !.lines = 3, !.key = privateKey[c]]

(* Mutant: the second line repeats the name.                               *)
NextLineNameTwice(c) ==
  LET f == file[c]
  IN  CASE f.lines = 0 -> [f EXCEPT !.lines = 1, !.name = name[c]]
        [] f.lines = 1 -> [f EXCEPT !.lines = 2, !.uuid = name[c]]
        [] OTHER       -> [f EXCEPT !.lines = 3, !.key = privateKey[c]]

(* Mutant: the key of a new RSAPrivateWrapper is written.                  *)
NextLineOtherKey(c) ==
  LET f == file[c]
  IN  CASE f.lines = 0 -> [f EXCEPT !.lines = 1, !.name = name[c]]
        [] f.lines = 1 -> [f EXCEPT !.lines = 2, !.uuid = uuid[c]]
        [] OTHER       -> [f EXCEPT !.lines = 3,
                                    !.key = CHOOSE k \in Key : k # privateKey[c]]

(* Name and identifier are flushed by endl, the key by close.              *)
NextLine(c) ==
  LET f == file[c]
  IN  CASE f.lines = 0 -> [f EXCEPT !.lines = 1, !.name = name[c]]
        [] f.lines = 1 -> [f EXCEPT !.lines = 2, !.uuid = uuid[c]]
        [] OTHER       -> [f EXCEPT !.lines = 3, !.key = privateKey[c]]

WriteLine(c) ==
  /\ process[c] = "writing" /\ ~Complete(c)
  /\ file' = [file EXCEPT ![c] = NextLine(c)]
  /\ UNCHANGED <<process, memory, exists, server>>

(* Mutant: a failed write is undone as HandleRegister undoes a failed      *)
(* exchange, which leaves m_uuid as it is.                                 *)
EndWriteUndone(c) ==
  /\ process[c] = "writing"
  /\ Complete(c) \/ WritesFail
  /\ Become(c, "menu")
  /\ IF Complete(c) THEN UNCHANGED memory
     ELSE /\ isInit' = [isInit EXCEPT ![c] = FALSE]
          /\ name' = [name EXCEPT ![c] = NoName]
          /\ privateKey' = [privateKey EXCEPT ![c] = NoKey]
          /\ UNCHANGED uuid
  /\ UNCHANGED <<disk, server>>

(* Back to the menu, UpdateMeInfo having returned true; after a failed     *)
(* write the stream drops whatever follows.                                *)
EndWrite(c) ==
  /\ process[c] = "writing"
  /\ Complete(c) \/ WritesFail
  /\ Become(c, "menu")
  /\ UNCHANGED <<memory, disk, server>>
-----------------------------------------------------------------------------
(* self.users is rebuilt empty.                                            *)
ServerRestart ==
  /\ ServerStops /\ (registered # {} \/ pending # {})
  /\ users' = [u \in {} |-> {}]
  /\ pending' = {}
  /\ UNCHANGED <<process, memory, disk, issued>>

Next ==
  \/ \E c \in Client :
       \/ Start(c) \/ Stop(c)
       \/ RegisterFails(c) \/ Answered(c) \/ WriteLine(c) \/ EndWrite(c)
  \/ \E c \in Client, n \in Name : Ask(c, n)
  \/ \E r \in pending : CheckName(r) \/ AddUnheard(r)
  \/ ServerRestart

Spec == Init /\ [][Next]_vars
-----------------------------------------------------------------------------
(* Correctness                                                             *)

MeInfo ==
  [lines : 0..LINES, name : Name \cup {NoName}, uuid : UUID \cup {NoUuid},
   key : Key \cup {NoKey}]

(* Every variable holds a value of its type.                               *)
TypeOK ==
  /\ process \in [Client -> {"down", "failed", "menu", "registering", "writing"}]
  /\ isInit \in [Client -> BOOLEAN]
  /\ name \in [Client -> Name \cup {NoName}]
  /\ uuid \in [Client -> UUID \cup {NoUuid}]
  /\ privateKey \in [Client -> Key \cup {NoKey}]
  /\ file \in [Client -> MeInfo]
  /\ exists \in [Client -> BOOLEAN]
  /\ registered \subseteq UUID
  /\ users \in [registered -> User] /\ pending \subseteq Request
  /\ issued \subseteq UUID

(* If the server knows the identifier, it is under this name and key.      *)
Identifies(u, n, k) == u \in registered => users[u] = [name |-> n, public_key |-> k]

(* Whatever was stopped, lost or restarted, the identity a client runs     *)
(* with and the one in its me.info are its own: what others encrypt for    *)
(* the identifier's public key, its private key decrypts.                  *)
OwnIdentity ==
  \A c \in Client :
    /\ isInit[c] => Identifies(uuid[c], name[c], privateKey[c])
    /\ Complete(c) => Identifies(file[c].uuid, file[c].name, file[c].key)

(* A client that gets the answer to its registration is registered under   *)
(* the identifier in it, whatever attempts and runs went before: nothing   *)
(* that is left of them makes UpdateMeInfo refuse what the server has      *)
(* already stored, which would use up the name for good.                   *)
AnswerKept ==
  [][\A c \in Client :
       process[c] = "registering" /\ process'[c] # "registering" /\ issued' # issued =>
         isInit'[c] /\ uuid'[c] \in issued' \ issued]_vars

(* Two clients never run or keep files under one identifier.               *)
IdentitiesApart ==
  \A c, d \in Client : c # d =>
    /\ isInit[c] /\ isInit[d] => uuid[c] # uuid[d]
    /\ Complete(c) /\ Complete(d) => file[c].uuid # file[d].uuid
    /\ Complete(c) /\ isInit[d] => file[c].uuid # uuid[d]

(* me.info, once written, is never written again.                          *)
WrittenOnce == [][\A c \in Client : Complete(c) => file'[c] = file[c]]_vars

(* Whatever is left in me.info of what a registered client wrote is its    *)
(* own: if the file is whole the client goes on with the same identity     *)
(* when it is started again, and if not it does not take another.          *)
Remembered ==
  \A c \in Client :
    isInit[c] =>
      /\ file[c].lines >= 1 => file[c].name = name[c]
      /\ file[c].lines >= 2 => file[c].uuid = uuid[c]
      /\ file[c].lines = LINES => file[c].key = privateKey[c]
-----------------------------------------------------------------------------
(* What the comments of the repository say, and the code does not keep.    *)

(* Client.h, Init: "Since the file's content is given by the server,       *)
(* assuming it is valid": no start of the program fails on its own file.   *)
ValidMeInfo == \A c \in Client : process[c] # "failed"
=============================================================================
