--------------------------- MODULE ClientHandler ----------------------------
(***************************************************************************)
(* The MessageU server (server.py, client_handler.py): every accepted      *)
(* connection is a thread that reads one request, runs its handler on the  *)
(* shared dictionary self.users, sends one response and closes.            *)
(*                                                                         *)
(* A function under the decorator "locker" that touches self.users once is *)
(* one step, enabled when no thread holds the mutex; one that reads it     *)
(* more than once (username_exists, get_messages_from_uuid) takes the      *)
(* mutex in its first step and gives it back in its last, so that what the *)
(* lock keeps out is visible.  handle_user_list walks the dictionary with  *)
(* no lock, as the code does.                                              *)
(*                                                                         *)
(* mailed and handed are history variables: what was ever stored for a     *)
(* user and what was ever taken out for one.                               *)
(***************************************************************************)
EXTENDS Protocol, Sequences, FiniteSets

CONSTANTS
  Thread,       \* one per connection, serving one request
  UUID,         \* the identifiers uuid.uuid1() may return
  NullUuid,     \* sixteen zero bytes: the sender of a registration
  Name,         \* user names
  PublicKey,    \* public keys
  Requests,     \* the requests that clients may send
  NoThread,     \* mutex not held
  NoRequest,    \* nothing read yet
  Uuid1Unique   \* TRUE: uuid1() never returns the same identifier twice

Request ==
  [header_read : Nat, client_id : UUID \cup {NullUuid}, version : Nat,
   code : Nat, payload_size : Nat, payload_read : Nat, name : Name,
   public_key : PublicKey, dest : UUID \cup {NullUuid}, message_type : Nat, content_size : Nat]

ASSUME ConstantsAssumption ==
  /\ NullUuid \notin UUID
  /\ NoThread \notin Thread
  /\ Requests \subseteq Request
  /\ NoRequest \notin Requests
  /\ Uuid1Unique \in BOOLEAN

(* A stored message: the sub-header with the sender's id switched in, the  *)
(* length of the content that follows it, and that content, named by the   *)
(* connection it arrived on.                                               *)
Message ==
  [client_id : UUID \cup {NullUuid}, message_type : Nat, content_size : Nat,
   length : Nat, content : Thread]

ClientData == [name : Name, public_key : PublicKey, recv_messages : Seq(Message)]

VARIABLES
  mutex,      \* the thread inside a multi-step locked function, or NoThread
  users,      \* self.users: ClientData by UUID, registered UUIDs only
  pc,         \* the next step of each thread
  req,        \* the request each thread has read
  uuid,       \* new_id of handle_register
  todo,       \* keys the thread's dictionary iterator has yet to visit
  size,       \* length of the dictionary when that iterator was created
  nodes,      \* send_buffer of handle_user_list, reply of the key request
  messages,   \* send_buffer of get_messages_from_uuid
  resp,       \* code of the response each thread sends
  mailed,     \* history: every message pushed for a user
  handed      \* history: every message cleared from a user's list

locals == <<req, uuid, todo, size, nodes, messages>>
history == <<mailed, handed>>
vars == <<mutex, users, pc, locals, resp, history>>

Failures == {"KeyError", "RuntimeError", "StructError"}
Terminal == {"done"} \cup Failures
Labels ==
  {"idle", "sender", "name", "scan", "uuid", "fresh", "add", "list", "iter",
   "pk", "readpk", "send", "push", "gather", "clear", "reply"} \cup Terminal

registered == DOMAIN users

(* Mutant: locker calls the function without acquiring the mutex.          *)
FreeAlways == TRUE

Free == mutex = NoThread

(* Mutant: an identifier is taken for a user because it has the right form.*)
IsRegisteredByForm(u) == u \in UUID

IsRegistered(u) == u \in registered
-----------------------------------------------------------------------------
(* No connection has sent anything yet.                                    *)
Quiet ==
  /\ mutex = NoThread
  /\ pc = [t \in Thread |-> "idle"]
  /\ req = [t \in Thread |-> NoRequest]
  /\ uuid = [t \in Thread |-> NullUuid]
  /\ todo = [t \in Thread |-> {}]
  /\ size = [t \in Thread |-> 0]
  /\ nodes = [t \in Thread |-> {}]
  /\ messages = [t \in Thread |-> <<>>]
  /\ resp = [t \in Thread |-> 0]
  /\ mailed = [u \in UUID |-> <<>>]
  /\ handed = [u \in UUID |-> <<>>]

Init == users = [u \in {} |-> {}] /\ Quiet

Goto(t, label) ==
  /\ pc' = [pc EXCEPT ![t] = label]
  /\ UNCHANGED resp

Answer(t, code) ==
  /\ pc' = [pc EXCEPT ![t] = "reply"]
  /\ resp' = [resp EXCEPT ![t] = code]

(* The first step of the handler that handle_client dispatches to.         *)
Handler(code) ==
  CASE code = RegisterReq    -> "name"
    [] code = UserListReq    -> "list"
    [] code = GetPKReq       -> "pk"
    [] code = SendMessageReq -> "send"
    [] code = GetMessagesReq -> "gather"

(* A connection is accepted and its thread reads and validates a request;  *)
(* a registration is not asked for its sender.                             *)
ReadRequest(t, r) ==
  /\ pc[t] = "idle"
  /\ req' = [req EXCEPT ![t] = r]
  /\ \/ /\ ~WellFormed(r)
        /\ Answer(t, CommunicationError)
     \/ /\ WellFormed(r)
        /\ Goto(t, IF r.code = RegisterReq THEN Handler(r.code) ELSE "sender")
  /\ UNCHANGED <<mutex, users, uuid, todo, size, nodes, messages, history>>

(* is_sender_valid                                                         *)
CheckSender(t) ==
  /\ pc[t] = "sender" /\ Free
  /\ \/ /\ IsRegistered(req[t].client_id)
        /\ Goto(t, Handler(req[t].code))
     \/ /\ ~IsRegistered(req[t].client_id)
        /\ Answer(t, CommunicationError)
  /\ UNCHANGED <<mutex, users, locals, history>>
-----------------------------------------------------------------------------
(* handle_register                                                         *)

(* Mutant: the loops walk list(self.users).                                *)
DictionaryCopied(t) == FALSE

DictionaryResized(t) == Cardinality(registered) # size[t]

(* Mutant: the loop of username_exists returns False at a different name.  *)
NameTakenByAll(t) ==
  todo[t] # {} /\ \A u \in todo[t] : users[u].name = req[t].name

NameTaken(t) == \E u \in todo[t] : users[u].name = req[t].name

(* username_exists takes the lock and creates its iterator.                *)
BeginScan(t) ==
  /\ pc[t] = "name" /\ Free
  /\ mutex' = t
  /\ todo' = [todo EXCEPT ![t] = registered]
  /\ size' = [size EXCEPT ![t] = Cardinality(registered)]
  /\ Goto(t, "scan")
  /\ UNCHANGED <<users, req, uuid, nodes, messages, history>>

(* It returns at the first user of that name, or after the last user; the  *)
(* iterator raises RuntimeError if the dictionary has changed size.        *)
EndScan(t) ==
  /\ pc[t] = "scan"
  /\ mutex' = NoThread
  /\ \/ /\ NameTaken(t)
        /\ Answer(t, CommunicationError)
     \/ /\ ~NameTaken(t)
        /\ Goto(t, IF DictionaryResized(t) THEN "RuntimeError" ELSE "uuid")
  /\ UNCHANGED <<users, locals, history>>

(* uuid.uuid1() of the Python library.                                     *)
Uuid1 ==
  IF Uuid1Unique THEN UUID \ (registered \cup {uuid[t] : t \in Thread}) ELSE UUID

(* Mutant: new_id is an attribute of the handler that all threads share.   *)
GenerateUuidShared(t) ==
  /\ pc[t] = "uuid"
  /\ \E u \in Uuid1 : uuid' = [s \in Thread |-> u]
  /\ Goto(t, "fresh")
  /\ UNCHANGED <<mutex, users, req, todo, size, nodes, messages, history>>

GenerateUuid(t) ==
  /\ pc[t] = "uuid"
  /\ \E u \in Uuid1 : uuid' = [uuid EXCEPT ![t] = u]
  /\ Goto(t, "fresh")
  /\ UNCHANGED <<mutex, users, req, todo, size, nodes, messages, history>>

(* Mutant: the loop tests new_id again without a new call of uuid1().      *)
CheckFreshSpin(t) ==
  /\ pc[t] = "fresh" /\ Free
  /\ Goto(t, IF IsRegistered(uuid[t]) THEN "fresh" ELSE "add")
  /\ UNCHANGED <<mutex, users, locals, history>>

(* Mutant: an if instead of the while, whose second draw is not tested.    *)
CheckFreshOnce(t) ==
  /\ pc[t] = "fresh" /\ Free
  /\ IF IsRegistered(uuid[t]) THEN \E u \in Uuid1 : uuid' = [uuid EXCEPT ![t] = u]
     ELSE UNCHANGED uuid
  /\ Goto(t, "add")
  /\ UNCHANGED <<mutex, users, req, todo, size, nodes, messages, history>>

CheckFresh(t) ==
  /\ pc[t] = "fresh" /\ Free
  /\ Goto(t, IF IsRegistered(uuid[t]) THEN "uuid" ELSE "add")
  /\ UNCHANGED <<mutex, users, locals, history>>

(* Mutant: ClientData(body.pk, body.name).                                 *)
ClientDataSwapped(r) ==
  [name |-> r.public_key, public_key |-> r.name, recv_messages |-> <<>>]

ClientDataOf(r) ==
  [name |-> r.name, public_key |-> r.public_key, recv_messages |-> <<>>]

(* Mutant: add_user stores the client whatever it finds.                   *)
UsersOverwritten(u, client) ==
  [v \in registered \cup {u} |-> IF v = u THEN client ELSE users[v]]

(* add_user leaves an existing record alone, and the handler answers with  *)
(* new_id either way.                                                      *)
UsersWith(u, client) ==
  [v \in registered \cup {u} |-> IF v \in registered THEN users[v] ELSE client]

AddUser(t) ==
  /\ pc[t] = "add" /\ Free
  /\ users' = UsersWith(uuid[t], ClientDataOf(req[t]))
  /\ Answer(t, RegisterRes)
  /\ UNCHANGED <<mutex, locals, history>>
-----------------------------------------------------------------------------
(* handle_user_list                                                        *)

BeginList(t) ==
  /\ pc[t] = "list"
  /\ todo' = [todo EXCEPT ![t] = registered]
  /\ size' = [size EXCEPT ![t] = Cardinality(registered)]
  /\ Goto(t, "iter")
  /\ UNCHANGED <<mutex, users, req, uuid, nodes, messages, history>>

(* The iterator's next key; the locked get_name_from_uuid of that key is   *)
(* part of the step because a name never changes.                          *)
ListNode(t) ==
  /\ pc[t] = "iter" /\ ~DictionaryResized(t)
  /\ \E u \in todo[t] :
       /\ todo' = [todo EXCEPT ![t] = @ \ {u}]
       /\ \/ /\ u = req[t].client_id
             /\ UNCHANGED nodes
          \/ /\ u # req[t].client_id /\ Free
             /\ nodes' = [nodes EXCEPT ![t] = @ \cup {<<u, users[u].name>>}]
  /\ UNCHANGED <<mutex, users, pc, req, uuid, size, messages, resp, history>>

EndList(t) ==
  /\ pc[t] = "iter" /\ ~DictionaryResized(t)
  /\ todo[t] = {}
  /\ Answer(t, UserListRes)
  /\ UNCHANGED <<mutex, users, locals, history>>

(* RuntimeError: dictionary changed size during iteration.  handle_client  *)
(* catches only ValueError, so the thread closes without a response.       *)
ListFails(t) ==
  /\ pc[t] = "iter" /\ DictionaryResized(t)
  /\ Goto(t, "RuntimeError")
  /\ UNCHANGED <<mutex, users, locals, history>>
-----------------------------------------------------------------------------
(* handle_get_public_key                                                   *)

CheckKeyOwner(t) ==
  /\ pc[t] = "pk" /\ Free
  /\ \/ /\ IsRegistered(req[t].dest)
        /\ Goto(t, "readpk")
     \/ /\ ~IsRegistered(req[t].dest)
        /\ Answer(t, CommunicationError)
  /\ UNCHANGED <<mutex, users, locals, history>>

ReadKey(t) ==
  /\ pc[t] = "readpk" /\ Free
  /\ IF req[t].dest \in registered
     THEN /\ nodes' = [nodes EXCEPT
                         ![t] = {<<req[t].dest, users[req[t].dest].public_key>>}]
          /\ Answer(t, GetPKRes)
     ELSE Goto(t, "KeyError") /\ UNCHANGED nodes
  /\ UNCHANGED <<mutex, users, req, uuid, todo, size, messages, history>>
-----------------------------------------------------------------------------
(* handle_send_message                                                     *)

(* Unpacking a payload shorter than the sub-header raises struct.error,    *)
(* which handle_client does not catch.                                     *)
CheckMessage(t) ==
  /\ pc[t] = "send"
  /\ \/ /\ ContentLength(req[t]) < 0
        /\ Goto(t, "StructError")
     \/ /\ ContentLength(req[t]) >= 0 /\ Free
        /\ IsRegistered(req[t].dest) /\ BodyAccepted(req[t])
        /\ Goto(t, "push")
     \/ /\ ContentLength(req[t]) >= 0 /\ Free
        /\ ~(IsRegistered(req[t].dest) /\ BodyAccepted(req[t]))
        /\ Answer(t, CommunicationError)
  /\ UNCHANGED <<mutex, users, locals, history>>

(* Mutant: body.update() is called before the ids are switched.            *)
StoredUnswitched(t) ==
  [client_id |-> req[t].dest, message_type |-> req[t].message_type,
   content_size |-> req[t].content_size, length |-> ContentLength(req[t]),
   content |-> t]

(* The body with the ids switched.                                         *)
Stored(t) ==
  [client_id |-> req[t].client_id, message_type |-> req[t].message_type,
   content_size |-> req[t].content_size, length |-> ContentLength(req[t]),
   content |-> t]

PushMessage(t) ==
  LET dest == req[t].dest
  IN  /\ pc[t] = "push" /\ Free
      /\ IF dest \in registered
         THEN /\ users' = [users EXCEPT ![dest].recv_messages = Append(@, Stored(t))]
              /\ mailed' = [mailed EXCEPT ![dest] = Append(@, Stored(t))]
              /\ Answer(t, SendMessageRes)
         ELSE Goto(t, "KeyError") /\ UNCHANGED <<users, mailed>>
      /\ UNCHANGED <<mutex, locals, handed>>
-----------------------------------------------------------------------------
(* handle_get_messages                                                     *)

(* get_messages_from_uuid takes the lock and joins the waiting messages... *)
GatherMessages(t) ==
  /\ pc[t] = "gather" /\ Free
  /\ IF req[t].client_id \in registered
     THEN /\ mutex' = t
          /\ messages' = [messages EXCEPT ![t] = users[req[t].client_id].recv_messages]
          /\ Goto(t, "clear")
     ELSE Goto(t, "KeyError") /\ UNCHANGED <<mutex, messages>>
  /\ UNCHANGED <<users, req, uuid, todo, size, nodes, history>>

(* ...then clears the list and gives the lock back.                        *)
ClearMessages(t) ==
  LET me == req[t].client_id
  IN  /\ pc[t] = "clear"
      /\ mutex' = NoThread
      /\ users' = [users EXCEPT ![me].recv_messages = <<>>]
      /\ handed' = [handed EXCEPT ![me] = @ \o messages[t]]
      /\ Answer(t, GetMessagesRes)
      /\ UNCHANGED <<locals, mailed>>
-----------------------------------------------------------------------------
(* client_socket.send and close.  Whether the peer is still there to take  *)
(* the response or not, the thread ends.                                   *)
Reply(t) ==
  /\ pc[t] = "reply"
  /\ Goto(t, "done")
  /\ UNCHANGED <<mutex, users, locals, history>>

Step(t) ==
  \/ CheckSender(t)
  \/ BeginScan(t) \/ EndScan(t) \/ GenerateUuid(t) \/ CheckFresh(t) \/ AddUser(t)
  \/ BeginList(t) \/ ListNode(t) \/ EndList(t) \/ ListFails(t)
  \/ CheckKeyOwner(t) \/ ReadKey(t)
  \/ CheckMessage(t) \/ PushMessage(t)
  \/ GatherMessages(t) \/ ClearMessages(t)
  \/ Reply(t)

(* Every connection has been served; a deadlock is any other state without *)
(* a step.                                                                 *)
Finished ==
  /\ \A t \in Thread : pc[t] \in Terminal
  /\ UNCHANGED vars

Next ==
  \/ \E t \in Thread : Step(t)
  \/ \E t \in Thread, r \in Requests : ReadRequest(t, r)
  \/ Finished

Spec == Init /\ [][Next]_vars

(* The operating system keeps running every thread that can run, and       *)
(* uuid1() does not return taken identifiers forever.  Nothing forces a    *)
(* client to send.                                                         *)
FreshUuid(t) == GenerateUuid(t) /\ ~IsRegistered(uuid'[t])

FairSpec ==
  /\ Spec
  /\ \A t \in Thread : WF_vars(Step(t)) /\ SF_vars(FreshUuid(t))
-----------------------------------------------------------------------------
(* Correctness                                                             *)

(* Every variable holds a value of its type.                               *)
TypeOK ==
  /\ mutex \in Thread \cup {NoThread}
  /\ registered \subseteq UUID
  /\ users \in [registered -> ClientData]
  /\ pc \in [Thread -> Labels]
  /\ req \in [Thread -> Requests \cup {NoRequest}]
  /\ uuid \in [Thread -> UUID \cup {NullUuid}]
  /\ todo \in [Thread -> SUBSET UUID]
  /\ size \in [Thread -> Nat]
  /\ nodes \in [Thread -> SUBSET (UUID \X (Name \cup PublicKey))]
  /\ messages \in [Thread -> Seq(Message)]
  /\ resp \in [Thread -> ResponseCodes \cup {0}]
  /\ mailed \in [UUID -> Seq(Message)]
  /\ handed \in [UUID -> Seq(Message)]

(* No self.users[uuid] of the handlers raises KeyError: the is_registered  *)
(* or is_sender_valid that came before it, in a lock section of its own,   *)
(* still holds when the record is used.                                    *)
KeyErrorFree == \A t \in Thread : pc[t] # "KeyError"

(* The walk of username_exists over self.users never sees it resized: only *)
(* the walk of handle_user_list, which takes no lock, can fail that way.   *)
RuntimeErrorOnlyInList ==
  \A t \in Thread : pc[t] = "RuntimeError" => req[t].code = UserListReq

Queue(u) == IF u \in registered THEN users[u].recv_messages ELSE <<>>

(* No message falls between joining the list and clearing it, and none is  *)
(* handed out twice: what was pushed for a user is what was taken out for  *)
(* it followed by what waits, in order.                                    *)
NothingLost == \A u \in UUID : mailed[u] = handed[u] \o Queue(u)

(* The positions of connection t's message among those ever stored for u.  *)
Copies(t, u) == {i \in DOMAIN mailed[u] : mailed[u][i].content = t}

(* An acknowledged message is stored once, for its addressee and under its *)
(* sender's id, and no other request stores anything: a refused or failed  *)
(* handle_send_message leaves no trace.                                    *)
AckedIsMailed ==
  \A t \in Thread :
    IF resp[t] = SendMessageRes
    THEN /\ \E i \in DOMAIN mailed[req[t].dest] :
              /\ Copies(t, req[t].dest) = {i}
              /\ mailed[req[t].dest][i].client_id = req[t].client_id
         /\ \A u \in UUID \ {req[t].dest} : Copies(t, u) = {}
    ELSE \A u \in UUID : Copies(t, u) = {}

(* Every message that waits for a user is one its client can read: the     *)
(* client accepts its type and size, finds the next message where the size *)
(* says, and can look its sender up among the registered users.            *)
StoredParses ==
  \A u \in registered : \A i \in DOMAIN users[u].recv_messages :
    LET m == users[u].recv_messages[i]
    IN  /\ DeserializesAtClient(m)
        /\ m.content_size = m.length
        /\ m.client_id \in registered

(* A thread that answers a registration answers with an id that is its     *)
(* own: the record under it carries the name and key of its request, and   *)
(* no other registration was given it.  Needs Uuid1Unique.                 *)
RegisterResIsMine ==
  \A t \in Thread : resp[t] = RegisterRes =>
    /\ uuid[t] \in registered
    /\ users[uuid[t]].name = req[t].name
    /\ users[uuid[t]].public_key = req[t].public_key
    /\ \A s \in Thread \ {t} : resp[s] = RegisterRes => uuid[s] # uuid[t]

(* username_exists and add_user are two lock sections, so two users may    *)
(* get one name; but only when neither had been added at the other's scan. *)
DuplicatesOverlap ==
  \A s, t \in Thread :
    /\ s # t /\ req[s] # NoRequest /\ req[t] # NoRequest
    /\ resp[s] = RegisterRes /\ resp[t] = RegisterRes
    /\ req[s].name = req[t].name
    => uuid[s] \notin todo[t]

(* An identifier that a registration was answered with is never found free *)
(* by the loop of another, although uuid1() may return it again: the two   *)
(* can share one only if each was found free before the other was added.   *)
AnsweredIsTaken ==
  [][\A s, t \in Thread :
       resp[s] = RegisterRes /\ pc[t] # "add" /\ pc'[t] = "add" => uuid'[t] # uuid[s]]_vars

(* A user is never removed, and its name and public key never change, even *)
(* when a registration is given an identifier that is taken.               *)
RecordsImmutable ==
  [][\A u \in registered :
       /\ u \in DOMAIN users'
       /\ users'[u].name = users[u].name
       /\ users'[u].public_key = users[u].public_key]_vars

OthersThan(u) == {<<v, users[v].name>> : v \in registered \ {u}}

(* A list is answered with exactly the users registered at that moment but *)
(* for its sender, although it was put together with no lock.              *)
ListExact ==
  [][\A t \in Thread :
       pc[t] = "iter" /\ pc'[t] = "reply" => nodes[t] = OthersThan(req[t].client_id)]_vars

(* Every connection that sent a request is closed: no thread waits for the *)
(* lock, walks the dictionary or draws identifiers for ever.               *)
Answered == \A t \in Thread : pc[t] # "idle" ~> pc[t] \in Terminal
-----------------------------------------------------------------------------
(* What the comments of the repository say, and the code does not keep.    *)

(* Client.cpp, HandleList: "names are also unique".                        *)
UniqueNames ==
  \A u, v \in registered : u # v => users[u].name # users[v].name

(* client_handler.py, locker: "preventing race conditioning".              *)
NoRuntimeError == \A t \in Thread : pc[t] # "RuntimeError"
=============================================================================
