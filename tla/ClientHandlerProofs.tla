------------------------ MODULE ClientHandlerProofs -------------------------
(***************************************************************************)
(* What ClientHandler guarantees for every set of threads, identifiers,    *)
(* names, keys and requests: its types, the exclusion its lock gives, no   *)
(* KeyError, no message lost, exact lists and immutable records.           *)
(***************************************************************************)
EXTENDS ClientHandler, FiniteSetTheorems, SequenceTheorems, TLAPS

-----------------------------------------------------------------------------
(* The inductive invariant.                                                *)

(* The mutex is held by the one thread inside a multi-step locked function.*)
LockInv == \A t \in Thread : pc[t] \in {"scan", "clear"} <=> mutex = t

(* What a thread knows of the request it handles.                          *)
RequestInv ==
  \A t \in Thread :
    /\ pc[t] # "idle" => req[t] \in Requests
    /\ pc[t] = "sender" => req[t].code \in RequestCodes \ {RegisterReq}
    /\ pc[t] \in {"list", "iter"} => req[t].code = UserListReq
    /\ pc[t] = "push" => ContentLength(req[t]) \in Nat

(* Checks made in earlier lock sections still hold, as no user is removed. *)
CheckedInv ==
  \A t \in Thread :
    /\ pc[t] \in {"list", "iter", "pk", "readpk", "send", "push", "gather", "clear"}
         => req[t].client_id \in registered
    /\ pc[t] \in {"readpk", "push"} => req[t].dest \in registered
    /\ pc[t] \in {"fresh", "add"} => uuid[t] \in UUID

(* What the lock keeps still between the two steps of its holder.          *)
HeldInv ==
  \A t \in Thread :
    /\ pc[t] = "scan" => size[t] = Cardinality(registered)
    /\ pc[t] = "clear" => messages[t] = users[req[t].client_id].recv_messages

(* The walk of handle_user_list is over the dictionary S it began with,    *)
(* of whose users it has put all but todo[t] and its own on the list.      *)
WalkOver(t, S) ==
  /\ S \subseteq registered
  /\ size[t] = Cardinality(S)
  /\ todo[t] \subseteq S
  /\ nodes[t] =
       {<<u, users[u].name>> : u \in (S \ todo[t]) \ {req[t].client_id}}

WalkInv ==
  \A t \in Thread :
    /\ pc[t] \in {"idle", "sender", "list"} => nodes[t] = {}
    /\ pc[t] = "iter" => \E S \in SUBSET registered : WalkOver(t, S)

IInv ==
  /\ TypeOK
  /\ IsFiniteSet(registered)
  /\ LockInv
  /\ RequestInv
  /\ CheckedInv
  /\ HeldInv
  /\ WalkInv
  /\ KeyErrorFree
  /\ RuntimeErrorOnlyInList
  /\ NothingLost
-----------------------------------------------------------------------------
(* A request that is read is one of Requests, and every response code is a *)
(* number of its own.                                                      *)
LEMMA RequestFields ==
  ASSUME NEW r \in Requests
  PROVE  /\ r \in Request /\ r # NoRequest
         /\ ContentLength(r) \in Int
         /\ WellFormed(r) => r.code \in RequestCodes
  BY ConstantsAssumption
  DEF Request, ContentLength, SUB_HEADER_SIZE, UUID_LEN, WellFormed, HeaderValid

(* The label of a handler tells the request.                               *)
LEMMA HandlerLabel ==
  ASSUME NEW code \in RequestCodes
  PROVE  /\ Handler(code) \in {"name", "list", "pk", "send", "gather"}
         /\ Handler(code) = "list" => code = UserListReq
         /\ code = RegisterReq => Handler(code) = "name"
  BY DEF Handler, RequestCodes, RegisterReq, UserListReq, GetPKReq, SendMessageReq,
         GetMessagesReq

(* The server starts with no users and no requests.                        *)
LEMMA InitInv == Init => IInv
  <1> SUFFICES ASSUME Init PROVE IInv
    OBVIOUS
  <1> USE DEF Init, Quiet
  <1>1. registered = {} /\ IsFiniteSet(registered)
    BY FS_EmptySet DEF registered
  <1>2. TypeOK
    BY <1>1 DEF TypeOK, registered, Labels, Terminal, ResponseCodes
  <1>3. LockInv /\ RequestInv /\ CheckedInv /\ HeldInv /\ WalkInv
    BY ConstantsAssumption DEF LockInv, RequestInv, CheckedInv, HeldInv, WalkInv
  <1>4. KeyErrorFree /\ RuntimeErrorOnlyInList
    BY DEF KeyErrorFree, RuntimeErrorOnlyInList
  <1>5. NothingLost
    BY <1>1 DEF NothingLost, Queue
  <1> QED
    BY <1>1, <1>2, <1>3, <1>4, <1>5 DEF IInv
-----------------------------------------------------------------------------
(* An element is added to a thread's set, or is made its only element.     *)
LEMMA SetUpdate ==
  ASSUME NEW S, NEW f \in [Thread -> SUBSET S], NEW t \in Thread, NEW x \in S
  PROVE  /\ [f EXCEPT ![t] = @ \cup {x}] \in [Thread -> SUBSET S]
         /\ [f EXCEPT ![t] = {x}] \in [Thread -> SUBSET S]
  OBVIOUS

(* The types are preserved.                                                *)
LEMMA TypeStep ==
  ASSUME IInv, [Next]_vars
  PROVE  TypeOK'
  <1> USE DEF IInv, TypeOK, registered, Goto, Answer, locals, history
  <1>L. {"idle", "sender", "name", "scan", "uuid", "fresh", "add", "list", "iter",
         "pk", "readpk", "send", "push", "gather", "clear", "reply", "done",
         "KeyError", "RuntimeError", "StructError"} \subseteq Labels
    BY DEF Labels, Terminal, Failures
  <1>R. {CommunicationError, RegisterRes, UserListRes, GetPKRes, SendMessageRes,
         GetMessagesRes} \subseteq ResponseCodes
    BY DEF ResponseCodes
  <1>C. Cardinality(registered) \in Nat
    BY FS_CardinalityType
  <1>U. \A u \in registered :
          /\ u \in UUID /\ users[u] \in ClientData
          /\ users[u].name \in Name /\ users[u].public_key \in PublicKey
          /\ users[u].recv_messages \in Seq(Message)
    BY DEF ClientData
  <1>1. ASSUME NEW t \in Thread, NEW r \in Requests, ReadRequest(t, r) PROVE TypeOK'
    <2>1. WellFormed(r) => Handler(r.code) \in Labels
      BY <1>L, RequestFields, HandlerLabel
    <2>2. req' \in [Thread -> Requests \cup {NoRequest}]
      BY <1>1 DEF ReadRequest
    <2>3. \E label \in Labels : pc' = [pc EXCEPT ![t] = label]
      BY <1>1, <2>1, <1>L DEF ReadRequest
    <2>4. pc' \in [Thread -> Labels]
      BY <2>3
    <2>5. resp' = resp \/ resp' = [resp EXCEPT ![t] = CommunicationError]
      BY <1>1 DEF ReadRequest
    <2>6. resp' \in [Thread -> ResponseCodes \cup {0}]
      BY <2>5, <1>R
    <2>7. UNCHANGED <<mutex, users, uuid, todo, size, nodes, messages, mailed, handed>>
      BY <1>1 DEF ReadRequest
    <2> QED
      BY <2>2, <2>4, <2>6, <2>7
  <1>2. ASSUME NEW t \in Thread, CheckSender(t) PROVE TypeOK'
    <2>1. Handler(req[t].code) \in Labels
      BY <1>2, <1>L, HandlerLabel DEF CheckSender, RequestInv
    <2> QED
      BY ZenonT(60), <1>2, <2>1, <1>L, <1>R DEF CheckSender
  <1>3. ASSUME NEW t \in Thread, BeginScan(t) PROVE TypeOK'
    BY <1>3, <1>L, <1>C DEF BeginScan
  <1>4. ASSUME NEW t \in Thread, EndScan(t) PROVE TypeOK'
    BY ZenonT(60), <1>4, <1>L, <1>R DEF EndScan
  <1>5. ASSUME NEW t \in Thread, GenerateUuid(t) PROVE TypeOK'
    BY <1>5, <1>L DEF GenerateUuid, Uuid1
  <1>6. ASSUME NEW t \in Thread, CheckFresh(t) PROVE TypeOK'
    BY <1>6, <1>L DEF CheckFresh
  <1>7. ASSUME NEW t \in Thread, AddUser(t) PROVE TypeOK'
    <2>1. ClientDataOf(req[t]) \in ClientData
      BY <1>7, RequestFields DEF AddUser, RequestInv, ClientDataOf, ClientData, Request
    <2>2. uuid[t] \in UUID
      BY <1>7 DEF AddUser, CheckedInv
    <2>3. /\ users' \in [registered \cup {uuid[t]} -> ClientData]
          /\ DOMAIN users' = registered \cup {uuid[t]}
      BY <1>7, <2>1 DEF AddUser, UsersWith
    <2> QED
      BY <1>7, <2>2, <2>3, <1>L, <1>R DEF AddUser
  <1>8. ASSUME NEW t \in Thread, BeginList(t) PROVE TypeOK'
    BY <1>8, <1>L, <1>C DEF BeginList
  <1>9. ASSUME NEW t \in Thread, ListNode(t) PROVE TypeOK'
    <2>1. PICK u \in todo[t] :
            /\ todo' = [todo EXCEPT ![t] = @ \ {u}]
            /\ \/ UNCHANGED nodes
               \/ nodes' = [nodes EXCEPT ![t] = @ \cup {<<u, users[u].name>>}]
      BY <1>9 DEF ListNode
    <2>2. u \in registered
      BY <1>9 DEF ListNode, WalkInv, WalkOver
    <2>3. <<u, users[u].name>> \in UUID \X (Name \cup PublicKey)
      BY <2>2, <1>U
    <2>4. [nodes EXCEPT ![t] = @ \cup {<<u, users[u].name>>}]
            \in [Thread -> SUBSET (UUID \X (Name \cup PublicKey))]
      BY <2>3, SetUpdate
    <2>5. nodes' \in [Thread -> SUBSET (UUID \X (Name \cup PublicKey))]
      BY <2>1, <2>4
    <2> QED
      BY <1>9, <2>1, <2>5 DEF ListNode
  <1>10. ASSUME NEW t \in Thread, EndList(t) PROVE TypeOK'
    BY <1>10, <1>L, <1>R DEF EndList
  <1>11. ASSUME NEW t \in Thread, ListFails(t) PROVE TypeOK'
    BY <1>11, <1>L DEF ListFails
  <1>12. ASSUME NEW t \in Thread, CheckKeyOwner(t) PROVE TypeOK'
    BY ZenonT(60), <1>12, <1>L, <1>R DEF CheckKeyOwner
  <1>13. ASSUME NEW t \in Thread, ReadKey(t) PROVE TypeOK'
    <2>1. req[t].dest \in registered =>
            <<req[t].dest, users[req[t].dest].public_key>> \in UUID \X (Name \cup PublicKey)
      BY <1>U
    <2>3. req[t].dest \in registered =>
            [nodes EXCEPT ![t] = {<<req[t].dest, users[req[t].dest].public_key>>}]
              \in [Thread -> SUBSET (UUID \X (Name \cup PublicKey))]
      BY <2>1, SetUpdate
    <2>2. nodes' \in [Thread -> SUBSET (UUID \X (Name \cup PublicKey))]
      BY <1>13, <2>3 DEF ReadKey
    <2> QED
      BY ZenonT(60), <1>13, <2>2, <1>L, <1>R DEF ReadKey
  <1>14. ASSUME NEW t \in Thread, CheckMessage(t) PROVE TypeOK'
    BY ZenonT(60), <1>14, <1>L, <1>R DEF CheckMessage
  <1>15. ASSUME NEW t \in Thread, PushMessage(t) PROVE TypeOK'
    <2> DEFINE dest == req[t].dest
    <2>1. Stored(t) \in Message
      BY <1>15, RequestFields DEF PushMessage, RequestInv, Stored, Message, Request
    <2>2. dest \in registered
      BY <1>15 DEF PushMessage, CheckedInv
    <2>3. /\ Append(users[dest].recv_messages, Stored(t)) \in Seq(Message)
          /\ Append(mailed[dest], Stored(t)) \in Seq(Message)
      BY <2>1, <2>2, AppendProperties DEF ClientData
    <2>5. [users[dest] EXCEPT !.recv_messages = Append(@, Stored(t))] \in ClientData
      BY <2>2, <2>3, <1>U DEF ClientData
    <2>4. /\ users' \in [registered -> ClientData]
          /\ DOMAIN users' = registered
          /\ mailed' \in [UUID -> Seq(Message)]
      BY <1>15, <2>2, <2>3, <2>5 DEF PushMessage
    <2> QED
      BY ZenonT(60), <1>15, <2>2, <2>4, <1>L, <1>R DEF PushMessage
  <1>16. ASSUME NEW t \in Thread, GatherMessages(t) PROVE TypeOK'
    <2>1. messages' \in [Thread -> Seq(Message)]
      BY <1>16, <1>U DEF GatherMessages
    <2> QED
      BY <1>16, <2>1, <1>L DEF GatherMessages
  <1>17. ASSUME NEW t \in Thread, ClearMessages(t) PROVE TypeOK'
    <2> DEFINE me == req[t].client_id
    <2>1. me \in registered
      BY <1>17 DEF ClearMessages, CheckedInv
    <2>2. handed[me] \o messages[t] \in Seq(Message)
      BY <2>1, ConcatProperties
    <2>5. <<>> \in Seq(Message)
      OBVIOUS
    <2>4. [users[me] EXCEPT !.recv_messages = <<>>] \in ClientData
      BY <2>1, <2>5, <1>U DEF ClientData
    <2>3. /\ users' \in [registered -> ClientData]
          /\ DOMAIN users' = registered
          /\ handed' \in [UUID -> Seq(Message)]
      BY <1>17, <2>1, <2>2, <2>4 DEF ClearMessages
    <2> QED
      BY <1>17, <2>3, <1>L, <1>R DEF ClearMessages
  <1>18. ASSUME NEW t \in Thread, Reply(t) PROVE TypeOK'
    BY <1>18, <1>L DEF Reply
  <1>19. CASE UNCHANGED vars
    BY <1>19 DEF vars
  <1> QED
    BY <1>1, <1>2, <1>3, <1>4, <1>5, <1>6, <1>7, <1>8, <1>9, <1>10, <1>11, <1>12, <1>13,
       <1>14, <1>15, <1>16, <1>17, <1>18, <1>19 DEF Next, Step, Finished

-----------------------------------------------------------------------------
(* No step removes a user or changes its name or key.                      *)
LEMMA RecordsStep ==
  ASSUME IInv, [Next]_vars
  PROVE  \A u \in registered :
           /\ u \in registered'
           /\ users'[u].name = users[u].name
           /\ users'[u].public_key = users[u].public_key
  <1> USE DEF IInv, TypeOK, registered, locals, history
  <1>1. ASSUME NEW t \in Thread, AddUser(t), NEW u \in registered
        PROVE  u \in registered' /\ users'[u] = users[u]
    BY <1>1 DEF AddUser, UsersWith
  <1>2. ASSUME NEW t \in Thread, PushMessage(t), NEW u \in registered
        PROVE  /\ u \in registered'
               /\ users'[u].name = users[u].name
               /\ users'[u].public_key = users[u].public_key
    <2> DEFINE queue == Append(users[req[t].dest].recv_messages, Stored(t))
    <2>1. users[u] \in ClientData
      OBVIOUS
    <2>2. \/ users' = users
          \/ users' = [users EXCEPT ![req[t].dest].recv_messages = queue]
      BY <1>2 DEF PushMessage
    <2> HIDE DEF queue
    <2>3. CASE users' = users
      BY <2>3
    <2>4. CASE users' = [users EXCEPT ![req[t].dest].recv_messages = queue]
      <3>1. DOMAIN users' = DOMAIN users
        BY <2>4
      <3>2. CASE u = req[t].dest
        <4>1. users'[u] = [users[u] EXCEPT !.recv_messages = queue]
          BY <2>4, <3>2
        <4> QED
          BY <2>1, <3>1, <4>1 DEF ClientData
      <3>3. CASE u # req[t].dest
        <4>1. users'[u] = users[u]
          BY <2>4, <3>3
        <4> QED
          BY <3>1, <4>1
      <3> QED
        BY <3>2, <3>3
    <2> QED
      BY <2>2, <2>3, <2>4
  <1>3. ASSUME NEW t \in Thread, ClearMessages(t), NEW u \in registered
        PROVE  /\ u \in registered'
               /\ users'[u].name = users[u].name
               /\ users'[u].public_key = users[u].public_key
    BY <1>3 DEF ClearMessages, ClientData
  <1>4. ASSUME UNCHANGED users, NEW u \in registered
        PROVE  u \in registered' /\ users'[u] = users[u]
    BY <1>4
  <1>5. ASSUME NEW t \in Thread, Step(t)
        PROVE  AddUser(t) \/ PushMessage(t) \/ ClearMessages(t) \/ UNCHANGED users
    BY <1>5 DEF Step, CheckSender, BeginScan, EndScan, GenerateUuid, CheckFresh, BeginList,
       ListNode, EndList, ListFails, CheckKeyOwner, ReadKey, CheckMessage, GatherMessages,
       Reply
  <1> QED
    BY <1>1, <1>2, <1>3, <1>4, <1>5 DEF Next, Finished, ReadRequest, vars

(* The mutex is held exactly by the thread between the two steps of a      *)
(* locked function.                                                        *)
LEMMA LockStep ==
  ASSUME IInv, [Next]_vars
  PROVE  LockInv'
  <1> USE ConstantsAssumption DEF IInv, TypeOK, LockInv, Goto, Answer, locals, history, Free
  <1>1. ASSUME NEW t \in Thread, NEW r \in Requests, ReadRequest(t, r) PROVE LockInv'
    BY <1>1, RequestFields, HandlerLabel DEF ReadRequest
  <1>2. ASSUME NEW t \in Thread, CheckSender(t) PROVE LockInv'
    BY <1>2, HandlerLabel DEF CheckSender, RequestInv
  <1>3. ASSUME NEW t \in Thread, BeginScan(t) PROVE LockInv'
    BY <1>3 DEF BeginScan
  <1>4. ASSUME NEW t \in Thread, EndScan(t) PROVE LockInv'
    BY <1>4 DEF EndScan
  <1>5. ASSUME NEW t \in Thread, GenerateUuid(t) PROVE LockInv'
    BY <1>5 DEF GenerateUuid
  <1>6. ASSUME NEW t \in Thread, CheckFresh(t) PROVE LockInv'
    BY <1>6 DEF CheckFresh
  <1>7. ASSUME NEW t \in Thread, AddUser(t) PROVE LockInv'
    BY <1>7 DEF AddUser
  <1>8. ASSUME NEW t \in Thread, BeginList(t) PROVE LockInv'
    BY <1>8 DEF BeginList
  <1>9. ASSUME NEW t \in Thread, ListNode(t) PROVE LockInv'
    BY <1>9 DEF ListNode
  <1>10. ASSUME NEW t \in Thread, EndList(t) PROVE LockInv'
    BY <1>10 DEF EndList
  <1>11. ASSUME NEW t \in Thread, ListFails(t) PROVE LockInv'
    BY <1>11 DEF ListFails
  <1>12. ASSUME NEW t \in Thread, CheckKeyOwner(t) PROVE LockInv'
    BY <1>12 DEF CheckKeyOwner
  <1>13. ASSUME NEW t \in Thread, ReadKey(t) PROVE LockInv'
    BY <1>13 DEF ReadKey
  <1>14. ASSUME NEW t \in Thread, CheckMessage(t) PROVE LockInv'
    BY <1>14 DEF CheckMessage
  <1>15. ASSUME NEW t \in Thread, PushMessage(t) PROVE LockInv'
    BY <1>15 DEF PushMessage
  <1>16. ASSUME NEW t \in Thread, GatherMessages(t) PROVE LockInv'
    BY <1>16 DEF GatherMessages
  <1>17. ASSUME NEW t \in Thread, ClearMessages(t) PROVE LockInv'
    BY <1>17 DEF ClearMessages
  <1>18. ASSUME NEW t \in Thread, Reply(t) PROVE LockInv'
    BY <1>18 DEF Reply
  <1>19. CASE UNCHANGED vars
    BY <1>19 DEF vars
  <1> QED
    BY <1>1, <1>2, <1>3, <1>4, <1>5, <1>6, <1>7, <1>8, <1>9, <1>10, <1>11, <1>12, <1>13,
       <1>14, <1>15, <1>16, <1>17, <1>18, <1>19 DEF Next, Step, Finished

(* What a thread knows of its request.                                     *)
LEMMA RequestStep ==
  ASSUME IInv, [Next]_vars
  PROVE  RequestInv'
  <1> USE ConstantsAssumption DEF IInv, TypeOK, RequestInv, Goto, Answer, locals, history
  <1>1. ASSUME NEW t \in Thread, NEW r \in Requests, ReadRequest(t, r) PROVE RequestInv'
    <2>1. WellFormed(r) =>
            /\ r.code \in RequestCodes
            /\ r.code = RegisterReq => Handler(r.code) = "name"
      BY RequestFields, HandlerLabel
    <2> QED
      BY <1>1, <2>1 DEF ReadRequest
  <1>2. ASSUME NEW t \in Thread, CheckSender(t) PROVE RequestInv'
    <2>1. /\ Handler(req[t].code) \in {"name", "list", "pk", "send", "gather"}
          /\ Handler(req[t].code) = "list" => req[t].code = UserListReq
      BY <1>2, HandlerLabel DEF CheckSender
    <2> QED
      BY <1>2, <2>1 DEF CheckSender
  <1>3. ASSUME NEW t \in Thread, BeginScan(t) PROVE RequestInv'
    BY <1>3 DEF BeginScan
  <1>4. ASSUME NEW t \in Thread, EndScan(t) PROVE RequestInv'
    BY <1>4 DEF EndScan
  <1>5. ASSUME NEW t \in Thread, GenerateUuid(t) PROVE RequestInv'
    BY <1>5 DEF GenerateUuid
  <1>6. ASSUME NEW t \in Thread, CheckFresh(t) PROVE RequestInv'
    BY <1>6 DEF CheckFresh
  <1>7. ASSUME NEW t \in Thread, AddUser(t) PROVE RequestInv'
    BY <1>7 DEF AddUser
  <1>8. ASSUME NEW t \in Thread, BeginList(t) PROVE RequestInv'
    BY <1>8 DEF BeginList
  <1>9. ASSUME NEW t \in Thread, ListNode(t) PROVE RequestInv'
    BY <1>9 DEF ListNode
  <1>10. ASSUME NEW t \in Thread, EndList(t) PROVE RequestInv'
    BY <1>10 DEF EndList
  <1>11. ASSUME NEW t \in Thread, ListFails(t) PROVE RequestInv'
    BY <1>11 DEF ListFails
  <1>12. ASSUME NEW t \in Thread, CheckKeyOwner(t) PROVE RequestInv'
    BY <1>12 DEF CheckKeyOwner
  <1>13. ASSUME NEW t \in Thread, ReadKey(t) PROVE RequestInv'
    BY <1>13 DEF ReadKey
  <1>14. ASSUME NEW t \in Thread, CheckMessage(t) PROVE RequestInv'
    <2>1. ContentLength(req[t]) \in Int
      BY <1>14, RequestFields DEF CheckMessage
    <2> QED
      BY <1>14, <2>1 DEF CheckMessage
  <1>15. ASSUME NEW t \in Thread, PushMessage(t) PROVE RequestInv'
    BY <1>15 DEF PushMessage
  <1>16. ASSUME NEW t \in Thread, GatherMessages(t) PROVE RequestInv'
    BY <1>16 DEF GatherMessages
  <1>17. ASSUME NEW t \in Thread, ClearMessages(t) PROVE RequestInv'
    BY <1>17 DEF ClearMessages
  <1>18. ASSUME NEW t \in Thread, Reply(t) PROVE RequestInv'
    BY <1>18 DEF Reply
  <1>19. CASE UNCHANGED vars
    BY <1>19 DEF vars
  <1> QED
    BY <1>1, <1>2, <1>3, <1>4, <1>5, <1>6, <1>7, <1>8, <1>9, <1>10, <1>11, <1>12, <1>13,
       <1>14, <1>15, <1>16, <1>17, <1>18, <1>19 DEF Next, Step, Finished

(* Registered once, registered for good: checks keep holding.              *)
LEMMA CheckedStep ==
  ASSUME IInv, [Next]_vars
  PROVE  CheckedInv'
  <1>R. \A u \in registered : u \in registered'
    BY RecordsStep
  <1> USE DEF IInv, TypeOK, CheckedInv, Goto, Answer, locals, history
  <1>1. ASSUME NEW t \in Thread, NEW r \in Requests, ReadRequest(t, r) PROVE CheckedInv'
    <2>1. WellFormed(r) /\ r.code = RegisterReq => Handler(r.code) = "name"
      BY RequestFields, HandlerLabel
    <2> QED
      BY <1>1, <1>R, <2>1 DEF ReadRequest
  <1>2. ASSUME NEW t \in Thread, CheckSender(t) PROVE CheckedInv'
    <2>1. Handler(req[t].code) \in {"name", "list", "pk", "send", "gather"}
      BY <1>2, HandlerLabel DEF CheckSender, RequestInv
    <2> QED
      BY <1>2, <1>R, <2>1 DEF CheckSender, IsRegistered
  <1>3. ASSUME NEW t \in Thread, BeginScan(t) PROVE CheckedInv'
    BY <1>3, <1>R DEF BeginScan
  <1>4. ASSUME NEW t \in Thread, EndScan(t) PROVE CheckedInv'
    BY <1>4, <1>R DEF EndScan
  <1>5. ASSUME NEW t \in Thread, GenerateUuid(t) PROVE CheckedInv'
    BY <1>5, <1>R DEF GenerateUuid, Uuid1
  <1>6. ASSUME NEW t \in Thread, CheckFresh(t) PROVE CheckedInv'
    BY <1>6, <1>R DEF CheckFresh
  <1>7. ASSUME NEW t \in Thread, AddUser(t) PROVE CheckedInv'
    BY <1>7, <1>R DEF AddUser
  <1>8. ASSUME NEW t \in Thread, BeginList(t) PROVE CheckedInv'
    BY <1>8, <1>R DEF BeginList
  <1>9. ASSUME NEW t \in Thread, ListNode(t) PROVE CheckedInv'
    BY <1>9, <1>R DEF ListNode
  <1>10. ASSUME NEW t \in Thread, EndList(t) PROVE CheckedInv'
    BY <1>10, <1>R DEF EndList
  <1>11. ASSUME NEW t \in Thread, ListFails(t) PROVE CheckedInv'
    BY <1>11, <1>R DEF ListFails
  <1>12. ASSUME NEW t \in Thread, CheckKeyOwner(t) PROVE CheckedInv'
    BY <1>12, <1>R DEF CheckKeyOwner, IsRegistered
  <1>13. ASSUME NEW t \in Thread, ReadKey(t) PROVE CheckedInv'
    BY <1>13, <1>R DEF ReadKey
  <1>14. ASSUME NEW t \in Thread, CheckMessage(t) PROVE CheckedInv'
    BY <1>14, <1>R DEF CheckMessage, IsRegistered
  <1>15. ASSUME NEW t \in Thread, PushMessage(t) PROVE CheckedInv'
    BY <1>15, <1>R DEF PushMessage
  <1>16. ASSUME NEW t \in Thread, GatherMessages(t) PROVE CheckedInv'
    BY <1>16, <1>R DEF GatherMessages
  <1>17. ASSUME NEW t \in Thread, ClearMessages(t) PROVE CheckedInv'
    BY <1>17, <1>R DEF ClearMessages
  <1>18. ASSUME NEW t \in Thread, Reply(t) PROVE CheckedInv'
    BY <1>18, <1>R DEF Reply
  <1>19. CASE UNCHANGED vars
    BY <1>19, <1>R DEF vars
  <1> QED
    BY <1>1, <1>2, <1>3, <1>4, <1>5, <1>6, <1>7, <1>8, <1>9, <1>10, <1>11, <1>12, <1>13,
       <1>14, <1>15, <1>16, <1>17, <1>18, <1>19 DEF Next, Step, Finished

(* The dictionary stays finite.                                            *)
LEMMA FiniteStep ==
  ASSUME IInv, [Next]_vars
  PROVE  IsFiniteSet(registered)'
  <1> USE DEF IInv, TypeOK, registered, locals, history
  <1>1. ASSUME NEW t \in Thread, AddUser(t)
        PROVE  DOMAIN users' = DOMAIN users \cup {uuid[t]}
    BY <1>1 DEF AddUser, UsersWith
  <1>2. ASSUME NEW t \in Thread, Step(t)
        PROVE  AddUser(t) \/ DOMAIN users' = DOMAIN users
    BY <1>2 DEF Step, CheckSender, BeginScan, EndScan, GenerateUuid, CheckFresh, BeginList,
       ListNode, EndList, ListFails, CheckKeyOwner, ReadKey, CheckMessage, PushMessage,
       GatherMessages, ClearMessages, Reply
  <1>3. DOMAIN users' = DOMAIN users \/ \E t \in Thread : AddUser(t)
    BY <1>2 DEF Next, Finished, ReadRequest, vars
  <1>4. ASSUME NEW t \in Thread
        PROVE  IsFiniteSet(DOMAIN users \cup {uuid[t]})
    BY FS_AddElement
  <1> QED
    BY ZenonT(60), <1>1, <1>3, <1>4

(* While a thread is between the two steps of a locked function, no other  *)
(* thread is, and no locked step is taken.                                 *)
LEMMA Exclusion ==
  ASSUME IInv, NEW s \in Thread, pc[s] \in {"scan", "clear"}
  PROVE  /\ ~Free
         /\ \A t \in Thread : pc[t] \in {"scan", "clear"} => t = s
  BY ConstantsAssumption DEF IInv, LockInv, Free

(* Nobody comes between the two halves of a fetch.                         *)
LEMMA HeldStep ==
  ASSUME IInv, [Next]_vars
  PROVE  HeldInv'
  <1> USE DEF IInv, TypeOK, HeldInv, Goto, Answer, locals, history, registered
  <1>1. ASSUME NEW t \in Thread, NEW r \in Requests, ReadRequest(t, r) PROVE HeldInv'
    BY <1>1, RequestFields, HandlerLabel DEF ReadRequest
  <1>2. ASSUME NEW t \in Thread, CheckSender(t) PROVE HeldInv'
    BY <1>2, HandlerLabel DEF CheckSender, RequestInv
  <1>3. ASSUME NEW t \in Thread, BeginScan(t) PROVE HeldInv'
    BY <1>3 DEF BeginScan
  <1>4. ASSUME NEW t \in Thread, EndScan(t) PROVE HeldInv'
    BY <1>4 DEF EndScan
  <1>5. ASSUME NEW t \in Thread, GenerateUuid(t) PROVE HeldInv'
    BY <1>5 DEF GenerateUuid
  <1>6. ASSUME NEW t \in Thread, CheckFresh(t) PROVE HeldInv'
    BY <1>6 DEF CheckFresh
  <1>7. ASSUME NEW t \in Thread, AddUser(t) PROVE HeldInv'
    BY <1>7, Exclusion DEF AddUser
  <1>8. ASSUME NEW t \in Thread, BeginList(t) PROVE HeldInv'
    BY <1>8 DEF BeginList
  <1>9. ASSUME NEW t \in Thread, ListNode(t) PROVE HeldInv'
    BY <1>9 DEF ListNode
  <1>10. ASSUME NEW t \in Thread, EndList(t) PROVE HeldInv'
    BY <1>10 DEF EndList
  <1>11. ASSUME NEW t \in Thread, ListFails(t) PROVE HeldInv'
    BY <1>11 DEF ListFails
  <1>12. ASSUME NEW t \in Thread, CheckKeyOwner(t) PROVE HeldInv'
    BY <1>12 DEF CheckKeyOwner
  <1>13. ASSUME NEW t \in Thread, ReadKey(t) PROVE HeldInv'
    BY <1>13 DEF ReadKey
  <1>14. ASSUME NEW t \in Thread, CheckMessage(t) PROVE HeldInv'
    BY <1>14 DEF CheckMessage
  <1>15. ASSUME NEW t \in Thread, PushMessage(t) PROVE HeldInv'
    BY <1>15, Exclusion DEF PushMessage
  <1>16. ASSUME NEW t \in Thread, GatherMessages(t) PROVE HeldInv'
    <2>1. /\ users' = users /\ req' = req /\ size' = size
          /\ \/ pc' = [pc EXCEPT ![t] = "KeyError"] /\ messages' = messages
             \/ /\ pc' = [pc EXCEPT ![t] = "clear"]
                /\ messages' = [messages EXCEPT ![t] = users[req[t].client_id].recv_messages]
      BY <1>16 DEF GatherMessages
    <2> QED
      BY <2>1
  <1>17. ASSUME NEW t \in Thread, ClearMessages(t) PROVE HeldInv'
    BY <1>17, Exclusion DEF ClearMessages
  <1>18. ASSUME NEW t \in Thread, Reply(t) PROVE HeldInv'
    BY <1>18 DEF Reply
  <1>19. CASE UNCHANGED vars
    BY <1>19 DEF vars
  <1> QED
    BY <1>1, <1>2, <1>3, <1>4, <1>5, <1>6, <1>7, <1>8, <1>9, <1>10, <1>11, <1>12, <1>13,
       <1>14, <1>15, <1>16, <1>17, <1>18, <1>19 DEF Next, Step, Finished

(* A walk goes on over the dictionary it began with.                       *)
LEMMA WalkStep ==
  ASSUME IInv, [Next]_vars
  PROVE  WalkInv'
  <1> SUFFICES ASSUME NEW s \in Thread
               PROVE  /\ pc'[s] \in {"idle", "sender", "list"} => nodes'[s] = {}
                      /\ pc'[s] = "iter" => \E S \in SUBSET registered' : WalkOver(s, S)'
    BY DEF WalkInv
  <1> DEFINE Kept == /\ pc[s] = "iter"
                     /\ todo'[s] = todo[s] /\ size'[s] = size[s]
                     /\ nodes'[s] = nodes[s] /\ req'[s] = req[s]
             Goal == /\ pc'[s] \in {"idle", "sender", "list"} =>
                           /\ pc[s] \in {"idle", "sender", "list"}
                           /\ nodes'[s] = nodes[s]
                     /\ pc'[s] = "iter" => BeginList(s) \/ ListNode(s) \/ Kept
  <1>A. Goal
    <2> USE DEF IInv, TypeOK, Goto, Answer, locals, history
    <2>1. ASSUME NEW t \in Thread, NEW r \in Requests, ReadRequest(t, r) PROVE Goal
      BY <2>1, RequestFields, HandlerLabel DEF ReadRequest
    <2>2. ASSUME NEW t \in Thread, CheckSender(t) PROVE Goal
      <3>1. Handler(req[t].code) \in {"name", "list", "pk", "send", "gather"}
        BY <2>2, HandlerLabel DEF CheckSender, RequestInv
      <3> QED
        BY <2>2, <3>1 DEF CheckSender
    <2>3. ASSUME NEW t \in Thread, BeginScan(t) PROVE Goal
      BY <2>3 DEF BeginScan
    <2>4. ASSUME NEW t \in Thread, EndScan(t) PROVE Goal
      BY <2>4 DEF EndScan
    <2>5. ASSUME NEW t \in Thread, GenerateUuid(t) PROVE Goal
      BY <2>5 DEF GenerateUuid
    <2>6. ASSUME NEW t \in Thread, CheckFresh(t) PROVE Goal
      BY <2>6 DEF CheckFresh
    <2>7. ASSUME NEW t \in Thread, AddUser(t) PROVE Goal
      BY <2>7 DEF AddUser
    <2>8. ASSUME NEW t \in Thread, BeginList(t) PROVE Goal
      BY <2>8 DEF BeginList
    <2>9. ASSUME NEW t \in Thread, ListNode(t) PROVE Goal
      BY <2>9 DEF ListNode
    <2>10. ASSUME NEW t \in Thread, EndList(t) PROVE Goal
      BY <2>10 DEF EndList
    <2>11. ASSUME NEW t \in Thread, ListFails(t) PROVE Goal
      BY <2>11 DEF ListFails
    <2>12. ASSUME NEW t \in Thread, CheckKeyOwner(t) PROVE Goal
      BY <2>12 DEF CheckKeyOwner
    <2>13. ASSUME NEW t \in Thread, ReadKey(t) PROVE Goal
      BY <2>13 DEF ReadKey
    <2>14. ASSUME NEW t \in Thread, CheckMessage(t) PROVE Goal
      BY <2>14 DEF CheckMessage
    <2>15. ASSUME NEW t \in Thread, PushMessage(t) PROVE Goal
      BY <2>15 DEF PushMessage
    <2>16. ASSUME NEW t \in Thread, GatherMessages(t) PROVE Goal
      BY <2>16 DEF GatherMessages
    <2>17. ASSUME NEW t \in Thread, ClearMessages(t) PROVE Goal
      BY <2>17 DEF ClearMessages
    <2>18. ASSUME NEW t \in Thread, Reply(t) PROVE Goal
      BY <2>18 DEF Reply
    <2>19. CASE UNCHANGED vars
      BY <2>19 DEF vars
    <2> QED
      BY <2>1, <2>2, <2>3, <2>4, <2>5, <2>6, <2>7, <2>8, <2>9, <2>10, <2>11, <2>12, <2>13,
         <2>14, <2>15, <2>16, <2>17, <2>18, <2>19 DEF Next, Step, Finished
  <1>1. pc'[s] \in {"idle", "sender", "list"} => nodes'[s] = {}
    BY <1>A DEF IInv, WalkInv
  <1>2. CASE BeginList(s)
    <2>1. nodes'[s] = {}
      BY <1>2 DEF BeginList, IInv, WalkInv
    <2>2. WalkOver(s, registered)' /\ registered' = registered
      BY <1>2, <2>1 DEF BeginList, WalkOver, registered, IInv, TypeOK
    <2> QED
      BY <1>1, <2>2
  <1>3. ASSUME NEW S \in SUBSET registered, WalkOver(s, S)
        PROVE  /\ S \in SUBSET registered'
               /\ {<<u, users'[u].name>> : u \in (S \ todo[s]) \ {req[s].client_id}} =
                  {<<u, users[u].name>> : u \in (S \ todo[s]) \ {req[s].client_id}}
    BY <1>3, RecordsStep
  <1>4. CASE pc'[s] = "iter" /\ ListNode(s)
    <2>1. PICK S \in SUBSET registered : WalkOver(s, S)
      BY <1>4 DEF ListNode, IInv, WalkInv
    <2>2. PICK u \in todo[s] :
            /\ todo' = [todo EXCEPT ![s] = @ \ {u}]
            /\ \/ u = req[s].client_id /\ UNCHANGED nodes
               \/ /\ u # req[s].client_id
                  /\ nodes' = [nodes EXCEPT ![s] = @ \cup {<<u, users[u].name>>}]
      BY <1>4 DEF ListNode
    <2>3. /\ todo'[s] = todo[s] \ {u} /\ size'[s] = size[s]
          /\ users' = users /\ req' = req
          /\ nodes'[s] = IF u = req[s].client_id THEN nodes[s]
                         ELSE nodes[s] \cup {<<u, users[u].name>>}
      BY <1>4, <2>2 DEF ListNode, IInv, TypeOK, history
    <2>4. nodes'[s] = {<<v, users[v].name>> :
                        v \in (S \ (todo[s] \ {u})) \ {req[s].client_id}}
      BY <2>1, <2>2, <2>3 DEF WalkOver
    <2>5. WalkOver(s, S)'
      BY <2>1, <2>3, <2>4 DEF WalkOver, registered
    <2> QED
      BY <1>1, <2>3, <2>5 DEF registered
  <1>5. CASE pc'[s] = "iter" /\ Kept
    <2>1. PICK S \in SUBSET registered : WalkOver(s, S)
      BY <1>5 DEF IInv, WalkInv
    <2>2. WalkOver(s, S)' /\ S \in SUBSET registered'
      BY <1>3, <1>5, <2>1 DEF WalkOver
    <2> QED
      BY <1>1, <2>2
  <1> QED
    BY <1>A, <1>1, <1>2, <1>4, <1>5

(* A key is in self.users when the handlers use it; a locked walk ends     *)
(* over the dictionary it began with.                                      *)
LEMMA ErrorStep ==
  ASSUME IInv, [Next]_vars
  PROVE  KeyErrorFree' /\ RuntimeErrorOnlyInList'
  <1> DEFINE Goal == /\ \A t \in Thread : pc'[t] # "KeyError"
                     /\ \A t \in Thread : pc'[t] = "RuntimeError" => req'[t].code = UserListReq
  <1>G. SUFFICES Goal
    BY DEF KeyErrorFree, RuntimeErrorOnlyInList
  <1> USE DEF IInv, TypeOK, KeyErrorFree, RuntimeErrorOnlyInList, Goto, Answer, locals, history
  <1>1. ASSUME NEW t \in Thread, NEW r \in Requests, ReadRequest(t, r) PROVE Goal
    <2>1. WellFormed(r) /\ r.code = RegisterReq => Handler(r.code) = "name"
      BY RequestFields, HandlerLabel
    <2> QED
      BY <1>1, <2>1 DEF ReadRequest
  <1>2. ASSUME NEW t \in Thread, CheckSender(t) PROVE Goal
    <2>1. Handler(req[t].code) \in {"name", "list", "pk", "send", "gather"}
      BY <1>2, HandlerLabel DEF CheckSender, RequestInv
    <2> QED
      BY <1>2, <2>1 DEF CheckSender
  <1>3. ASSUME NEW t \in Thread, BeginScan(t) PROVE Goal
    BY <1>3 DEF BeginScan
  <1>4. ASSUME NEW t \in Thread, EndScan(t) PROVE Goal
    BY <1>4 DEF EndScan, HeldInv, DictionaryResized
  <1>5. ASSUME NEW t \in Thread, GenerateUuid(t) PROVE Goal
    BY <1>5 DEF GenerateUuid
  <1>6. ASSUME NEW t \in Thread, CheckFresh(t) PROVE Goal
    BY <1>6 DEF CheckFresh
  <1>7. ASSUME NEW t \in Thread, AddUser(t) PROVE Goal
    BY <1>7 DEF AddUser
  <1>8. ASSUME NEW t \in Thread, BeginList(t) PROVE Goal
    BY <1>8 DEF BeginList
  <1>9. ASSUME NEW t \in Thread, ListNode(t) PROVE Goal
    BY <1>9 DEF ListNode
  <1>10. ASSUME NEW t \in Thread, EndList(t) PROVE Goal
    BY <1>10 DEF EndList
  <1>11. ASSUME NEW t \in Thread, ListFails(t) PROVE Goal
    BY <1>11 DEF ListFails, RequestInv
  <1>12. ASSUME NEW t \in Thread, CheckKeyOwner(t) PROVE Goal
    BY <1>12 DEF CheckKeyOwner
  <1>13. ASSUME NEW t \in Thread, ReadKey(t) PROVE Goal
    BY <1>13 DEF ReadKey, CheckedInv
  <1>14. ASSUME NEW t \in Thread, CheckMessage(t) PROVE Goal
    BY <1>14 DEF CheckMessage
  <1>15. ASSUME NEW t \in Thread, PushMessage(t) PROVE Goal
    BY <1>15 DEF PushMessage, CheckedInv
  <1>16. ASSUME NEW t \in Thread, GatherMessages(t) PROVE Goal
    BY <1>16 DEF GatherMessages, CheckedInv
  <1>17. ASSUME NEW t \in Thread, ClearMessages(t) PROVE Goal
    BY <1>17 DEF ClearMessages
  <1>18. ASSUME NEW t \in Thread, Reply(t) PROVE Goal
    BY <1>18 DEF Reply
  <1>19. CASE UNCHANGED vars
    BY <1>19 DEF vars
  <1> QED
    BY <1>1, <1>2, <1>3, <1>4, <1>5, <1>6, <1>7, <1>8, <1>9, <1>10, <1>11, <1>12, <1>13,
       <1>14, <1>15, <1>16, <1>17, <1>18, <1>19 DEF Next, Step, Finished

(* Appending to what waits appends to what was ever mailed, and clearing   *)
(* moves what waits, still what was joined, to what was handed out.        *)
LEMMA MailStep ==
  ASSUME IInv, [Next]_vars
  PROVE  NothingLost'
  <1> USE DEF IInv, TypeOK, registered, locals, history
  <1>Q. \A u \in UUID : Queue(u) \in Seq(Message)
    BY DEF Queue, ClientData
  <1>1. ASSUME NEW t \in Thread, AddUser(t), NEW u \in UUID
        PROVE  mailed'[u] = handed'[u] \o Queue(u)'
    <2>1. Queue(u)' = Queue(u)
      BY <1>1 DEF AddUser, UsersWith, ClientDataOf, Queue
    <2> QED
      BY <1>1, <2>1 DEF AddUser, NothingLost
  <1>2. ASSUME NEW t \in Thread, PushMessage(t), NEW u \in UUID
        PROVE  mailed'[u] = handed'[u] \o Queue(u)'
    <2> DEFINE dest == req[t].dest
               m == Stored(t)
    <2>1. dest \in registered /\ m \in Message
      BY <1>2, RequestFields
      DEF PushMessage, CheckedInv, RequestInv, Stored, Message, Request
    <2> HIDE DEF m
    <2>2. /\ users' = [users EXCEPT ![dest].recv_messages = Append(@, m)]
          /\ mailed' = [mailed EXCEPT ![dest] = Append(@, m)]
          /\ handed' = handed
      BY <1>2, <2>1 DEF PushMessage, m
    <2>3. CASE u = dest
      <3>1. Queue(u)' = Append(Queue(u), m) /\ mailed'[u] = Append(mailed[u], m)
        BY <2>1, <2>2, <2>3 DEF Queue, ClientData
      <3>2. Append(handed[u] \o Queue(u), m) = handed[u] \o Append(Queue(u), m)
        <4>1. /\ handed[u] \in Seq(Message) /\ Queue(u) \in Seq(Message)
              /\ <<m>> \in Seq(Message)
          BY <1>Q, <2>1
        <4>2. handed[u] \o Queue(u) \in Seq(Message)
          BY <4>1, ConcatProperties
        <4>3. (handed[u] \o Queue(u)) \o <<m>> = handed[u] \o (Queue(u) \o <<m>>)
          BY SMTT(30), <4>1, ConcatAssociative
        <4>4. Append(handed[u] \o Queue(u), m) = (handed[u] \o Queue(u)) \o <<m>>
          BY <2>1, <4>2, AppendIsConcat
        <4>5. Append(Queue(u), m) = Queue(u) \o <<m>>
          BY <2>1, <4>1, AppendIsConcat
        <4> QED
          BY <4>3, <4>4, <4>5
      <3> QED
        BY <2>2, <3>1, <3>2 DEF NothingLost
    <2>4. CASE u # dest
      <3>1. Queue(u)' = Queue(u) /\ mailed'[u] = mailed[u]
        BY <2>1, <2>2, <2>4 DEF Queue
      <3> QED
        BY <2>2, <3>1 DEF NothingLost
    <2> QED
      BY <2>3, <2>4
  <1>3. ASSUME NEW t \in Thread, ClearMessages(t), NEW u \in UUID
        PROVE  mailed'[u] = handed'[u] \o Queue(u)'
    <2> DEFINE me == req[t].client_id
    <2>1. /\ me \in registered
          /\ messages[t] = Queue(me)
      BY <1>3 DEF ClearMessages, CheckedInv, HeldInv, Queue
    <2>2. /\ users' = [users EXCEPT ![me].recv_messages = <<>>]
          /\ handed' = [handed EXCEPT ![me] = @ \o messages[t]]
          /\ mailed' = mailed
      BY <1>3 DEF ClearMessages
    <2>3. CASE u = me
      <3>1. Queue(u)' = <<>> /\ handed'[u] = handed[u] \o Queue(u)
        BY <2>1, <2>2, <2>3 DEF Queue, ClientData
      <3>2. handed[u] \o Queue(u) \in Seq(Message)
        BY <1>Q, ConcatProperties
      <3> QED
        BY <2>2, <3>1, <3>2, ConcatEmptySeq DEF NothingLost
    <2>4. CASE u # me
      <3>1. Queue(u)' = Queue(u) /\ handed'[u] = handed[u]
        BY <2>1, <2>2, <2>4 DEF Queue
      <3> QED
        BY <2>2, <3>1 DEF NothingLost
    <2> QED
      BY <2>3, <2>4
  <1>4. ASSUME UNCHANGED <<users, mailed, handed>>
        PROVE  NothingLost'
    BY <1>4 DEF NothingLost, Queue
  <1>5. ASSUME NEW t \in Thread, Step(t)
        PROVE  \/ AddUser(t) \/ PushMessage(t) \/ ClearMessages(t)
               \/ UNCHANGED <<users, mailed, handed>>
    BY <1>5 DEF Step, CheckSender, BeginScan, EndScan, GenerateUuid, CheckFresh, BeginList,
       ListNode, EndList, ListFails, CheckKeyOwner, ReadKey, CheckMessage, GatherMessages,
       Reply
  <1>6. \/ UNCHANGED <<users, mailed, handed>>
        \/ \E t \in Thread : AddUser(t) \/ PushMessage(t) \/ ClearMessages(t)
    BY <1>5 DEF Next, Finished, ReadRequest, vars
  <1> QED
    BY <1>1, <1>2, <1>3, <1>4, <1>6 DEF NothingLost
-----------------------------------------------------------------------------
(* The invariant holds in every reachable state.                           *)
THEOREM Invariance == Spec => []IInv
  <1>1. Init => IInv
    BY InitInv
  <1>2. IInv /\ [Next]_vars => IInv'
    <2> SUFFICES ASSUME IInv, [Next]_vars PROVE IInv'
      OBVIOUS
    <2>1. TypeOK' /\ LockInv' /\ RequestInv' /\ CheckedInv' /\ HeldInv' /\ WalkInv'
      BY TypeStep, LockStep, RequestStep, CheckedStep, HeldStep, WalkStep
    <2>2. IsFiniteSet(registered)' /\ KeyErrorFree' /\ RuntimeErrorOnlyInList' /\ NothingLost'
      BY FiniteStep, ErrorStep, MailStep
    <2> QED
      BY <2>1, <2>2 DEF IInv
  <1> QED
    BY <1>1, <1>2, PTL DEF Spec

(* Every variable of the server always holds a value of its type.          *)
THEOREM TypeCorrect == Spec => []TypeOK
  <1>1. IInv => TypeOK
    BY DEF IInv
  <1> QED
    BY <1>1, Invariance, PTL

(* The checks of the handlers are never stale when the record they checked *)
(* for is used, though the lock is given back in between.                  *)
THEOREM NoKeyError == Spec => []KeyErrorFree
  <1>1. IInv => KeyErrorFree
    BY DEF IInv
  <1> QED
    BY <1>1, Invariance, PTL

(* Only the unlocked walk of handle_user_list can find self.users resized. *)
THEOREM LockedWalkSafe == Spec => []RuntimeErrorOnlyInList
  <1>1. IInv => RuntimeErrorOnlyInList
    BY DEF IInv
  <1> QED
    BY <1>1, Invariance, PTL

(* No message pushed for a user is lost, repeated or reordered by the      *)
(* server before it is taken out for the user.                             *)
THEOREM MessagesKept == Spec => []NothingLost
  <1>1. IInv => NothingLost
    BY DEF IInv
  <1> QED
    BY <1>1, Invariance, PTL

(* Users and their names and keys are for good.                            *)
THEOREM RecordsKept == Spec => RecordsImmutable
  <1>1. IInv /\ [Next]_vars =>
          [\A u \in registered :
             /\ u \in DOMAIN users'
             /\ users'[u].name = users[u].name
             /\ users'[u].public_key = users[u].public_key]_vars
    BY RecordsStep DEF registered
  <1> QED
    BY <1>1, Invariance, PTL DEF Spec, RecordsImmutable

(* A walk that has visited all of a dictionary of the size it began with   *)
(* has listed the users of now.                                            *)
LEMMA WalkIsExact ==
  ASSUME IInv, NEW t \in Thread, pc[t] = "iter", todo[t] = {}, ~DictionaryResized(t)
  PROVE  nodes[t] = OthersThan(req[t].client_id)
  <1>1. PICK S \in SUBSET registered : WalkOver(t, S)
    BY DEF IInv, WalkInv
  <1>2. S = registered
    <2>1. Cardinality(registered) = Cardinality(S)
      BY <1>1 DEF WalkOver, DictionaryResized
    <2> QED
      BY <2>1, FS_Subset DEF IInv
  <1> QED
    BY <1>1, <1>2 DEF WalkOver, OthersThan

(* A list that is answered, although gathered with no lock, is of exactly  *)
(* the users registered at that moment.                                    *)
THEOREM ListsExact == Spec => ListExact
  <1>1. ASSUME IInv, [Next]_vars, NEW t \in Thread, pc[t] = "iter", pc'[t] = "reply"
        PROVE  nodes[t] = OthersThan(req[t].client_id)
    <2>1. todo[t] = {} /\ ~DictionaryResized(t)
      <3>1. \A s \in Thread : s # t /\ Step(s) => pc'[t] = pc[t]
        BY ZenonT(60), <1>1 DEF IInv, TypeOK, Goto, Answer, Step, CheckSender, BeginScan, EndScan,
           GenerateUuid, CheckFresh, AddUser, BeginList, ListNode, EndList, ListFails,
           CheckKeyOwner, ReadKey, CheckMessage, PushMessage, GatherMessages,
           ClearMessages, Reply
      <3>2. \A s \in Thread, r \in Requests : ReadRequest(s, r) => pc'[t] = pc[t]
        BY <1>1 DEF IInv, TypeOK, Goto, Answer, ReadRequest
      <3>3. Step(t)
        BY <1>1, <3>1, <3>2 DEF Next, Finished, vars
      <3> QED
        BY <1>1, <3>3 DEF IInv, TypeOK, Goto, Answer, Step, CheckSender, BeginScan,
           EndScan, GenerateUuid, CheckFresh, AddUser, BeginList, ListNode, EndList,
           ListFails, CheckKeyOwner, ReadKey, CheckMessage, PushMessage, GatherMessages,
           ClearMessages, Reply
    <2> QED
      BY <1>1, <2>1, WalkIsExact
  <1>2. IInv /\ [Next]_vars =>
          [\A t \in Thread :
             pc[t] = "iter" /\ pc'[t] = "reply" => nodes[t] = OthersThan(req[t].client_id)]_vars
    BY <1>1
  <1> QED
    BY <1>2, Invariance, PTL DEF Spec, ListExact
=============================================================================
