------------------------ MODULE ClientHandlerAnswers ------------------------
(***************************************************************************)
(* What the answers of ClientHandler mean, for every set of threads,       *)
(* identifiers, names, keys and requests: an acknowledged message is       *)
(* stored once and can be read, and, as long as uuid1() does not repeat    *)
(* itself, an acknowledged registration is the sender's own.               *)
(***************************************************************************)
EXTENDS ClientHandlerProofs

-----------------------------------------------------------------------------
(* The inductive invariant, on top of IInv.                                *)

(* A thread answers once, having read a request, and its label tells which *)
(* request it serves.                                                      *)
HandlerInv ==
  \A t \in Thread :
    /\ pc[t] = "idle" <=> req[t] = NoRequest
    /\ resp[t] # 0 <=> pc[t] \in {"reply", "done"}
    /\ pc[t] \notin {"idle", "reply"} \cup Terminal => WellFormed(req[t])
    /\ pc[t] \in {"name", "scan", "uuid", "fresh", "add"} => req[t].code = RegisterReq
    /\ pc[t] \in {"list", "iter"} => req[t].code = UserListReq
    /\ pc[t] \in {"pk", "readpk"} => req[t].code = GetPKReq
    /\ pc[t] \in {"send", "push"} => req[t].code = SendMessageReq
    /\ pc[t] \in {"gather", "clear"} => req[t].code = GetMessagesReq
    /\ pc[t] = "push" => BodyAccepted(req[t])

(* An acknowledged message had a registered addressee.                     *)
AddressedInv ==
  \A t \in Thread : resp[t] = SendMessageRes => req[t].dest \in registered

AInv == HandlerInv /\ AddressedInv /\ AckedIsMailed /\ StoredParses

(* The record that AddUser stored for t is still there.                    *)
IsMine(t) ==
  /\ uuid[t] \in registered
  /\ users[uuid[t]].name = req[t].name
  /\ users[uuid[t]].public_key = req[t].public_key

(* An identifier that has been drawn is drawn by no other thread, and is   *)
(* not registered until the thread that drew it adds its user.             *)
UniqueInv ==
  /\ \A s, t \in Thread : s # t /\ uuid[s] = uuid[t] => uuid[s] = NullUuid
  /\ \A t \in Thread : pc[t] \in {"fresh", "add"} => uuid[t] \notin registered
  /\ \A t \in Thread : resp[t] = RegisterRes => IsMine(t)

(* The users a registration found, when it looked for its name, have other *)
(* names, and go on having them.                                           *)
ScanInv ==
  \A t \in Thread :
    /\ pc[t] = "scan" => todo[t] \subseteq registered
    /\ pc[t] \in {"uuid", "fresh", "add"} \/ resp[t] = RegisterRes =>
         \A u \in todo[t] : u \in registered /\ users[u].name # req[t].name
-----------------------------------------------------------------------------
(* A request goes to the handler of its code.                              *)
LEMMA HandlerOf ==
  /\ Handler(RegisterReq) = "name"
  /\ Handler(UserListReq) = "list"
  /\ Handler(GetPKReq) = "pk"
  /\ Handler(SendMessageReq) = "send"
  /\ Handler(GetMessagesReq) = "gather"
  BY DEF Handler, RegisterReq, UserListReq, GetPKReq, SendMessageReq, GetMessagesReq

(* No response code is the 0 of a thread that has not answered.            *)
LEMMA ResponseNonzero ==
  /\ 0 \notin ResponseCodes
  /\ {CommunicationError, RegisterRes, UserListRes, GetPKRes, SendMessageRes,
      GetMessagesRes} \subseteq ResponseCodes
  BY DEF ResponseCodes, RegisterRes, UserListRes, GetPKRes, SendMessageRes, GetMessagesRes,
         CommunicationError

(* No thread has read a request.                                           *)
LEMMA HandlerInit == Init => HandlerInv
  BY DEF Init, Quiet, HandlerInv, Terminal, Failures

(* A thread goes on serving the request it read.                           *)
LEMMA HandlerStep ==
  ASSUME IInv, HandlerInv, [Next]_vars
  PROVE  HandlerInv'
  <1> USE DEF IInv, TypeOK, HandlerInv, Goto, Answer, locals, history, Terminal, Failures
  <1>1. ASSUME NEW t \in Thread, NEW r \in Requests, ReadRequest(t, r) PROVE HandlerInv'
    <2>1. r # NoRequest /\ (WellFormed(r) => r.code \in RequestCodes)
      BY RequestFields
    <2> QED
      BY <1>1, <2>1, HandlerOf, ResponseNonzero DEF ReadRequest
  <1>2. ASSUME NEW t \in Thread, CheckSender(t) PROVE HandlerInv'
    BY <1>2, HandlerOf, ResponseNonzero DEF CheckSender, RequestInv, RequestCodes
  <1>3. ASSUME NEW t \in Thread, BeginScan(t) PROVE HandlerInv'
    BY <1>3 DEF BeginScan
  <1>4. ASSUME NEW t \in Thread, EndScan(t) PROVE HandlerInv'
    BY <1>4, ResponseNonzero DEF EndScan
  <1>5. ASSUME NEW t \in Thread, GenerateUuid(t) PROVE HandlerInv'
    BY <1>5 DEF GenerateUuid
  <1>6. ASSUME NEW t \in Thread, CheckFresh(t) PROVE HandlerInv'
    BY <1>6 DEF CheckFresh
  <1>7. ASSUME NEW t \in Thread, AddUser(t) PROVE HandlerInv'
    BY <1>7, ResponseNonzero DEF AddUser
  <1>8. ASSUME NEW t \in Thread, BeginList(t) PROVE HandlerInv'
    BY <1>8 DEF BeginList
  <1>9. ASSUME NEW t \in Thread, ListNode(t) PROVE HandlerInv'
    BY <1>9 DEF ListNode
  <1>10. ASSUME NEW t \in Thread, EndList(t) PROVE HandlerInv'
    BY <1>10, ResponseNonzero DEF EndList
  <1>11. ASSUME NEW t \in Thread, ListFails(t) PROVE HandlerInv'
    BY <1>11 DEF ListFails
  <1>12. ASSUME NEW t \in Thread, CheckKeyOwner(t) PROVE HandlerInv'
    BY <1>12, ResponseNonzero DEF CheckKeyOwner
  <1>13. ASSUME NEW t \in Thread, ReadKey(t) PROVE HandlerInv'
    BY <1>13, ResponseNonzero DEF ReadKey
  <1>14. ASSUME NEW t \in Thread, CheckMessage(t) PROVE HandlerInv'
    BY <1>14, ResponseNonzero DEF CheckMessage
  <1>15. ASSUME NEW t \in Thread, PushMessage(t) PROVE HandlerInv'
    BY <1>15, ResponseNonzero DEF PushMessage
  <1>16. ASSUME NEW t \in Thread, GatherMessages(t) PROVE HandlerInv'
    BY <1>16 DEF GatherMessages
  <1>17. ASSUME NEW t \in Thread, ClearMessages(t) PROVE HandlerInv'
    BY <1>17, ResponseNonzero DEF ClearMessages
  <1>18. ASSUME NEW t \in Thread, Reply(t) PROVE HandlerInv'
    BY <1>18 DEF Reply
  <1>19. CASE UNCHANGED vars
    BY <1>19 DEF vars
  <1> QED
    BY <1>1, <1>2, <1>3, <1>4, <1>5, <1>6, <1>7, <1>8, <1>9, <1>10, <1>11, <1>12, <1>13,
       <1>14, <1>15, <1>16, <1>17, <1>18, <1>19 DEF Next, Step, Finished
-----------------------------------------------------------------------------
(* Only handle_send_message stores a message, and only it answers with     *)
(* SendMessageRes; what was acknowledged stays acknowledged.               *)
LEMMA OnlyPushAcks ==
  ASSUME IInv, HandlerInv, [Next]_vars
  PROVE  \/ \E t \in Thread : PushMessage(t)
         \/ /\ UNCHANGED mailed
            /\ \A s \in Thread :
                 /\ resp'[s] = SendMessageRes <=> resp[s] = SendMessageRes
                 /\ resp[s] = SendMessageRes => req'[s] = req[s]
  <1> DEFINE Goal == /\ UNCHANGED mailed
                     /\ \A s \in Thread :
                          /\ resp'[s] = SendMessageRes <=> resp[s] = SendMessageRes
                          /\ resp[s] = SendMessageRes => req'[s] = req[s]
  <1>R. /\ SendMessageRes \notin {0, CommunicationError, RegisterRes, UserListRes, GetPKRes,
                                  GetMessagesRes}
    BY DEF SendMessageRes, CommunicationError, RegisterRes, UserListRes, GetPKRes,
           GetMessagesRes
  <1>I. \A t \in Thread : pc[t] \notin {"reply", "done"} => resp[t] # SendMessageRes
    BY <1>R DEF HandlerInv
  <1> USE DEF IInv, TypeOK, Goto, Answer, locals, history
  <1>1. ASSUME NEW t \in Thread, NEW r \in Requests, ReadRequest(t, r) PROVE Goal
    BY <1>1, <1>R, <1>I DEF ReadRequest
  <1>2. ASSUME NEW t \in Thread, Step(t), ~PushMessage(t), ~ClearMessages(t) PROVE Goal
    <2>1. UNCHANGED <<mailed, req>>
      BY <1>2 DEF Step, CheckSender, BeginScan, EndScan, GenerateUuid, CheckFresh, AddUser,
         BeginList, ListNode, EndList, ListFails, CheckKeyOwner, ReadKey, CheckMessage,
         GatherMessages, Reply
    <2>2. \/ UNCHANGED resp
          \/ /\ pc[t] \notin {"reply", "done"}
             /\ \E code \in {CommunicationError, RegisterRes, UserListRes, GetPKRes} :
                  resp' = [resp EXCEPT ![t] = code]
      BY <1>2 DEF Step, CheckSender, BeginScan, EndScan, GenerateUuid, CheckFresh, AddUser,
         BeginList, ListNode, EndList, ListFails, CheckKeyOwner, ReadKey, CheckMessage,
         GatherMessages, Reply
    <2> QED
      BY <2>1, <2>2, <1>R, <1>I
  <1>3. ASSUME NEW t \in Thread, ClearMessages(t) PROVE Goal
    BY <1>3, <1>R, <1>I DEF ClearMessages
  <1>4. CASE UNCHANGED vars
    BY <1>4 DEF vars
  <1> QED
    BY <1>1, <1>2, <1>3, <1>4 DEF Next, Finished

(* An addressee stays registered.                                          *)
LEMMA AddressedStep ==
  ASSUME IInv, HandlerInv, AddressedInv, [Next]_vars
  PROVE  AddressedInv'
  <1>1. \A u \in registered : u \in registered'
    BY RecordsStep
  <1>2. ASSUME NEW t \in Thread, PushMessage(t) PROVE AddressedInv'
    BY <1>1, <1>2 DEF PushMessage, CheckedInv, IInv, TypeOK, Answer, locals, AddressedInv
  <1> QED
    BY <1>1, <1>2, OnlyPushAcks DEF AddressedInv

(* A message is stored once by the thread that acknowledges it.            *)
LEMMA AckedStep ==
  ASSUME IInv, HandlerInv, AddressedInv, AckedIsMailed, [Next]_vars
  PROVE  AckedIsMailed'
  <1>1. ASSUME NEW t \in Thread, PushMessage(t)
        PROVE  AckedIsMailed'
    <2>1. PICK dest \in UUID, m \in Message, n \in Nat :
            /\ dest = req[t].dest /\ n = Len(mailed[dest])
            /\ m = Stored(t) /\ m.content = t /\ m.client_id = req[t].client_id
      <3>1. req[t].dest \in UUID /\ Stored(t) \in Message
        BY <1>1, RequestFields
        DEF PushMessage, CheckedInv, RequestInv, Stored, Message, Request, IInv, TypeOK
      <3>2. Stored(t).content = t /\ Stored(t).client_id = req[t].client_id
        BY DEF Stored
      <3> QED
        BY <3>1, <3>2 DEF IInv, TypeOK
    <2>2. /\ mailed' = [mailed EXCEPT ![dest] = Append(@, m)]
          /\ resp' = [resp EXCEPT ![t] = SendMessageRes]
          /\ req' = req /\ pc[t] = "push"
      BY <1>1, <2>1 DEF PushMessage, CheckedInv, Answer, locals, IInv, TypeOK
    <2>3. mailed[dest] \in Seq(Message) /\ DOMAIN mailed[dest] = 1..n
      BY <2>1 DEF IInv, TypeOK
    <2>4. /\ DOMAIN mailed'[dest] = 1..n+1
          /\ mailed'[dest][n+1] = m
          /\ \A i \in 1..n : mailed'[dest][i] = mailed[dest][i]
      BY <2>1, <2>2, <2>3, AppendProperties DEF IInv, TypeOK
    <2>5. \A u \in UUID : u # dest => mailed'[u] = mailed[u]
      BY <2>2 DEF IInv, TypeOK
    <2>6. resp[t] # SendMessageRes
      <3>1. resp[t] = 0
        BY <2>2 DEF HandlerInv
      <3> QED
        BY <3>1, ResponseNonzero
    <2>7. \A u \in UUID : Copies(t, u) = {}
      BY <2>6 DEF AckedIsMailed
    <2>8. /\ Copies(t, dest)' = {n+1}
          /\ \A u \in UUID \ {dest} : Copies(t, u)' = {}
      <3>1. \A u \in UUID \ {dest} : Copies(t, u)' = Copies(t, u)
        BY <2>5 DEF Copies
      <3>2. \A i \in 1..n : mailed[dest][i].content # t
        BY <2>1, <2>3, <2>7 DEF Copies
      <3>3. Copies(t, dest)' = {i \in 1..n+1 : mailed'[dest][i].content = t}
        BY <2>4 DEF Copies
      <3>4. \A i \in 1..n+1 : i \in 1..n \/ i = n+1
        BY <2>3
      <3>5. n+1 \in 1..n+1
        BY <2>3
      <3> QED
        BY <2>1, <2>4, <2>7, <3>1, <3>2, <3>3, <3>4, <3>5
    <2>9. \A s \in Thread \ {t}, u \in UUID : Copies(s, u)' = Copies(s, u)
      <3> TAKE s \in Thread \ {t}, u \in UUID
      <3>1. CASE u = dest
        <4>1. /\ Copies(s, dest)' = {i \in 1..n+1 : mailed'[dest][i].content = s}
              /\ Copies(s, dest) = {i \in 1..n : mailed[dest][i].content = s}
          BY <2>3, <2>4 DEF Copies
        <4>2. \A i \in 1..n+1 : i \in 1..n \/ i = n+1
          BY <2>3
        <4>3. \A i \in 1..n : i \in 1..n+1
          BY <2>3
        <4> QED
          BY <2>1, <2>4, <3>1, <4>1, <4>2, <4>3
      <3>2. CASE u # dest
        BY <2>5, <3>2 DEF Copies
      <3> QED
        BY <3>1, <3>2
    <2>10. \A u \in UUID : \A i \in DOMAIN mailed[u] :
             i \in DOMAIN mailed'[u] /\ mailed'[u][i] = mailed[u][i]
      <3>1. \A i \in 1..n : i \in 1..n+1
        BY <2>1
      <3>2. \A i \in DOMAIN mailed[dest] :
              i \in DOMAIN mailed'[dest] /\ mailed'[dest][i] = mailed[dest][i]
        BY <2>3, <2>4, <3>1
      <3> QED
        BY <2>5, <3>2
    <2> DEFINE Acked(s) ==
          IF resp[s] = SendMessageRes
          THEN /\ \E i \in DOMAIN mailed[req[s].dest] :
                    /\ Copies(s, req[s].dest) = {i}
                    /\ mailed[req[s].dest][i].client_id = req[s].client_id
               /\ \A u \in UUID \ {req[s].dest} : Copies(s, u) = {}
          ELSE \A u \in UUID : Copies(s, u) = {}
    <2>11. Acked(t)'
      <3>1. n+1 \in DOMAIN mailed'[dest]
        BY <2>3, <2>4
      <3>2. resp'[t] = SendMessageRes /\ req'[t] = req[t] /\ req[t].dest = dest
        BY <2>1, <2>2 DEF IInv, TypeOK
      <3> QED
        BY <2>1, <2>4, <2>8, <3>1, <3>2
    <2>12. ASSUME NEW s \in Thread \ {t}
           PROVE  Acked(s)'
      <3>1. Acked(s)
        BY DEF AckedIsMailed
      <3>2. resp'[s] = resp[s] /\ req'[s] = req[s]
        BY <2>2 DEF IInv, TypeOK
      <3>3. CASE resp[s] = SendMessageRes
        <4>1. PICK i \in DOMAIN mailed[req[s].dest] :
                /\ Copies(s, req[s].dest) = {i}
                /\ mailed[req[s].dest][i].client_id = req[s].client_id
          BY <3>1, <3>3
        <4>2. req[s].dest \in UUID
          BY <3>3 DEF AddressedInv, IInv, TypeOK
        <4> QED
          BY <2>9, <2>10, <3>1, <3>2, <3>3, <4>1, <4>2
      <3>4. CASE resp[s] # SendMessageRes
        BY <2>9, <3>1, <3>2, <3>4
      <3> QED
        BY <3>3, <3>4
    <2> QED
      BY <2>11, <2>12 DEF AckedIsMailed
  <1>2. ASSUME UNCHANGED mailed,
               \A s \in Thread :
                 /\ resp'[s] = SendMessageRes <=> resp[s] = SendMessageRes
                 /\ resp[s] = SendMessageRes => req'[s] = req[s]
        PROVE  AckedIsMailed'
    BY <1>2 DEF AckedIsMailed, Copies
  <1> QED
    BY <1>1, <1>2, OnlyPushAcks

(* What handle_send_message accepts, the client accepts, and its sender is *)
(* registered for good.                                                    *)
LEMMA ParsesStep ==
  ASSUME IInv, HandlerInv, StoredParses, [Next]_vars
  PROVE  StoredParses'
  <1> DEFINE Parses(m) == DeserializesAtClient(m) /\ m.content_size = m.length
             AllParse(u) == \A i \in DOMAIN users[u].recv_messages :
                              /\ Parses(users[u].recv_messages[i])
                              /\ users[u].recv_messages[i].client_id \in registered
  <1>S. /\ (\A u \in registered : AllParse(u)) => StoredParses
        /\ (\A u \in registered' : AllParse(u)') => StoredParses'
        /\ \A u \in registered : AllParse(u)
    BY DEF StoredParses
  <1>R. \A u \in registered : u \in registered'
    BY RecordsStep
  <1>1. ASSUME NEW t \in Thread, AddUser(t), NEW u \in registered'
        PROVE  AllParse(u)'
    <2>1. \/ u \in registered /\ users'[u] = users[u]
          \/ users'[u].recv_messages = <<>>
      BY <1>1 DEF AddUser, UsersWith, ClientDataOf, registered, IInv, TypeOK
    <2> QED
      BY <2>1, <1>R, <1>S
  <1>2. ASSUME NEW t \in Thread, PushMessage(t), NEW u \in registered'
        PROVE  AllParse(u)'
    <2>1. PICK dest \in registered, m \in Message :
            /\ dest = req[t].dest /\ m = Stored(t)
            /\ Parses(m) /\ m.client_id \in registered
      <3>1. req[t].dest \in registered /\ Stored(t) \in Message
        BY <1>2, RequestFields
        DEF PushMessage, CheckedInv, RequestInv, Stored, Message, Request, IInv, TypeOK
      <3>2. BodyAccepted(req[t]) /\ req[t].client_id \in registered
        BY <1>2 DEF PushMessage, HandlerInv, CheckedInv, IInv
      <3>3. Parses(Stored(t))
        BY <3>2 DEF Stored, BodyAccepted, DeserializesAtClient, MessageTypes
      <3>4. Stored(t).client_id \in registered
        BY <3>2 DEF Stored
      <3> QED
        BY <3>1, <3>3, <3>4
    <2>2. users' = [users EXCEPT ![dest].recv_messages = Append(@, m)]
      BY <1>2, <2>1 DEF PushMessage
    <2>3. registered' = registered
      BY <2>2 DEF registered
    <2>4. CASE u # dest
      <3>1. users'[u] = users[u]
        BY <2>2, <2>3, <2>4 DEF registered, IInv, TypeOK
      <3> QED
        BY <2>3, <3>1, <1>S
    <2>5. CASE u = dest
      <3>1. PICK q \in Seq(Message) : q = users[dest].recv_messages
        BY DEF IInv, TypeOK, ClientData
      <3>2. users'[u].recv_messages = Append(q, m)
        BY <2>1, <2>2, <2>5, <3>1 DEF registered, IInv, TypeOK, ClientData
      <3>3. /\ DOMAIN Append(q, m) = 1..Len(q)+1 /\ DOMAIN q = 1..Len(q)
            /\ \A i \in 1..Len(q)+1 : Append(q, m)[i] = IF i = Len(q)+1 THEN m ELSE q[i]
            /\ \A i \in 1..Len(q)+1 : i = Len(q)+1 \/ i \in 1..Len(q)
        BY <2>1, <3>1, AppendProperties
      <3>4. \A i \in 1..Len(q) : Parses(q[i]) /\ q[i].client_id \in registered
        BY <1>S, <3>1, <3>3
      <3> QED
        BY <2>1, <2>3, <3>2, <3>3, <3>4
    <2> QED
      BY <2>4, <2>5
  <1>3. ASSUME NEW t \in Thread, ClearMessages(t), NEW u \in registered'
        PROVE  AllParse(u)'
    <2>1. /\ registered' = registered
          /\ users' = [users EXCEPT ![req[t].client_id].recv_messages = <<>>]
      BY <1>3 DEF ClearMessages, registered
    <2>2. \/ users'[u] = users[u]
          \/ users'[u].recv_messages = <<>>
      BY <2>1 DEF registered, IInv, TypeOK, ClientData
    <2> QED
      BY <2>1, <2>2, <1>S
  <1>4. CASE UNCHANGED users
    BY <1>4 DEF StoredParses, registered
  <1>5. ASSUME NEW t \in Thread, Step(t)
        PROVE  AddUser(t) \/ PushMessage(t) \/ ClearMessages(t) \/ UNCHANGED users
    BY <1>5 DEF Step, CheckSender, BeginScan, EndScan, GenerateUuid, CheckFresh, BeginList,
       ListNode, EndList, ListFails, CheckKeyOwner, ReadKey, CheckMessage, GatherMessages,
       Reply, locals, history
  <1>6. UNCHANGED users \/ \E t \in Thread : AddUser(t) \/ PushMessage(t) \/ ClearMessages(t)
    BY <1>5 DEF Next, Finished, ReadRequest, vars
  <1> QED
    BY <1>1, <1>2, <1>3, <1>4, <1>6, <1>S

(* Nothing has been answered or stored.                                    *)
LEMMA InitAnswers == Init => AInv
  <1> SUFFICES ASSUME Init PROVE AInv
    OBVIOUS
  <1>1. registered = {}
    BY DEF Init, registered
  <1>2. \A t \in Thread : resp[t] = 0 /\ \A u \in UUID : Copies(t, u) = {}
    BY DEF Init, Quiet, Copies
  <1>3. \A t \in Thread : resp[t] # SendMessageRes
    BY <1>2, ResponseNonzero
  <1> QED
    BY <1>1, <1>2, <1>3, HandlerInit DEF AInv, AddressedInv, AckedIsMailed, StoredParses

(* The answers keep their meaning in every reachable state.                *)
LEMMA AnswersInvariance == Spec => []AInv
  <1>1. IInv /\ AInv /\ [Next]_vars => AInv'
    BY HandlerStep, AddressedStep, AckedStep, ParsesStep DEF AInv
  <1> QED
    BY <1>1, InitAnswers, Invariance, PTL DEF Spec

(* An acknowledged message is stored once, for its addressee and under its *)
(* sender's id, however handle_send_message is interleaved with others;    *)
(* nothing else is ever stored.                                            *)
THEOREM AcknowledgedOnce == Spec => []AckedIsMailed
  <1>1. AInv => AckedIsMailed
    BY DEF AInv
  <1> QED
    BY <1>1, AnswersInvariance, PTL

(* No client finds a message in its inbox that MessageHeader::Deserialize  *)
(* refuses or whose sender the server does not know.                       *)
THEOREM StoredReadable == Spec => []StoredParses
  <1>1. AInv => StoredParses
    BY DEF AInv
  <1> QED
    BY <1>1, AnswersInvariance, PTL
-----------------------------------------------------------------------------
(* What a step does to the threads that drew one: it draws one, it adds    *)
(* the user of one, or it leaves them as they are.                         *)
LEMMA OnlyAddRegisters ==
  ASSUME IInv, HandlerInv, [Next]_vars
  PROVE  \/ \E t \in Thread : AddUser(t) \/ GenerateUuid(t)
         \/ /\ UNCHANGED uuid
            /\ registered' = registered
            /\ \A s \in Thread :
                 /\ pc'[s] \in {"fresh", "add"} => pc[s] \in {"fresh", "add"}
                 /\ resp'[s] = RegisterRes => resp[s] = RegisterRes /\ req'[s] = req[s]
  <1> DEFINE Goal == /\ UNCHANGED uuid
                     /\ \A s \in Thread :
                          /\ pc'[s] \in {"fresh", "add"} => pc[s] \in {"fresh", "add"}
                          /\ resp'[s] = RegisterRes =>
                               resp[s] = RegisterRes /\ req'[s] = req[s]
             Ended == \E t \in Thread : AddUser(t) \/ GenerateUuid(t)
  <1>C. RegisterRes \notin {CommunicationError, UserListRes, GetPKRes, SendMessageRes,
                           GetMessagesRes}
    BY DEF RegisterRes, CommunicationError, UserListRes, GetPKRes, SendMessageRes,
           GetMessagesRes
  <1>I. \A t \in Thread : pc[t] = "idle" => resp[t] # RegisterRes
    BY ResponseNonzero DEF HandlerInv
  <1>D. UNCHANGED registered \/ \E t \in Thread : AddUser(t)
    <2> USE DEF registered, IInv, TypeOK, locals, history
    <2>1. ASSUME NEW t \in Thread, Step(t) PROVE AddUser(t) \/ UNCHANGED DOMAIN users
      BY <2>1 DEF Step, CheckSender, BeginScan, EndScan, GenerateUuid, CheckFresh, BeginList,
         ListNode, EndList, ListFails, CheckKeyOwner, ReadKey, CheckMessage, PushMessage,
         GatherMessages, ClearMessages, Reply
    <2> QED
      BY <2>1 DEF Next, Finished, ReadRequest, vars
  <1>G. Goal \/ Ended
    <2> USE DEF IInv, TypeOK, Goto, Answer, locals, history
    <2>1. ASSUME NEW t \in Thread, NEW r \in Requests, ReadRequest(t, r) PROVE Goal \/ Ended
      <3>1. WellFormed(r) /\ r.code = RegisterReq => Handler(r.code) = "name"
        BY HandlerOf
      <3> QED
        BY <2>1, <1>C, <1>I, <3>1 DEF ReadRequest
    <2>2. ASSUME NEW t \in Thread, CheckSender(t) PROVE Goal \/ Ended
      <3>1. Handler(req[t].code) \in {"name", "list", "pk", "send", "gather"}
        BY <2>2, HandlerLabel DEF CheckSender, RequestInv
      <3> QED
        BY <2>2, <1>C, <3>1 DEF CheckSender
    <2>3. ASSUME NEW t \in Thread, BeginScan(t) PROVE Goal \/ Ended
      BY <2>3, <1>C DEF BeginScan
    <2>4. ASSUME NEW t \in Thread, EndScan(t) PROVE Goal \/ Ended
      BY <2>4, <1>C DEF EndScan
    <2>5. ASSUME NEW t \in Thread, GenerateUuid(t) PROVE Goal \/ Ended
      BY <2>5, <1>C DEF GenerateUuid
    <2>6. ASSUME NEW t \in Thread, CheckFresh(t) PROVE Goal \/ Ended
      BY <2>6, <1>C DEF CheckFresh
    <2>7. ASSUME NEW t \in Thread, AddUser(t) PROVE Goal \/ Ended
      BY <2>7, <1>C DEF AddUser
    <2>8. ASSUME NEW t \in Thread, BeginList(t) PROVE Goal \/ Ended
      BY <2>8, <1>C DEF BeginList
    <2>9. ASSUME NEW t \in Thread, ListNode(t) PROVE Goal \/ Ended
      BY <2>9, <1>C DEF ListNode
    <2>10. ASSUME NEW t \in Thread, EndList(t) PROVE Goal \/ Ended
      BY <2>10, <1>C DEF EndList
    <2>11. ASSUME NEW t \in Thread, ListFails(t) PROVE Goal \/ Ended
      BY <2>11, <1>C DEF ListFails
    <2>12. ASSUME NEW t \in Thread, CheckKeyOwner(t) PROVE Goal \/ Ended
      BY <2>12, <1>C DEF CheckKeyOwner
    <2>13. ASSUME NEW t \in Thread, ReadKey(t) PROVE Goal \/ Ended
      BY <2>13, <1>C DEF ReadKey
    <2>14. ASSUME NEW t \in Thread, CheckMessage(t) PROVE Goal \/ Ended
      BY <2>14, <1>C DEF CheckMessage
    <2>15. ASSUME NEW t \in Thread, PushMessage(t) PROVE Goal \/ Ended
      BY <2>15, <1>C DEF PushMessage
    <2>16. ASSUME NEW t \in Thread, GatherMessages(t) PROVE Goal \/ Ended
      BY <2>16, <1>C DEF GatherMessages
    <2>17. ASSUME NEW t \in Thread, ClearMessages(t) PROVE Goal \/ Ended
      BY <2>17, <1>C DEF ClearMessages
    <2>18. ASSUME NEW t \in Thread, Reply(t) PROVE Goal \/ Ended
      BY <2>18, <1>C DEF Reply
    <2>19. CASE UNCHANGED vars
      BY <2>19, <1>C DEF vars
    <2> QED
      BY <2>1, <2>2, <2>3, <2>4, <2>5, <2>6, <2>7, <2>8, <2>9, <2>10, <2>11, <2>12, <2>13,
         <2>14, <2>15, <2>16, <2>17, <2>18, <2>19 DEF Next, Step, Finished
  <1> QED
    BY <1>D, <1>G

(* As long as uuid1() does not repeat itself, an identifier stays with the *)
(* thread that drew it, and then with its user.                            *)
LEMMA UniqueStep ==
  ASSUME Uuid1Unique, IInv, HandlerInv, UniqueInv, [Next]_vars
  PROVE  UniqueInv'
  <1>R. \A u \in registered :
          /\ u \in registered'
          /\ users'[u].name = users[u].name
          /\ users'[u].public_key = users[u].public_key
    BY RecordsStep
  <1>N. NullUuid \notin UUID
    BY ConstantsAssumption
  <1> DEFINE Apart == \A s, t \in Thread : s # t /\ uuid[s] = uuid[t] => uuid[s] = NullUuid
             Fresh == \A t \in Thread : pc[t] \in {"fresh", "add"} => uuid[t] \notin registered
             Mine == \A t \in Thread : resp[t] = RegisterRes => IsMine(t)
  <1>U. UniqueInv <=> Apart /\ Fresh /\ Mine
    BY DEF UniqueInv
  <1>V. UniqueInv' <=> Apart' /\ Fresh' /\ Mine'
    BY DEF UniqueInv
  <1>1. ASSUME NEW t \in Thread, GenerateUuid(t) PROVE UniqueInv'
    <2>1. PICK u \in UUID \ (registered \cup {uuid[s] : s \in Thread}) :
            uuid' = [uuid EXCEPT ![t] = u]
      BY <1>1 DEF GenerateUuid, Uuid1
    <2>2. /\ pc' = [pc EXCEPT ![t] = "fresh"] /\ pc[t] = "uuid"
          /\ UNCHANGED <<users, req, resp, registered>>
      BY <1>1 DEF GenerateUuid, Goto, registered
    <2>3. uuid'[t] = u /\ \A s \in Thread \ {t} : uuid'[s] = uuid[s]
      BY <2>1 DEF IInv, TypeOK
    <2>4. Apart'
      BY <1>U, <2>1, <2>3
    <2>5. Fresh'
      BY <1>U, <2>1, <2>2, <2>3 DEF IInv, TypeOK
    <2>6. Mine'
      <3>1. resp[t] # RegisterRes
        BY <2>2, ResponseNonzero DEF HandlerInv
      <3> QED
        BY <1>U, <2>2, <2>3, <3>1 DEF IsMine
    <2> QED
      BY <1>V, <2>4, <2>5, <2>6
  <1>2. ASSUME NEW t \in Thread, AddUser(t) PROVE UniqueInv'
    <2>1. /\ pc[t] = "add" /\ pc' = [pc EXCEPT ![t] = "reply"]
          /\ resp' = [resp EXCEPT ![t] = RegisterRes]
          /\ UNCHANGED <<uuid, req>>
      BY <1>2 DEF AddUser, Answer, locals
    <2>2. uuid[t] \in UUID /\ uuid[t] \notin registered
      BY <1>U, <2>1 DEF IInv, CheckedInv
    <2>3. /\ registered' = registered \cup {uuid[t]}
          /\ users'[uuid[t]] = ClientDataOf(req[t])
      BY <1>2, <2>2 DEF AddUser, UsersWith, registered
    <2>4. Apart'
      BY <1>U, <2>1
    <2>5. Fresh'
      <3>1. ASSUME NEW s \in Thread, pc'[s] \in {"fresh", "add"}
            PROVE  uuid[s] \notin registered'
        <4>1. s # t /\ pc[s] \in {"fresh", "add"}
          BY <2>1, <3>1 DEF IInv, TypeOK
        <4>2. uuid[s] \notin registered /\ uuid[s] # uuid[t]
          BY <1>U, <1>N, <2>2, <4>1
        <4> QED
          BY <2>3, <4>2
      <3> QED
        BY <2>1, <3>1
    <2>6. Mine'
      <3>1. IsMine(t)'
        BY <2>1, <2>3 DEF IsMine, ClientDataOf
      <3>2. ASSUME NEW s \in Thread \ {t}, resp'[s] = RegisterRes
            PROVE  IsMine(s)'
        BY <1>U, <1>R, <2>1, <3>2 DEF IsMine, IInv, TypeOK
      <3> QED
        BY <3>1, <3>2
    <2> QED
      BY <1>V, <2>4, <2>5, <2>6
  <1>3. ASSUME UNCHANGED uuid, registered' = registered,
               \A s \in Thread :
                 /\ pc'[s] \in {"fresh", "add"} => pc[s] \in {"fresh", "add"}
                 /\ resp'[s] = RegisterRes => resp[s] = RegisterRes /\ req'[s] = req[s]
        PROVE  UniqueInv'
    <2>1. Apart' /\ Fresh'
      BY <1>3, <1>U
    <2>2. Mine'
      BY <1>3, <1>U, <1>R DEF IsMine
    <2> QED
      BY <1>V, <2>1, <2>2
  <1> QED
    BY <1>1, <1>2, <1>3, OnlyAddRegisters

(* Only the test of the loop leads to add_user.                            *)
LEMMA OnlyCheckAdds ==
  ASSUME IInv, [Next]_vars, NEW t \in Thread, pc[t] # "add", pc'[t] = "add"
  PROVE  CheckFresh(t)
  <1> USE DEF Goto, Answer, IInv, TypeOK
  <1>1. ASSUME NEW s \in Thread, Step(s) \/ (\E r \in Requests : ReadRequest(s, r))
        PROVE  s = t \/ pc'[t] = pc[t]
    <2>1. \E label : pc' = [pc EXCEPT ![s] = label] \/ pc' = pc
      <3>1. CASE \E r \in Requests : ReadRequest(s, r)
        BY <3>1 DEF ReadRequest
      <3>2. CASE BeginScan(s) \/ EndScan(s) \/ GenerateUuid(s) \/ CheckFresh(s) \/ AddUser(s)
        BY <3>2 DEF BeginScan, EndScan, GenerateUuid, CheckFresh, AddUser
      <3>3. CASE BeginList(s) \/ ListNode(s) \/ EndList(s) \/ ListFails(s)
        BY <3>3 DEF BeginList, ListNode, EndList, ListFails
      <3>4. CASE CheckSender(s) \/ CheckKeyOwner(s) \/ ReadKey(s) \/ Reply(s)
        BY <3>4 DEF CheckSender, CheckKeyOwner, ReadKey, Reply
      <3>5. CASE CheckMessage(s) \/ PushMessage(s) \/ GatherMessages(s) \/ ClearMessages(s)
        BY <3>5 DEF CheckMessage, PushMessage, GatherMessages, ClearMessages
      <3> QED
        BY <1>1, <3>1, <3>2, <3>3, <3>4, <3>5 DEF Step
    <2> QED
      BY <2>1
  <1>2. ASSUME NEW r \in Requests, ReadRequest(t, r) PROVE FALSE
    BY <1>2, RequestFields, HandlerOf DEF ReadRequest, RequestCodes
  <1>3. ~CheckSender(t)
    BY HandlerLabel DEF CheckSender, RequestInv
  <1>4. ~(BeginScan(t) \/ EndScan(t) \/ GenerateUuid(t) \/ AddUser(t))
    BY DEF BeginScan, EndScan, GenerateUuid, AddUser
  <1>5. ~(BeginList(t) \/ ListNode(t) \/ EndList(t) \/ ListFails(t))
    BY DEF BeginList, ListNode, EndList, ListFails
  <1>6. ~(CheckKeyOwner(t) \/ ReadKey(t) \/ Reply(t))
    BY DEF CheckKeyOwner, ReadKey, Reply
  <1>7. ~(CheckMessage(t) \/ PushMessage(t) \/ GatherMessages(t) \/ ClearMessages(t))
    BY DEF CheckMessage, PushMessage, GatherMessages, ClearMessages
  <1>8. pc' # pc
    OBVIOUS
  <1> QED
    BY <1>1, <1>2, <1>3, <1>4, <1>5, <1>6, <1>7, <1>8 DEF Next, Step, Finished, vars

(* What a registration was answered with is registered.                    *)
AnsweredInv == \A t \in Thread : resp[t] = RegisterRes => uuid[t] \in registered

LEMMA AnsweredStep ==
  ASSUME IInv, HandlerInv, AnsweredInv, [Next]_vars
  PROVE  AnsweredInv'
  <1>R. registered \subseteq registered'
    BY RecordsStep
  <1>1. ASSUME NEW t \in Thread, GenerateUuid(t) PROVE AnsweredInv'
    <2>1. /\ pc[t] = "uuid" /\ UNCHANGED resp
          /\ \A s \in Thread \ {t} : uuid'[s] = uuid[s]
      BY <1>1 DEF GenerateUuid, Goto, IInv, TypeOK
    <2>2. resp[t] # RegisterRes
      BY <2>1, ResponseNonzero DEF HandlerInv
    <2> QED
      BY <1>R, <2>1, <2>2 DEF AnsweredInv
  <1>2. ASSUME NEW t \in Thread, AddUser(t) PROVE AnsweredInv'
    <2>1. /\ UNCHANGED uuid /\ uuid[t] \in registered'
          /\ \A s \in Thread \ {t} : resp'[s] = resp[s]
      BY <1>2 DEF AddUser, UsersWith, Answer, locals, registered, IInv, TypeOK
    <2> QED
      BY <1>R, <2>1 DEF AnsweredInv
  <1>3. CASE /\ UNCHANGED uuid
             /\ \A s \in Thread : resp'[s] = RegisterRes => resp[s] = RegisterRes
    BY <1>R, <1>3 DEF AnsweredInv
  <1> QED
    BY <1>1, <1>2, <1>3, OnlyAddRegisters

(* The users a registration found under other names keep them.             *)
LEMMA ScanStep ==
  ASSUME IInv, HandlerInv, ScanInv, [Next]_vars
  PROVE  ScanInv'
  <1> DEFINE Past(s) == pc[s] \in {"uuid", "fresh", "add"} \/ resp[s] = RegisterRes
             Kept(s) == todo'[s] = todo[s] /\ req'[s] = req[s]
             Goal == \A s \in Thread :
                       /\ pc'[s] = "scan" => BeginScan(s) \/ (pc[s] = "scan" /\ Kept(s))
                       /\ Past(s)' => \/ Past(s) /\ Kept(s)
                                      \/ EndScan(s) /\ Kept(s) /\ ~NameTaken(s)
  <1>R. \A u \in registered : u \in registered' /\ users'[u].name = users[u].name
    BY RecordsStep
  <1>C. RegisterRes \notin {0, CommunicationError, UserListRes, GetPKRes, SendMessageRes,
                           GetMessagesRes}
    BY DEF RegisterRes, CommunicationError, UserListRes, GetPKRes, SendMessageRes,
           GetMessagesRes
  <1>I. \A t \in Thread : pc[t] \notin {"reply", "done"} => resp[t] # RegisterRes
    BY <1>C DEF HandlerInv
  <1>G. Goal
    <2> USE DEF IInv, TypeOK, Goto, Answer, locals, history
    <2>1. ASSUME NEW t \in Thread, NEW r \in Requests, ReadRequest(t, r) PROVE Goal
      <3>1. WellFormed(r) /\ r.code = RegisterReq => Handler(r.code) = "name"
        BY HandlerOf
      <3> QED
        BY <2>1, <1>C, <1>I, <3>1 DEF ReadRequest
    <2>2. ASSUME NEW t \in Thread, CheckSender(t) PROVE Goal
      <3>1. Handler(req[t].code) \in {"name", "list", "pk", "send", "gather"}
        BY <2>2, HandlerLabel DEF CheckSender, RequestInv
      <3> QED
        BY <2>2, <1>C, <3>1 DEF CheckSender
    <2>3. ASSUME NEW t \in Thread, BeginScan(t) PROVE Goal
      <3>1. /\ pc[t] = "name" /\ pc' = [pc EXCEPT ![t] = "scan"]
            /\ todo' = [todo EXCEPT ![t] = registered]
            /\ req' = req /\ resp' = resp
        BY <2>3 DEF BeginScan
      <3> QED
        BY <2>3, <1>I, <3>1
    <2>4. ASSUME NEW t \in Thread, EndScan(t) PROVE Goal
      BY <2>4, <1>C DEF EndScan
    <2>5. ASSUME NEW t \in Thread, GenerateUuid(t) PROVE Goal
      BY <2>5, <1>C DEF GenerateUuid
    <2>6. ASSUME NEW t \in Thread, CheckFresh(t) PROVE Goal
      BY <2>6, <1>C DEF CheckFresh
    <2>7. ASSUME NEW t \in Thread, AddUser(t) PROVE Goal
      BY <2>7, <1>C DEF AddUser
    <2>8. ASSUME NEW t \in Thread, BeginList(t) PROVE Goal
      BY <2>8, <1>C, <1>I DEF BeginList
    <2>9. ASSUME NEW t \in Thread, ListNode(t) PROVE Goal
      BY <2>9, <1>C, <1>I DEF ListNode
    <2>10. ASSUME NEW t \in Thread, EndList(t) PROVE Goal
      BY <2>10, <1>C DEF EndList
    <2>11. ASSUME NEW t \in Thread, ListFails(t) PROVE Goal
      BY <2>11, <1>C DEF ListFails
    <2>12. ASSUME NEW t \in Thread, CheckKeyOwner(t) PROVE Goal
      BY <2>12, <1>C DEF CheckKeyOwner
    <2>13. ASSUME NEW t \in Thread, ReadKey(t) PROVE Goal
      BY <2>13, <1>C DEF ReadKey
    <2>14. ASSUME NEW t \in Thread, CheckMessage(t) PROVE Goal
      BY <2>14, <1>C DEF CheckMessage
    <2>15. ASSUME NEW t \in Thread, PushMessage(t) PROVE Goal
      BY <2>15, <1>C DEF PushMessage
    <2>16. ASSUME NEW t \in Thread, GatherMessages(t) PROVE Goal
      BY <2>16, <1>C DEF GatherMessages
    <2>17. ASSUME NEW t \in Thread, ClearMessages(t) PROVE Goal
      BY <2>17, <1>C DEF ClearMessages
    <2>18. ASSUME NEW t \in Thread, Reply(t) PROVE Goal
      BY <2>18, <1>C DEF Reply
    <2>19. CASE UNCHANGED vars
      BY <2>19 DEF vars
    <2> QED
      BY <2>1, <2>2, <2>3, <2>4, <2>5, <2>6, <2>7, <2>8, <2>9, <2>10, <2>11, <2>12, <2>13,
         <2>14, <2>15, <2>16, <2>17, <2>18, <2>19 DEF Next, Step, Finished
  <1>1. ASSUME NEW s \in Thread, pc'[s] = "scan"
        PROVE  todo'[s] \subseteq registered'
    <2>1. CASE BeginScan(s)
      BY <2>1 DEF BeginScan, registered, IInv, TypeOK
    <2>2. CASE pc[s] = "scan" /\ Kept(s)
      BY <2>2, <1>R DEF ScanInv
    <2> QED
      BY <1>1, <1>G, <2>1, <2>2
  <1>2. ASSUME NEW s \in Thread, Past(s)', NEW u \in todo'[s]
        PROVE  u \in registered' /\ users'[u].name # req'[s].name
    <2>1. CASE Past(s) /\ Kept(s)
      BY <1>2, <2>1, <1>R DEF ScanInv
    <2>2. CASE EndScan(s) /\ Kept(s) /\ ~NameTaken(s)
      BY <1>2, <2>2, <1>R DEF ScanInv, EndScan, NameTaken
    <2> QED
      BY <1>2, <1>G, <2>1, <2>2
  <1> QED
    BY <1>1, <1>2 DEF ScanInv

(* What a scan found keeps its meaning in every reachable state.           *)
LEMMA ScanInvariance == Spec => []ScanInv
  <1>1. Init => ScanInv
    <2>1. Init => \A t \in Thread : todo[t] = {}
      BY DEF Init, Quiet
    <2> QED
      BY <2>1 DEF ScanInv
  <1>2. IInv /\ AInv /\ ScanInv /\ [Next]_vars => ScanInv'
    BY ScanStep DEF AInv
  <1> QED
    BY <1>1, <1>2, Invariance, AnswersInvariance, PTL DEF Spec

(* Identifiers stay apart in every reachable state.                        *)
LEMMA UniqueInvariance ==
  ASSUME Uuid1Unique
  PROVE  Spec => []UniqueInv
  <1>1. Init => UniqueInv
    <2>1. Init => \A t \in Thread : uuid[t] = NullUuid /\ pc[t] = "idle" /\ resp[t] = 0
      BY DEF Init, Quiet
    <2> QED
      BY <2>1, ResponseNonzero DEF UniqueInv
  <1>2. IInv /\ AInv /\ UniqueInv /\ [Next]_vars => UniqueInv'
    BY UniqueStep DEF AInv
  <1> QED
    BY <1>1, <1>2, Invariance, AnswersInvariance, PTL DEF Spec

(* Once a registration has been answered, no other finds its identifier    *)
(* free, whatever uuid1() returns.                                         *)
THEOREM AnsweredStaysTaken == Spec => AnsweredIsTaken
  <1> DEFINE A == \A s, t \in Thread :
               resp[s] = RegisterRes /\ pc[t] # "add" /\ pc'[t] = "add" => uuid'[t] # uuid[s]
  <1>1. Init => AnsweredInv
    <2>1. Init => \A t \in Thread : resp[t] = 0
      BY DEF Init, Quiet
    <2> QED
      BY <2>1, ResponseNonzero DEF AnsweredInv
  <1>2. IInv /\ AInv /\ AnsweredInv /\ [Next]_vars => AnsweredInv'
    BY AnsweredStep DEF AInv
  <1>3. ASSUME IInv, AnsweredInv, [Next]_vars PROVE A
    <2> SUFFICES ASSUME NEW s \in Thread, NEW t \in Thread,
                        resp[s] = RegisterRes, pc[t] # "add", pc'[t] = "add"
                 PROVE  uuid'[t] # uuid[s]
      OBVIOUS
    <2>1. uuid[s] \in registered
      BY <1>3 DEF AnsweredInv
    <2>2. CheckFresh(t)
      BY <1>3, OnlyCheckAdds
    <2>3. uuid[t] \notin registered /\ UNCHANGED uuid
      BY <2>2 DEF CheckFresh, Goto, IsRegistered, locals, IInv, TypeOK
    <2> QED
      BY <2>1, <2>3
  <1>4. IInv /\ AnsweredInv /\ [Next]_vars => [A]_vars
    BY <1>3
  <1> QED
    BY <1>1, <1>2, <1>4, Invariance, AnswersInvariance, PTL DEF Spec, AnsweredIsTaken

(* A registration that is acknowledged has its sender's name and key under *)
(* the identifier it is given, and shares it with nobody, although the     *)
(* freshness of an identifier and the adding of its user are two sections. *)
THEOREM RegisteredAsAsked ==
  ASSUME Uuid1Unique
  PROVE  Spec => []RegisterResIsMine
  <1>1. IInv /\ UniqueInv => RegisterResIsMine
    BY ConstantsAssumption DEF IInv, TypeOK, UniqueInv, IsMine, RegisterResIsMine
  <1> QED
    BY <1>1, Invariance, UniqueInvariance, PTL

(* Two users get one name only if neither had been added when the other's  *)
(* registration looked through the names.                                  *)
THEOREM DuplicatesOnlyOverlap ==
  ASSUME Uuid1Unique
  PROVE  Spec => []DuplicatesOverlap
  <1>1. UniqueInv /\ ScanInv => DuplicatesOverlap
    BY DEF UniqueInv, IsMine, ScanInv, DuplicatesOverlap
  <1> QED
    BY <1>1, ScanInvariance, UniqueInvariance, PTL
=============================================================================
