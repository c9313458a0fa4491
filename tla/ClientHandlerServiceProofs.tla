--------------------- MODULE ClientHandlerServiceProofs ---------------------
(***************************************************************************)
(* The threads of the server implement MessageService, for every set of    *)
(* threads, identifiers, names, keys and requests: step by step, under the *)
(* refinement mapping of ClientHandlerService.                             *)
(***************************************************************************)
EXTENDS ClientHandlerService, ClientHandlerAnswers

-----------------------------------------------------------------------------
(* Both modules mean the same protocol.                                    *)
LEMMA SameProtocol ==
  /\ Service!RegisterReq = RegisterReq /\ Service!UserListReq = UserListReq
  /\ Service!GetPKReq = GetPKReq /\ Service!SendMessageReq = SendMessageReq
  /\ Service!GetMessagesReq = GetMessagesReq
  /\ Service!RegisterRes = RegisterRes /\ Service!UserListRes = UserListRes
  /\ Service!GetPKRes = GetPKRes /\ Service!SendMessageRes = SendMessageRes
  /\ Service!GetMessagesRes = GetMessagesRes
  /\ Service!CommunicationError = CommunicationError
  BY DEF Service!RegisterReq, RegisterReq, Service!UserListReq, UserListReq,
         Service!GetPKReq, GetPKReq, Service!SendMessageReq, SendMessageReq,
         Service!GetMessagesReq, GetMessagesReq, Service!RegisterRes, RegisterRes,
         Service!UserListRes, UserListRes, Service!GetPKRes, GetPKRes,
         Service!SendMessageRes, SendMessageRes, Service!GetMessagesRes, GetMessagesRes,
         Service!CommunicationError, CommunicationError

(* Both modules accept the same requests.                                  *)
LEMMA SameRules ==
  ASSUME NEW r
  PROVE  /\ Service!WellFormed(r) = WellFormed(r)
         /\ Service!ContentLength(r) = ContentLength(r)
         /\ Service!DeserializesAtClient(r) = DeserializesAtClient(r)
  <1>1. /\ Service!SERVER_VERSION = SERVER_VERSION /\ Service!NAME_LEN = NAME_LEN
        /\ Service!PUBLIC_KEY_LEN = PUBLIC_KEY_LEN /\ Service!UUID_LEN = UUID_LEN
        /\ Service!ENCRYPTED_SYM_KEY_LENGTH = ENCRYPTED_SYM_KEY_LENGTH
        /\ Service!GetSK = GetSK /\ Service!SendSK = SendSK /\ Service!Text = Text
    BY DEF Service!SERVER_VERSION, SERVER_VERSION, Service!NAME_LEN, NAME_LEN,
       Service!PUBLIC_KEY_LEN, PUBLIC_KEY_LEN, Service!UUID_LEN, UUID_LEN,
       Service!ENCRYPTED_SYM_KEY_LENGTH, ENCRYPTED_SYM_KEY_LENGTH, Service!GetSK, GetSK,
       Service!SendSK, SendSK, Service!Text, Text
  <1>2. Service!REQ_HEADER_LEN = REQ_HEADER_LEN /\ Service!SUB_HEADER_SIZE = SUB_HEADER_SIZE
    BY <1>1 DEF Service!REQ_HEADER_LEN, REQ_HEADER_LEN, Service!SUB_HEADER_SIZE,
       SUB_HEADER_SIZE
  <1>3. Service!RequestCodes = RequestCodes
    BY SameProtocol DEF Service!RequestCodes, RequestCodes
  <1>4. Service!BodySize(r.code) = BodySize(r.code)
    BY <1>1, SameProtocol DEF Service!BodySize, BodySize
  <1>5. Service!HeaderValid(r) = HeaderValid(r)
    BY <1>1, <1>3, <1>4, SameProtocol DEF Service!HeaderValid, HeaderValid
  <1>6. Service!WellFormed(r) = WellFormed(r)
    BY <1>2, <1>5 DEF Service!WellFormed, WellFormed
  <1>7. Service!ContentLength(r) = ContentLength(r)
    BY <1>2 DEF Service!ContentLength, ContentLength
  <1>8. Service!DeserializesAtClient(r) = DeserializesAtClient(r)
    BY <1>1 DEF Service!DeserializesAtClient, DeserializesAtClient
  <1> QED
    BY <1>6, <1>7, <1>8
-----------------------------------------------------------------------------
(* What an answer says, of the values it is made from.                     *)
Says(response, u, facts, msgs) ==
  [about |-> CASE response = RegisterRes                 -> {u}
               [] response \in {UserListRes, GetPKRes} -> facts
               [] OTHER                                -> {},
   mail  |-> IF response = GetMessagesRes THEN msgs ELSE <<>>]

(* A registration is told its identifier.                                  *)
LEMMA SaysRegistered ==
  ASSUME NEW u, NEW facts, NEW msgs
  PROVE  Says(RegisterRes, u, facts, msgs) = Service!About({u})
  BY DEF Says, Service!About, Service!Silence, RegisterRes, UserListRes, GetPKRes,
         GetMessagesRes

(* A list, and a key, are told as they were read.                          *)
LEMMA SaysFacts ==
  ASSUME NEW u, NEW facts, NEW msgs
  PROVE  /\ Says(UserListRes, u, facts, msgs) = Service!About(facts)
         /\ Says(GetPKRes, u, facts, msgs) = Service!About(facts)
  BY DEF Says, Service!About, Service!Silence, RegisterRes, UserListRes, GetPKRes,
         GetMessagesRes

(* A fetch is told the messages.                                           *)
LEMMA SaysMail ==
  ASSUME NEW u, NEW facts, NEW msgs
  PROVE  Says(GetMessagesRes, u, facts, msgs) = Service!Mail(msgs)
  BY DEF Says, Service!Mail, Service!Silence, RegisterRes, UserListRes, GetPKRes,
         GetMessagesRes

(* The code 0 of a thread that has not answered says nothing, and neither  *)
(* do two of the answers.                                                  *)
LEMMA SaysNothing ==
  ASSUME NEW response \in {0, CommunicationError, SendMessageRes},
         NEW u, NEW facts, NEW msgs
  PROVE  Says(response, u, facts, msgs) = Service!Silence
  <1>1. response \notin {RegisterRes, UserListRes, GetPKRes, GetMessagesRes}
    BY DEF CommunicationError, SendMessageRes, RegisterRes, UserListRes, GetPKRes,
           GetMessagesRes
  <1> QED
    BY <1>1 DEF Says, Service!Silence

(* What the mapping shows of a thread, before and after a step.            *)
LEMMA SaidIsSays ==
  ASSUME NEW t \in Thread
  PROVE  /\ said(t) = Says(resp[t], uuid[t], nodes[t], messages[t])
         /\ said(t)' = Says(resp'[t], uuid'[t], nodes'[t], messages'[t])
  BY DEF said, Says
-----------------------------------------------------------------------------
(* The labels at which a request that was read waits for its answer.       *)
Serving ==
  {"sender", "name", "scan", "uuid", "fresh", "add", "list", "iter",
   "pk", "readpk", "send", "push", "gather", "clear"}

(* A step of thread t leaves what other threads answer with alone.         *)
Only(t) ==
  \A s \in Thread \ {t} :
    uuid'[s] = uuid[s] /\ nodes'[s] = nodes[s] /\ messages'[s] = messages[s]

(* A thread that has not answered says nothing yet.                        *)
LEMMA ServingPending ==
  ASSUME IInv, HandlerInv, NEW t \in Thread, pc[t] \in Serving
  PROVE  Service!Pending(t) /\ resp[t] = 0 /\ WellFormed(req[t])
  BY DEF Serving, HandlerInv, Service!Pending, closed, Terminal, Failures

(* A step at which a thread goes on serving is none of the service's.      *)
LEMMA Serves ==
  ASSUME IInv, HandlerInv, NEW t \in Thread, pc[t] \in Serving,
         NEW label \in Serving, Goto(t, label), Only(t), UNCHANGED <<users, req>>
  PROVE  UNCHANGED Service!vars
  <1>1. UNCHANGED <<accounts, inbox, req, resp>>
    BY DEF accounts, inbox, registered, Goto
  <1>2. closed' = closed
    BY DEF closed, Goto, Serving, Terminal, Failures, IInv, TypeOK
  <1>3. ASSUME NEW s \in Thread PROVE said(s)' = said(s)
    <2>1. CASE s = t
      <3>1. resp[t] = 0 /\ resp'[t] = 0
        BY <1>1, ServingPending
      <3> QED
        BY <2>1, <3>1, SaidIsSays, SaysNothing
    <2>2. CASE s # t
      BY <1>1, <2>2, SaidIsSays DEF Only
    <2> QED
      BY <2>1, <2>2
  <1> QED
    BY <1>1, <1>2, <1>3 DEF Service!vars

(* A step at which it answers is an answer of the service.                 *)
LEMMA Answering ==
  ASSUME IInv, HandlerInv, NEW t \in Thread, pc[t] \in Serving,
         NEW response, Answer(t, response), Only(t), UNCHANGED req
  PROVE  Service!Answers(t, response, said(t)')
  <1>1. closed' = closed
    BY DEF closed, Answer, Serving, Terminal, Failures, IInv, TypeOK
  <1>2. \A s \in Thread \ {t} : said(s)' = said(s)
    BY ZenonT(60), SaidIsSays DEF Only, Answer, IInv, TypeOK
  <1>3. [s \in Thread |-> said(s)]' = [[s \in Thread |-> said(s)] EXCEPT ![t] = said(t)']
    BY <1>2
  <1> QED
    BY <1>1, <1>3 DEF Service!Answers, Answer

(* A request that fails has no effect.                                     *)
LEMMA Refuses ==
  ASSUME IInv, HandlerInv, NEW t \in Thread, pc[t] \in Serving,
         Answer(t, CommunicationError), Only(t), UNCHANGED <<users, req>>
  PROVE  Service!Refuse(t)
  <1>1. said(t)' = Service!Silence
    BY SaidIsSays, SaysNothing DEF Answer, IInv, TypeOK
  <1>2. UNCHANGED <<accounts, inbox>>
    BY DEF accounts, inbox, registered
  <1>3. Service!Answers(t, CommunicationError, said(t)')
    BY Answering
  <1>4. Service!Pending(t)
    BY ServingPending
  <1> QED
    BY <1>1, <1>2, <1>3, <1>4, SameProtocol DEF Service!Refuse

(* A step at which a thread ends leaves everything else as it is.          *)
LEMMA Ending ==
  ASSUME IInv, HandlerInv, NEW t \in Thread, NEW label \in Terminal, Goto(t, label),
         UNCHANGED <<users, req, uuid, nodes, messages>>
  PROVE  /\ closed' = closed \cup {t}
         /\ UNCHANGED <<accounts, inbox, req, resp, [s \in Thread |-> said(s)]>>
  <1>1. closed' = closed \cup {t}
    BY DEF closed, Goto, IInv, TypeOK
  <1>2. \A s \in Thread : said(s)' = said(s)
    BY SaidIsSays DEF Goto
  <1> QED
    BY <1>1, <1>2 DEF accounts, inbox, registered, Goto

(* A thread at work was asked for what it does.                            *)
LEMMA AskedFor ==
  ASSUME IInv, HandlerInv, NEW t \in Thread, pc[t] \in Serving
  PROVE  Service!Asks(t, req[t].code)
  BY ServingPending, SameRules DEF Service!Asks

(* The service sees the users of the server.                               *)
LEMMA SameUsers ==
  /\ Service!registered = registered
  /\ \A u \in registered :
       /\ accounts[u].name = users[u].name
       /\ accounts[u].public_key = users[u].public_key
       /\ inbox[u] = users[u].recv_messages
  BY DEF Service!registered, accounts, inbox, registered
-----------------------------------------------------------------------------
(* The steps at which a request takes effect.                              *)

(* A request that was read whole has been made.                            *)
LEMMA Calls ==
  ASSUME IInv, HandlerInv, NEW t \in Thread, NEW r \in Requests, ReadRequest(t, r)
  PROVE  Service!Call(t, r)
  <1> USE DEF IInv, TypeOK
  <1>1. pc[t] = "idle" /\ req[t] = NoRequest /\ resp[t] = 0
    BY DEF ReadRequest, HandlerInv
  <1>2. req' = [req EXCEPT ![t] = r] /\ UNCHANGED <<users, uuid, nodes, messages>>
    BY DEF ReadRequest
  <1>3. \/ UNCHANGED resp
        \/ resp' = [resp EXCEPT ![t] = CommunicationError]
    BY DEF ReadRequest, Goto, Answer
  <1>4. \A s \in Thread : said(s)' = said(s)
    <2> TAKE s \in Thread
    <2>1. CASE s = t
      <3>1. resp[t] = 0 /\ resp'[t] \in {0, CommunicationError}
        BY <1>1, <1>3
      <3>2. said(t) = Service!Silence
        BY <3>1, SaidIsSays, SaysNothing
      <3>3. said(t)' = Service!Silence
        BY <3>1, SaidIsSays, SaysNothing
      <3> QED
        BY <2>1, <3>2, <3>3
    <2>2. CASE s # t
      BY <1>2, <1>3, <2>2, SaidIsSays
    <2> QED
      BY <2>1, <2>2
  <1>5. closed' = closed
    <2>1. \E label \in {"reply", "name", "sender"} : pc' = [pc EXCEPT ![t] = label]
      BY HandlerOf DEF ReadRequest, Goto, Answer
    <2> QED
      BY <1>1, <2>1 DEF closed, Terminal, Failures
  <1>6. UNCHANGED <<accounts, inbox>>
    BY <1>2 DEF accounts, inbox, registered
  <1> QED
    BY <1>1, <1>2, <1>3, <1>4, <1>5, <1>6, SameProtocol DEF Service!Call

(* AddUser is the instant of a registration.                               *)
LEMMA Registers ==
  ASSUME IInv, HandlerInv, UniqueInv, NEW t \in Thread, AddUser(t)
  PROVE  Service!Register(t)
  <1>1. /\ pc[t] = "add" /\ pc[t] \in Serving /\ req[t].code = RegisterReq
        /\ uuid[t] \in UUID \ registered
    BY DEF AddUser, Serving, HandlerInv, UniqueInv, IInv, CheckedInv
  <1>2. Answer(t, RegisterRes) /\ UNCHANGED <<req, uuid, nodes, messages>>
    BY DEF AddUser, locals
  <1>3. Service!Answers(t, RegisterRes, said(t)')
    BY <1>1, <1>2, Answering DEF Only
  <1>4. said(t)' = Service!About({uuid[t]})
    BY <1>2, SaidIsSays, SaysRegistered DEF Answer, IInv, TypeOK
  <1>5. users' = [v \in registered \cup {uuid[t]} |->
                    IF v \in registered THEN users[v] ELSE ClientDataOf(req[t])]
    BY DEF AddUser, UsersWith
  <1>6. /\ accounts' = [v \in registered \cup {uuid[t]} |->
             IF v = uuid[t] THEN [name |-> req[t].name, public_key |-> req[t].public_key]
                            ELSE accounts[v]]
        /\ inbox' = [v \in registered \cup {uuid[t]} |->
             IF v = uuid[t] THEN <<>> ELSE inbox[v]]
    BY <1>1, <1>5 DEF accounts, inbox, registered, ClientDataOf
  <1> QED
    BY <1>1, <1>3, <1>4, <1>6, AskedFor, SameProtocol, SameUsers DEF Service!Register

(* The end of its walk is the instant of a list.                           *)
LEMMA Lists ==
  ASSUME IInv, HandlerInv, NEW t \in Thread, EndList(t)
  PROVE  Service!List(t)
  <1>1. /\ pc[t] \in Serving /\ req[t].code = UserListReq
        /\ req[t].client_id \in registered
    BY DEF EndList, Serving, HandlerInv, IInv, CheckedInv
  <1>2. Answer(t, UserListRes) /\ UNCHANGED <<users, req, uuid, nodes, messages>>
    BY DEF EndList, locals
  <1>3. Service!Answers(t, UserListRes, said(t)')
    BY <1>1, <1>2, Answering DEF Only
  <1>4. said(t)' = Service!About(nodes[t])
    <2>1. resp'[t] = UserListRes /\ UNCHANGED nodes
      BY <1>2 DEF Answer, IInv, TypeOK
    <2>2. said(t)' = Says(UserListRes, uuid'[t], nodes'[t], messages'[t])
      BY <2>1, SaidIsSays
    <2>3. Says(UserListRes, uuid'[t], nodes'[t], messages'[t]) = Service!About(nodes'[t])
      BY SaysFacts
    <2> QED
      BY <2>1, <2>2, <2>3
  <1>5. nodes[t] = {<<u, users[u].name>> : u \in registered \ {req[t].client_id}}
    BY WalkIsExact DEF OthersThan, EndList
  <1>6. nodes[t] = {<<u, accounts[u].name>> : u \in registered \ {req[t].client_id}}
    BY <1>5, SameUsers
  <1>7. UNCHANGED <<accounts, inbox>>
    BY <1>2 DEF accounts, inbox, registered
  <1> QED
    BY <1>1, <1>3, <1>4, <1>6, <1>7, AskedFor, SameProtocol, SameUsers DEF Service!List

(* ReadKey is the instant of a key request.                                *)
LEMMA GivesKey ==
  ASSUME IInv, HandlerInv, NEW t \in Thread, ReadKey(t)
  PROVE  Service!GetPK(t)
  <1>1. /\ pc[t] \in Serving /\ req[t].code = GetPKReq
        /\ {req[t].client_id, req[t].dest} \subseteq registered
    BY DEF ReadKey, Serving, HandlerInv, IInv, CheckedInv
  <1>2. /\ Answer(t, GetPKRes) /\ UNCHANGED <<users, req, uuid, messages>>
        /\ nodes' = [nodes EXCEPT ![t] = {<<req[t].dest, users[req[t].dest].public_key>>}]
    BY <1>1 DEF ReadKey
  <1>3. Service!Answers(t, GetPKRes, said(t)')
    BY <1>1, <1>2, Answering DEF Only, IInv, TypeOK
  <1>4. nodes'[t] = {<<req[t].dest, accounts[req[t].dest].public_key>>}
    BY <1>1, <1>2, SameUsers DEF IInv, TypeOK
  <1>5. said(t)' = Service!About(nodes'[t])
    <2>1. resp'[t] = GetPKRes /\ UNCHANGED messages
      BY <1>2 DEF Answer, IInv, TypeOK
    <2>2. said(t)' = Says(GetPKRes, uuid'[t], nodes'[t], messages'[t])
      BY <2>1, SaidIsSays
    <2>3. Says(GetPKRes, uuid'[t], nodes'[t], messages'[t]) = Service!About(nodes'[t])
      BY SaysFacts
    <2> QED
      BY <2>1, <2>2, <2>3
  <1>6. UNCHANGED <<accounts, inbox>>
    BY <1>2 DEF accounts, inbox, registered
  <1> QED
    BY <1>1, <1>3, <1>4, <1>5, <1>6, AskedFor, SameProtocol, SameUsers DEF Service!GetPK

(* PushMessage is the instant of a message.                                *)
LEMMA Sends ==
  ASSUME IInv, HandlerInv, NEW t \in Thread, PushMessage(t)
  PROVE  Service!Send(t)
  <1>1. /\ pc[t] \in Serving /\ req[t].code = SendMessageReq
        /\ {req[t].client_id, req[t].dest} \subseteq registered
        /\ BodyAccepted(req[t])
    BY DEF PushMessage, Serving, HandlerInv, IInv, CheckedInv
  <1>2. PICK dest \in registered : dest = req[t].dest
    BY <1>1
  <1>3. /\ Answer(t, SendMessageRes) /\ UNCHANGED <<req, uuid, nodes, messages>>
        /\ users' = [users EXCEPT ![dest].recv_messages = Append(@, Stored(t))]
    BY <1>2 DEF PushMessage, locals
  <1>4. Service!Answers(t, SendMessageRes, said(t)')
    BY <1>1, <1>3, Answering DEF Only
  <1>5. said(t)' = Service!Silence
    BY <1>3, SaidIsSays, SaysNothing DEF Answer, IInv, TypeOK
  <1>6. Stored(t) = Service!Delivered(t)
    BY <1>1 DEF Stored, Service!Delivered, BodyAccepted
  <1>7. /\ DOMAIN users' = registered
        /\ users'[dest].name = users[dest].name
        /\ users'[dest].public_key = users[dest].public_key
        /\ users'[dest].recv_messages = Append(users[dest].recv_messages, Stored(t))
        /\ \A u \in registered \ {dest} : users'[u] = users[u]
    BY <1>3 DEF registered, IInv, TypeOK, ClientData
  <1>8. accounts' = accounts
    BY <1>7 DEF accounts, registered
  <1>9. inbox' = [inbox EXCEPT ![dest] = Append(@, Stored(t))]
    BY <1>7 DEF inbox, registered
  <1>10. Service!DeserializesAtClient(req[t])
    BY <1>1, SameRules DEF BodyAccepted, DeserializesAtClient, MessageTypes
  <1> QED
    BY <1>1, <1>2, <1>4, <1>5, <1>6, <1>8, <1>9, <1>10, AskedFor, SameProtocol, SameUsers
    DEF Service!Send

(* ClearMessages is the instant of a fetch.                                *)
LEMMA Fetches ==
  ASSUME IInv, HandlerInv, NEW t \in Thread, ClearMessages(t)
  PROVE  Service!Fetch(t)
  <1>1. /\ pc[t] \in Serving /\ req[t].code = GetMessagesReq
        /\ req[t].client_id \in registered
        /\ messages[t] = users[req[t].client_id].recv_messages
    BY DEF ClearMessages, Serving, HandlerInv, IInv, CheckedInv, HeldInv
  <1>2. PICK me \in registered : me = req[t].client_id
    BY <1>1
  <1>3. /\ Answer(t, GetMessagesRes) /\ UNCHANGED <<req, uuid, nodes, messages>>
        /\ users' = [users EXCEPT ![me].recv_messages = <<>>]
    BY <1>2 DEF ClearMessages, locals
  <1>4. Service!Answers(t, GetMessagesRes, said(t)')
    BY <1>1, <1>3, Answering DEF Only
  <1>5. said(t)' = Service!Mail(messages[t])
    <2>1. resp'[t] = GetMessagesRes /\ UNCHANGED messages
      BY <1>3 DEF Answer, IInv, TypeOK
    <2>2. said(t)' = Says(GetMessagesRes, uuid'[t], nodes'[t], messages'[t])
      BY <2>1, SaidIsSays
    <2>3. Says(GetMessagesRes, uuid'[t], nodes'[t], messages'[t]) = Service!Mail(messages'[t])
      BY SaysMail
    <2> QED
      BY <2>1, <2>2, <2>3
  <1>6. /\ DOMAIN users' = registered
        /\ users'[me].name = users[me].name
        /\ users'[me].public_key = users[me].public_key
        /\ users'[me].recv_messages = <<>>
        /\ \A u \in registered \ {me} : users'[u] = users[u]
    BY <1>3 DEF registered, IInv, TypeOK, ClientData
  <1>7. accounts' = accounts
    BY <1>6 DEF accounts, registered
  <1>8. inbox' = [inbox EXCEPT ![me] = <<>>]
    BY <1>6 DEF inbox, registered
  <1> QED
    BY <1>1, <1>2, <1>4, <1>5, <1>7, <1>8, AskedFor, SameProtocol, SameUsers
    DEF Service!Fetch
-----------------------------------------------------------------------------
(* Every step of the server is a step of the service or none.              *)
LEMMA ServiceStep ==
  ASSUME IInv, HandlerInv, UniqueInv, [Next]_vars
  PROVE  [Service!Next]_(Service!vars)
  <1> DEFINE Goal == Service!Next \/ UNCHANGED Service!vars
  <1>1. ASSUME NEW t \in Thread, NEW r \in Requests, ReadRequest(t, r) PROVE Goal
    BY <1>1, Calls DEF Service!Next
  <1>2. ASSUME NEW t \in Thread, CheckSender(t) PROVE Goal
    <2>1. Handler(req[t].code) \in Serving
      BY <1>2, HandlerLabel DEF CheckSender, IInv, RequestInv, Serving
    <2>2. pc[t] \in Serving /\ Only(t) /\ UNCHANGED <<users, req>>
      BY <1>2 DEF CheckSender, Serving, Only, locals
    <2>3. Goto(t, Handler(req[t].code)) \/ Answer(t, CommunicationError)
      BY <1>2 DEF CheckSender
    <2> QED
      BY <2>1, <2>2, <2>3, Serves, Refuses DEF Service!Next
  <1>3. ASSUME NEW t \in Thread, BeginScan(t) PROVE Goal
    <2>1. /\ pc[t] \in Serving /\ Goto(t, "scan") /\ Only(t)
          /\ UNCHANGED <<users, req>>
      BY <1>3 DEF BeginScan, Serving, Only, locals, history, IInv, TypeOK
    <2> QED
      BY <2>1, Serves DEF Serving
  <1>4. ASSUME NEW t \in Thread, EndScan(t) PROVE Goal
    <2>1. pc[t] \in Serving /\ Only(t) /\ UNCHANGED <<users, req>>
      BY <1>4 DEF EndScan, Serving, Only, locals
    <2>2. Goto(t, "uuid") \/ Answer(t, CommunicationError)
      BY <1>4 DEF EndScan, DictionaryResized, IInv, HeldInv
    <2> QED
      BY <2>1, <2>2, Serves, Refuses DEF Serving, Service!Next
  <1>5. ASSUME NEW t \in Thread, GenerateUuid(t) PROVE Goal
    <2>1. /\ pc[t] \in Serving /\ Goto(t, "fresh") /\ UNCHANGED <<users, req, nodes, messages>>
          /\ \E u \in UUID : uuid' = [uuid EXCEPT ![t] = u]
      BY <1>5 DEF GenerateUuid, Uuid1, Serving
    <2>2. Only(t)
      BY <2>1 DEF Only, IInv, TypeOK
    <2> QED
      BY <2>1, <2>2, Serves DEF Serving
  <1>6. ASSUME NEW t \in Thread, CheckFresh(t) PROVE Goal
    <2>1. /\ pc[t] \in Serving /\ Only(t) /\ UNCHANGED <<users, req>>
          /\ Goto(t, "uuid") \/ Goto(t, "add")
      BY <1>6 DEF CheckFresh, Serving, Only, locals
    <2> QED
      BY <2>1, Serves DEF Serving
  <1>7. ASSUME NEW t \in Thread, AddUser(t) PROVE Goal
    BY <1>7, Registers DEF Service!Next
  <1>8. ASSUME NEW t \in Thread, BeginList(t) PROVE Goal
    <2>1. /\ pc[t] \in Serving /\ Goto(t, "iter") /\ Only(t)
          /\ UNCHANGED <<users, req>>
      BY <1>8 DEF BeginList, Serving, Only, locals, history, IInv, TypeOK
    <2> QED
      BY <2>1, Serves DEF Serving
  <1>9. ASSUME NEW t \in Thread, ListNode(t) PROVE Goal
    <2>1. /\ pc[t] \in Serving /\ pc' = pc /\ resp' = resp
          /\ UNCHANGED <<users, req, uuid, messages>>
          /\ \A s \in Thread \ {t} : nodes'[s] = nodes[s]
      BY <1>9 DEF ListNode, Serving, history, IInv, TypeOK
    <2>2. Goto(t, pc[t]) /\ Only(t)
      BY <2>1 DEF Goto, Only, IInv, TypeOK
    <2> QED
      BY <2>1, <2>2, Serves
  <1>10. ASSUME NEW t \in Thread, EndList(t) PROVE Goal
    BY <1>10, Lists DEF Service!Next
  <1>11. ASSUME NEW t \in Thread, ListFails(t) PROVE Goal
    <2>1. pc[t] \in Serving /\ req[t].code = UserListReq
      BY <1>11 DEF ListFails, Serving, HandlerInv
    <2>2. Goto(t, "RuntimeError") /\ UNCHANGED <<users, req, uuid, nodes, messages>>
      BY <1>11 DEF ListFails, locals
    <2>3. Service!Asks(t, Service!UserListReq)
      BY <2>1, AskedFor, SameProtocol
    <2> QED
      BY <2>2, <2>3, Ending DEF Service!Fail, Service!Next, Terminal, Failures
  <1>12. ASSUME NEW t \in Thread, CheckKeyOwner(t) PROVE Goal
    <2>1. /\ pc[t] \in Serving /\ Only(t) /\ UNCHANGED <<users, req>>
          /\ Goto(t, "readpk") \/ Answer(t, CommunicationError)
      BY <1>12 DEF CheckKeyOwner, Serving, Only, locals
    <2> QED
      BY <2>1, Serves, Refuses DEF Serving, Service!Next
  <1>13. ASSUME NEW t \in Thread, ReadKey(t) PROVE Goal
    BY <1>13, GivesKey DEF Service!Next
  <1>14. ASSUME NEW t \in Thread, CheckMessage(t) PROVE Goal
    <2>1. /\ pc[t] \in Serving /\ Only(t) /\ req[t].code = SendMessageReq
          /\ UNCHANGED <<users, req, uuid, nodes, messages>>
      BY <1>14 DEF CheckMessage, Serving, Only, locals, HandlerInv
    <2>2. CASE ContentLength(req[t]) < 0 /\ Goto(t, "StructError")
      <3>1. Service!Asks(t, Service!SendMessageReq) /\ Service!ContentLength(req[t]) < 0
        BY <2>1, <2>2, AskedFor, SameProtocol, SameRules
      <3> QED
        BY <2>1, <2>2, <3>1, Ending DEF Service!Fail, Service!Next, Terminal, Failures
    <2>3. CASE Goto(t, "push") \/ Answer(t, CommunicationError)
      BY <2>1, <2>3, Serves, Refuses DEF Serving, Service!Next
    <2> QED
      BY <1>14, <2>2, <2>3 DEF CheckMessage
  <1>15. ASSUME NEW t \in Thread, PushMessage(t) PROVE Goal
    BY <1>15, Sends DEF Service!Next
  <1>16. ASSUME NEW t \in Thread, GatherMessages(t) PROVE Goal
    <2>1. /\ pc[t] \in Serving /\ Goto(t, "clear")
          /\ UNCHANGED <<users, req, uuid, nodes>>
          /\ messages' = [messages EXCEPT ![t] = users[req[t].client_id].recv_messages]
      BY <1>16 DEF GatherMessages, Serving, IInv, CheckedInv
    <2>2. Only(t)
      BY <2>1 DEF Only, IInv, TypeOK
    <2> QED
      BY <2>1, <2>2, Serves DEF Serving
  <1>17. ASSUME NEW t \in Thread, ClearMessages(t) PROVE Goal
    BY <1>17, Fetches DEF Service!Next
  <1>18. ASSUME NEW t \in Thread, Reply(t) PROVE Goal
    <2>1. resp[t] # 0 /\ Goto(t, "done") /\ UNCHANGED <<users, req, uuid, nodes, messages>>
      BY <1>18 DEF Reply, locals, HandlerInv
    <2> QED
      BY <2>1, Ending DEF Service!Close, Service!Next, Terminal
  <1>19. CASE UNCHANGED vars
    <2>1. \A s \in Thread : said(s)' = said(s)
      BY <1>19, SaidIsSays DEF vars, locals
    <2> QED
      BY <1>19, <2>1 DEF vars, locals, Service!vars, accounts, inbox, closed, registered
  <1> QED
    BY <1>1, <1>2, <1>3, <1>4, <1>5, <1>6, <1>7, <1>8, <1>9, <1>10, <1>11, <1>12, <1>13,
       <1>14, <1>15, <1>16, <1>17, <1>18, <1>19 DEF Next, Step, Finished

(* The server starts as the service does.                                  *)
LEMMA ServiceInit == Init => Service!Init
  <1> SUFFICES ASSUME Init PROVE Service!Init
    OBVIOUS
  <1>1. registered = {} /\ accounts = [u \in {} |-> {}] /\ inbox = [u \in {} |-> <<>>]
    BY DEF Init, registered, accounts, inbox
  <1>2. \A t \in Thread : said(t) = Service!Silence
    <2>1. \A t \in Thread : resp[t] = 0
      BY DEF Init, Quiet
    <2> QED
      BY <2>1, SaidIsSays, SaysNothing
  <1>3. closed = {}
    BY DEF Init, Quiet, closed, Terminal, Failures
  <1> QED
    BY <1>1, <1>2, <1>3 DEF Service!Init, Init, Quiet

(* From wherever the invariants hold, with users registered or not, every  *)
(* step of a thread is one step of the service or none of its business, as *)
(* long as uuid1() does not repeat itself.                                 *)
THEOREM StepsServe ==
  ASSUME Uuid1Unique
  PROVE  IInv /\ AInv /\ UniqueInv /\ [][Next]_vars => ServiceSteps
  <1>1. IInv /\ [Next]_vars => IInv'
    BY TypeStep, LockStep, RequestStep, CheckedStep, HeldStep, WalkStep, FiniteStep,
       ErrorStep, MailStep DEF IInv
  <1>2. IInv /\ AInv /\ [Next]_vars => AInv'
    BY HandlerStep, AddressedStep, AckedStep, ParsesStep DEF AInv
  <1>3. IInv /\ AInv /\ UniqueInv /\ [Next]_vars => UniqueInv'
    BY UniqueStep DEF AInv
  <1>4. IInv /\ AInv /\ UniqueInv /\ [Next]_vars => [Service!Next]_(Service!vars)
    BY ServiceStep DEF AInv
  <1> QED
    BY <1>1, <1>2, <1>3, <1>4, PTL DEF ServiceSteps

(* The requests of all connections take effect one at a time, each at one  *)
(* instant, and every answer is what held at its instant, as long as       *)
(* uuid1() does not repeat itself.                                         *)
THEOREM ServiceImplemented ==
  ASSUME Uuid1Unique
  PROVE  Spec => ImplementsService
  <1>1. Init => IInv /\ AInv /\ UniqueInv
    <2>1. Init => \A t \in Thread : uuid[t] = NullUuid /\ pc[t] = "idle" /\ resp[t] = 0
      BY DEF Init, Quiet
    <2> QED
      BY <2>1, InitInv, InitAnswers, ResponseNonzero DEF UniqueInv
  <1> QED
    BY <1>1, ServiceInit, StepsServe, PTL
    DEF Spec, ImplementsService, ServiceSteps, Service!Spec
=============================================================================
