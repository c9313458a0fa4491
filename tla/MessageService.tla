--------------------------- MODULE MessageService ---------------------------
(***************************************************************************)
(* What the server of MessageU promises the clients that connect to it:    *)
(* every connection brings one request, the request takes effect at one    *)
(* instant, and its answer is what held at that instant.  Registration     *)
(* gives every user an identifier of its own; names need not be unique.    *)
(*                                                                         *)
(* A request may be refused, without any effect.  Two kinds may end with   *)
(* no answer at all, also without effect: a list, and a message too short  *)
(* to have a body.                                                         *)
(***************************************************************************)
EXTENDS Protocol, Sequences

CONSTANTS Thread, UUID, NullUuid, Requests, NoRequest

VARIABLES
  accounts,   \* the name and public key of each registered user
  inbox,      \* the messages that wait for each registered user
  call,       \* the request each connection brought
  code,       \* the code each connection's request was answered with, or 0
  result,     \* what the answer says
  closed      \* the connections that are over

vars == <<accounts, inbox, call, code, result, closed>>

registered == DOMAIN accounts

(* What an answer says: something about users, or the messages fetched.    *)
Silence == [about |-> {}, mail |-> <<>>]
About(facts) == [Silence EXCEPT !.about = facts]
Mail(msgs) == [Silence EXCEPT !.mail = msgs]

Init ==
  /\ accounts = [u \in {} |-> {}]
  /\ inbox = [u \in {} |-> <<>>]
  /\ call = [t \in Thread |-> NoRequest]
  /\ code = [t \in Thread |-> 0]
  /\ result = [t \in Thread |-> Silence]
  /\ closed = {}

Call(t, r) ==
  /\ call[t] = NoRequest
  /\ call' = [call EXCEPT ![t] = r]
  /\ \/ UNCHANGED code
     \/ code' = [code EXCEPT ![t] = CommunicationError]
  /\ UNCHANGED <<accounts, inbox, result, closed>>

Pending(t) == call[t] # NoRequest /\ code[t] = 0 /\ t \notin closed

Asks(t, request) == Pending(t) /\ WellFormed(call[t]) /\ call[t].code = request

Answers(t, response, data) ==
  /\ code' = [code EXCEPT ![t] = response]
  /\ result' = [result EXCEPT ![t] = data]
  /\ UNCHANGED <<call, closed>>

Refuse(t) ==
  /\ Pending(t)
  /\ Answers(t, CommunicationError, Silence)
  /\ UNCHANGED <<accounts, inbox>>

Register(t) ==
  /\ Asks(t, RegisterReq)
  /\ \E u \in UUID \ registered :
       /\ accounts' = [v \in registered \cup {u} |->
                         IF v = u THEN [name |-> call[t].name, public_key |-> call[t].public_key]
                                  ELSE accounts[v]]
       /\ inbox' = [v \in registered \cup {u} |-> IF v = u THEN <<>> ELSE inbox[v]]
       /\ Answers(t, RegisterRes, About({u}))

List(t) ==
  /\ Asks(t, UserListReq) /\ call[t].client_id \in registered
  /\ LET others == registered \ {call[t].client_id}
     IN  Answers(t, UserListRes, About({<<u, accounts[u].name>> : u \in others}))
  /\ UNCHANGED <<accounts, inbox>>

GetPK(t) ==
  /\ Asks(t, GetPKReq) /\ {call[t].client_id, call[t].dest} \subseteq registered
  /\ Answers(t, GetPKRes, About({<<call[t].dest, accounts[call[t].dest].public_key>>}))
  /\ UNCHANGED <<accounts, inbox>>

(* The message as its addressee will read it.                              *)
Delivered(t) ==
  [client_id |-> call[t].client_id, message_type |-> call[t].message_type,
   content_size |-> call[t].content_size, length |-> call[t].content_size,
   content |-> t]

Send(t) ==
  /\ Asks(t, SendMessageReq) /\ {call[t].client_id, call[t].dest} \subseteq registered
  /\ DeserializesAtClient(call[t])
  /\ inbox' = [inbox EXCEPT ![call[t].dest] = Append(@, Delivered(t))]
  /\ Answers(t, SendMessageRes, Silence)
  /\ UNCHANGED accounts

Fetch(t) ==
  /\ Asks(t, GetMessagesReq) /\ call[t].client_id \in registered
  /\ Answers(t, GetMessagesRes, Mail(inbox[call[t].client_id]))
  /\ inbox' = [inbox EXCEPT ![call[t].client_id] = <<>>]
  /\ UNCHANGED accounts

Fail(t) ==
  /\ \/ Asks(t, UserListReq)
     \/ Asks(t, SendMessageReq) /\ ContentLength(call[t]) < 0
  /\ closed' = closed \cup {t}
  /\ UNCHANGED <<accounts, inbox, call, code, result>>

Close(t) ==
  /\ code[t] # 0
  /\ closed' = closed \cup {t}
  /\ UNCHANGED <<accounts, inbox, call, code, result>>

Next ==
  \E t \in Thread :
    \/ \E r \in Requests : Call(t, r)
    \/ Refuse(t) \/ Register(t) \/ List(t) \/ GetPK(t) \/ Send(t) \/ Fetch(t)
    \/ Fail(t) \/ Close(t)

Spec == Init /\ [][Next]_vars
=============================================================================
