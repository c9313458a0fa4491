-------------------------- MODULE MCClientHandler ---------------------------
(***************************************************************************)
(* Small instances of the server for TLC.  The request sets treat all   *)
(* identifiers alike, so that threads and identifiers may be permuted.     *)
(***************************************************************************)
EXTENDS ClientHandlerService, TLC

CONSTANTS name1, name2, key1

(* The requests of a client that builds and sends them whole.              *)
Whole(code, me, payload) ==
  [header_read |-> REQ_HEADER_LEN, client_id |-> me, version |-> SERVER_VERSION,
   code |-> code, payload_size |-> payload, payload_read |-> payload,
   name |-> name1, public_key |-> key1, dest |-> NullUuid,
   message_type |-> 0, content_size |-> 0]

Register(n) == [Whole(RegisterReq, NullUuid, BodySize(RegisterReq)) EXCEPT !.name = n]
List(me) == Whole(UserListReq, me, 0)
GetPK(me, u) == [Whole(GetPKReq, me, BodySize(GetPKReq)) EXCEPT !.dest = u]
Send(me, u, type, length) ==
  [Whole(SendMessageReq, me, SUB_HEADER_SIZE + length)
     EXCEPT !.dest = u, !.message_type = type, !.content_size = length]
Fetch(me) == Whole(GetMessagesReq, me, 0)

Short(r) == [r EXCEPT !.payload_read = 0]
Newer(r) == [r EXCEPT !.version = SERVER_VERSION + 1]
Mismatched(r) == [r EXCEPT !.content_size = @ + 1]

(* Registrations under two names, lists and key requests, by and about     *)
(* users that may or may not be registered.                                *)
AccountRequests ==
  {Register(name1), Register(name2), Short(Register(name1))}
  \cup {List(u) : u \in UUID} \cup {Newer(List(u)) : u \in UUID}
  \cup {GetPK(u, v) : u, v \in UUID}

(* Messages of each kind and their broken forms, and fetches.  A payload   *)
(* shorter than the sub-header has length -1 here.                         *)
MailRequests ==
  {Send(u, v, Text, 0) : u, v \in UUID}
  \cup UNION {{Send(u, u, SendSK, ENCRYPTED_SYM_KEY_LENGTH), Send(u, u, SendSK, 0), Send(u, u, 0, 0), Mismatched(Send(u, u, Text, 0)),
               Mismatched(Send(u, u, Text, -1))} : u \in UUID}
  \cup {Fetch(u) : u \in UUID}

(* Registrations that compete for the lock and for identifiers with a walk *)
(* and a fetch of one user.                                                *)
AnswerRequests ==
  LET me == CHOOSE u \in UUID : TRUE
  IN  {Register(name1), Register(name2), List(me), Fetch(me)}

(* The server once two clients have registered and left, whichever         *)
(* identifiers they were given: where the runs about messages start.       *)
TwoUsers ==
  /\ \E u, v \in UUID :
       u # v /\ users = (u :> ClientDataOf(Register(name1)) @@ v :> ClientDataOf(Register(name2)))
  /\ Quiet

MailSpec == TwoUsers /\ [][Next]_vars

Symmetric == Permutations(Thread) \cup Permutations(UUID)
=============================================================================
