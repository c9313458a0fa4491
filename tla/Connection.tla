----------------------------- MODULE Connection -----------------------------
(***************************************************************************)
(* The exchanges of one client with the server over TCP, byte by byte:     *)
(* Client::Exchange (Client.cpp, Client.h, Protocol.h) on one side, the    *)
(* accept loop (server.py) and handle_client (client_handler.py) on the    *)
(* other.  Every exchange has a connection and a server thread of its own. *)
(* The client makes them one after the other; a thread may outlive the     *)
(* exchange that it serves.                                                *)
(*                                                                         *)
(* A stream delivers a prefix of what was written, in order, in pieces of  *)
(* any length, so its content is the number of bytes in it.  What the      *)
(* server makes of a whole request takes effect at one instant             *)
(* (ClientHandlerService), so Handle is one step.                          *)
(***************************************************************************)
EXTENDS Naturals, Sequences

CONSTANTS
  MaxAttempts,      \* bound: exchanges of the client
  RequestHeader,    \* bytes of a request's header
  ResponseHeader,   \* bytes of a response's header
  Requests          \* of each request: the size of its payload, the sizes the
                    \* server may answer and those the client accepts

ASSUME ConstantsAssumption ==
  /\ {MaxAttempts, RequestHeader, ResponseHeader} \subseteq Nat \ {0}
  /\ \A r \in Requests :
       r.payload \in Nat /\ r.accepts \subseteq Nat /\ r.answers \subseteq r.accepts

Attempt == 1..MaxAttempts
Answer == {0} \cup UNION {r.answers : r \in Requests}
Response == [failure : BOOLEAN, size : Answer]

VARIABLES
  client,      \* where Exchange is, or how it ended
  request,     \* the request
  unwritten,   \* bytes of it that asio::write has not written yet
  received,    \* the size of the payload that is handed to the caller
  server,      \* where the thread is
  backlog,     \* connections that wait to be accepted
  response,    \* what handle_client sends
  effect,      \* none, done or refused
  up, down,    \* bytes on their way to the server, and to the client
  broken,      \* the connection was reset
  disturbed,   \* history: broken, or a request or response was cut short
  log          \* history: the exchanges that took effect, in that order

vars == <<client, request, unwritten, received, server, backlog, response,
          effect, up, down, broken, disturbed, log>>

Ends == {"Success", "ServerError", "GeneralError", "killed"}
Ended(x) == client[x] \in Ends
Talking == {"writing", "header", "payload"}

Init ==
  /\ client = [x \in Attempt |-> "idle"]
  /\ request \in [Attempt -> Requests]
  /\ unwritten = [x \in Attempt |-> RequestHeader + request[x].payload]
  /\ received = [x \in Attempt |-> 0]
  /\ server = [x \in Attempt |-> "none"]
  /\ backlog = <<>>
  /\ response = [x \in Attempt |-> [failure |-> TRUE, size |-> 0]]
  /\ effect = [x \in Attempt |-> "none"]
  /\ up = [x \in Attempt |-> 0]
  /\ down = [x \in Attempt |-> 0]
  /\ broken = [x \in Attempt |-> FALSE]
  /\ disturbed = [x \in Attempt |-> FALSE]
  /\ log = <<>>

clientSide == <<client, request, unwritten, received>>
serverSide == <<server, backlog, response, effect, log>>
stream == <<up, down, broken>>

AtMost(n, m) == IF n < m THEN n ELSE m

Disturbed(x) == disturbed' = [disturbed EXCEPT ![x] = TRUE]
-----------------------------------------------------------------------------
(* Client::Exchange                                                        *)

(* Mutant: an exchange may begin before the last one has ended.            *)
MayConnectAtOnce(x) == client[x] = "idle"

(* socket.connect succeeds as soon as the connection is in the backlog.    *)
MayConnect(x) == client[x] = "idle" /\ \A y \in 1..x-1 : Ended(y)

Connect(x) ==
  /\ MayConnect(x)
  /\ client' = [client EXCEPT ![x] = "writing"]
  /\ server' = [server EXCEPT ![x] = "backlog"]
  /\ backlog' = Append(backlog, x)
  /\ UNCHANGED <<request, unwritten, received, response, effect, log, stream, disturbed>>

(* socket.connect throws: there is no server.                              *)
ConnectFails(x) ==
  /\ MayConnect(x)
  /\ client' = [client EXCEPT ![x] = "GeneralError"]
  /\ server' = [server EXCEPT ![x] = "ended"]
  /\ effect' = [effect EXCEPT ![x] = "refused"]
  /\ Disturbed(x)
  /\ UNCHANGED <<request, unwritten, received, backlog, response, log, stream>>

(* asio::write writes all of the request, in pieces.                       *)
Write(x) ==
  /\ client[x] = "writing" /\ ~broken[x]
  /\ \E n \in 1..unwritten[x] :
       /\ unwritten' = [unwritten EXCEPT ![x] = @ - n]
       /\ up' = [up EXCEPT ![x] = @ + n]
  /\ client' = [client EXCEPT ![x] = IF unwritten'[x] = 0 THEN "header" ELSE @]
  /\ UNCHANGED <<request, received, serverSide, down, broken, disturbed>>

(* Mutant: the read returns with what there is, as read_some does.         *)
ReadSome(x, n) == down[x] > 0

(* asio::read with transfer_exactly(n)                                     *)
ReadExactly(x, n) == down[x] >= n

(* BaseResponseHeader::Deserialize; the server sends no other opcode.      *)
HeaderAccepted(r) == r.failure => r.size = 0

ReadHeader(x) ==
  /\ client[x] = "header" /\ ReadExactly(x, ResponseHeader)
  /\ down' = [down EXCEPT ![x] = @ - AtMost(@, ResponseHeader)]
  /\ client' = [client EXCEPT ![x] =
       IF HeaderAccepted(response[x]) THEN "payload" ELSE "GeneralError"]
  /\ UNCHANGED <<request, unwritten, received, serverSide, up, broken, disturbed>>

(* Mutant: the size of the body is compared with that of the whole message.*)
AnswerAcceptedWhole(r, size) == ResponseHeader + size \in r.accepts

(* ResponseHeader::Deserialize and StaticResponse::Desrialize take one     *)
(* size, HandleList a multiple of that of a node, HandleWaitingMessages    *)
(* every size.                                                             *)
AnswerAccepted(r, size) == size \in r.accepts

ReadPayload(x) ==
  /\ client[x] = "payload" /\ ReadExactly(x, response[x].size)
  /\ received' = [received EXCEPT ![x] = AtMost(down[x], response[x].size)]
  /\ down' = [down EXCEPT ![x] = @ - received'[x]]
  /\ client' = [client EXCEPT ![x] =
       CASE response[x].failure -> "ServerError"
         [] ~response[x].failure /\ AnswerAccepted(request[x], response[x].size) -> "Success"
         [] OTHER -> "GeneralError"]
  /\ UNCHANGED <<request, unwritten, serverSide, up, broken, disturbed>>

Fails(x, n) ==
  n > 0 /\ (broken[x] \/ (server[x] = "ended" /\ ~ReadExactly(x, n)))

(* A write or a read throws: the connection is reset, or the server has    *)
(* closed it and there is not enough left to read.                         *)
Throws(x) ==
  /\ \/ client[x] = "writing" /\ (broken[x] \/ server[x] = "ended")
     \/ client[x] = "header" /\ Fails(x, ResponseHeader)
     \/ client[x] = "payload" /\ Fails(x, response[x].size)
  /\ client' = [client EXCEPT ![x] = "GeneralError"]
  /\ UNCHANGED <<request, unwritten, received, serverSide, stream, disturbed>>
-----------------------------------------------------------------------------
(* run_server and handle_client                                            *)

Accept ==
  /\ backlog # <<>>
  /\ server' = [server EXCEPT ![Head(backlog)] = "header"]
  /\ backlog' = Tail(backlog)
  /\ UNCHANGED <<clientSide, response, effect, log, stream, disturbed>>

(* Mutant: recv is repeated until there are n bytes, come what may.        *)
RecvAll(x, n, k) == k = n /\ up[x] >= n

(* One recv for at most n bytes: it waits for the first byte, for the end  *)
(* of the stream, or not at all if n is 0.                                 *)
RecvReturns(x, n, k) ==
  \/ n = 0 /\ k = 0
  \/ n > 0 /\ k \in 1..AtMost(n, up[x])
  \/ n > 0 /\ k = 0 /\ up[x] = 0 /\ Ended(x) /\ ~broken[x]

(* Mutant: the length of what recv returned is not looked at.              *)
IsWholeUnchecked(k, n) == TRUE

IsWhole(k, n) == k = n

(* A read of n bytes, and then the next state of the thread, or send_error.*)
Recv(x, n, next) ==
  \E k \in 0..n :
    /\ RecvReturns(x, n, k)
    /\ up' = [up EXCEPT ![x] = @ - k]
    /\ \/ /\ IsWhole(k, n)
          /\ server' = [server EXCEPT ![x] = next]
          /\ UNCHANGED <<effect, disturbed>>
       \/ /\ ~IsWhole(k, n)
          /\ server' = [server EXCEPT ![x] = "send"]
          /\ effect' = [effect EXCEPT ![x] = "refused"]
          /\ Disturbed(x)
    /\ UNCHANGED <<clientSide, backlog, response, log, down, broken>>

(* The client's headers are valid: ClientHandler has the others.           *)
RecvHeader(x) == server[x] = "header" /\ Recv(x, RequestHeader, "payload")

RecvPayload(x) == server[x] = "payload" /\ Recv(x, request[x].payload, "handle")

Respond(x, r) ==
  /\ server' = [server EXCEPT ![x] = "send"]
  /\ response' = [response EXCEPT ![x] = r]

HandleDone(x) ==
  /\ server[x] = "handle"
  /\ \E size \in request[x].answers : Respond(x, [failure |-> FALSE, size |-> size])
  /\ effect' = [effect EXCEPT ![x] = "done"]
  /\ log' = Append(log, x)
  /\ UNCHANGED <<clientSide, backlog, stream, disturbed>>

(* The sender is unknown, a handler returns None, or raises ValueError.    *)
HandleRefused(x) ==
  /\ server[x] = "handle"
  /\ Respond(x, [failure |-> TRUE, size |-> 0])
  /\ effect' = [effect EXCEPT ![x] = "refused"]
  /\ UNCHANGED <<clientSide, backlog, log, stream, disturbed>>

(* send hands as much to the connection as it takes, and is called once.   *)
Send(x) ==
  /\ server[x] = "send" /\ ~broken[x]
  /\ \E n \in 1..ResponseHeader + response[x].size :
       /\ down' = [down EXCEPT ![x] = @ + n]
       /\ disturbed' = [disturbed EXCEPT ![x] =
                          @ \/ n < ResponseHeader + response[x].size]
  /\ server' = [server EXCEPT ![x] = "close"]
  /\ UNCHANGED <<clientSide, backlog, response, effect, log, up, broken>>

(* Mutant: what is raised ends the thread and leaves the connection open.  *)
RaisedUnclosed == "gone"

(* What is raised leaves handle_client; handle_client_thread closes.       *)
Raised == "close"

(* recv or send raises: the connection is reset.  The handlers raise what  *)
(* is no ValueError before they change anything (ClientHandler: struct and *)
(* dictionary errors).                                                     *)
Raise(x) ==
  /\ \/ server[x] \in {"header", "payload", "send"} /\ broken[x]
     \/ server[x] = "handle"
  /\ server' = [server EXCEPT ![x] = Raised]
  /\ effect' = [effect EXCEPT ![x] = IF @ = "none" THEN "refused" ELSE @]
  /\ Disturbed(x)
  /\ UNCHANGED <<clientSide, backlog, response, log, stream>>

(* Bytes that nobody has read turn the close into a reset, which may       *)
(* overtake the response.                                                  *)
Close(x) ==
  /\ server[x] = "close"
  /\ server' = [server EXCEPT ![x] = "ended"]
  /\ \/ UNCHANGED <<broken, disturbed>>
     \/ /\ up[x] > 0
        /\ broken' = [broken EXCEPT ![x] = TRUE]
        /\ Disturbed(x)
  /\ UNCHANGED <<clientSide, backlog, response, effect, log, up, down>>
-----------------------------------------------------------------------------
(* Faults                                                                  *)

(* The client program is killed, and its connection is closed.             *)
Kill(x) ==
  /\ client[x] \in Talking
  /\ client' = [client EXCEPT ![x] = "killed"]
  /\ UNCHANGED <<request, unwritten, received, serverSide, stream, disturbed>>

(* The network, or a reset by either host, breaks the connection.  From    *)
(* then on a call on the socket raises, or still reads what had arrived.   *)
Break(x) ==
  /\ server[x] \notin {"none", "ended"} \/ client[x] \in Talking
  /\ ~broken[x]
  /\ broken' = [broken EXCEPT ![x] = TRUE]
  /\ Disturbed(x)
  /\ UNCHANGED <<clientSide, serverSide, up, down>>
-----------------------------------------------------------------------------
ClientStep(x) == Write(x) \/ ReadHeader(x) \/ ReadPayload(x) \/ Throws(x)

ThreadStep(x) ==
  \/ RecvHeader(x) \/ RecvPayload(x) \/ HandleDone(x) \/ HandleRefused(x)
  \/ Send(x) \/ Raise(x) \/ Close(x)

Next ==
  \/ Accept
  \/ \E x \in Attempt :
       \/ Connect(x) \/ ConnectFails(x)
       \/ ClientStep(x) \/ ThreadStep(x)
       \/ Kill(x) \/ Break(x)

Spec == Init /\ [][Next]_vars

(* A thread that can take a step takes one, and so does the accept loop.   *)
(* The user makes the next exchange or does not; nothing has to fail.      *)
FairSpec ==
  /\ Spec
  /\ WF_vars(Accept)
  /\ \A x \in Attempt : WF_vars(ClientStep(x)) /\ WF_vars(ThreadStep(x))
-----------------------------------------------------------------------------
(* Correctness                                                             *)

(* Every variable holds a value of its type.                               *)
TypeOK ==
  /\ client \in [Attempt -> Ends \cup Talking \cup {"idle"}]
  /\ request \in [Attempt -> Requests]
  /\ server \in [Attempt -> {"none", "backlog", "header", "payload", "handle",
                            "send", "close", "ended"}]
  /\ backlog \in Seq(Attempt) /\ log \in Seq(Attempt)
  /\ response \in [Attempt -> Response]
  /\ effect \in [Attempt -> {"none", "done", "refused"}]
  /\ {unwritten, received, up, down} \subseteq [Attempt -> Nat]
  /\ {broken, disturbed} \subseteq [Attempt -> BOOLEAN]

(* A request takes effect only if every byte of it was written and read,   *)
(* however it was cut up on the way.                                       *)
NothingCutShort ==
  \A x \in Attempt : effect[x] = "done" => unwritten[x] = 0 /\ up[x] = 0

(* A request is overtaken by a later one of its client only if its         *)
(* exchange was reported as failed.                                        *)
InOrder ==
  \A i, j \in DOMAIN log :
    i < j /\ log[i] > log[j] => client[log[j]] \in {"GeneralError", "killed"}

(* A request that got through whole, and whose answer got through whole,   *)
(* is not reported as failed: Success if it took effect, ServerError if    *)
(* the server refused it.                                                  *)
FailureHasCause ==
  \A x \in Attempt :
    Ended(x) /\ client[x] # "killed" /\ ~disturbed[x] =>
      client[x] = IF effect[x] = "done" THEN "Success" ELSE "ServerError"

(* Every exchange comes to an end for its caller, whether the request was  *)
(* cut short, the answer was cut short, or the connection broke.           *)
Returns == \A x \in Attempt : client[x] \in Talking ~> Ended(x)

(* Every connection's thread comes to an end and closes it.                *)
ThreadsEnd ==
  \A x \in Attempt : server[x] = "backlog" ~> server[x] = "ended"
-----------------------------------------------------------------------------
Outcome == INSTANCE ExchangeOutcome WITH
  outcome <- [x \in Attempt |-> IF client[x] \in Talking THEN "waiting" ELSE client[x]],
  answer <- [x \in Attempt |-> response[x].size]

(* What the caller is told is true of what the server did.                 *)
ImplementsOutcome == Outcome!Spec
=============================================================================
