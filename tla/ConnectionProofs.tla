-------------------------- MODULE ConnectionProofs --------------------------
(***************************************************************************)
(* What Connection guarantees for every number of exchanges, every length  *)
(* of headers, payloads and answers, and however the streams are cut.      *)
(***************************************************************************)
EXTENDS Connection, TLAPS

-----------------------------------------------------------------------------
(* The inductive invariant, exchange by exchange.                          *)

Early == {"none", "backlog", "header", "payload", "handle"}
Late == {"send", "close", "ended"}
Nothing == [failure |-> TRUE, size |-> 0]

(* What the client has not written and what is on its way is the request   *)
(* but for what the thread has read.                                       *)
Upstream(x) ==
  /\ client[x] \in {"idle", "writing"} => unwritten[x] > 0
  /\ client[x] \in {"header", "payload", "Success", "ServerError"} => unwritten[x] = 0
  /\ server[x] \in {"none", "backlog", "header"} =>
       unwritten[x] + up[x] = RequestHeader + request[x].payload
  /\ server[x] = "payload" => unwritten[x] + up[x] = request[x].payload
  /\ server[x] = "handle" \/ effect[x] = "done" \/ (server[x] \in Late /\ ~disturbed[x]) =>
       unwritten[x] = 0 /\ up[x] = 0

(* What is on its way to the client is the response but for what it has    *)
(* read, or less of it.                                                    *)
Downstream(x) ==
  /\ server[x] \notin {"close", "ended"} => down[x] = 0
  /\ server[x] \in {"close", "ended"} /\ ~disturbed[x] =>
       /\ client[x] \in {"idle", "writing", "header"} =>
            down[x] = ResponseHeader + response[x].size
       /\ client[x] = "payload" => down[x] = response[x].size
  /\ client[x] \in {"payload", "Success", "ServerError"} => server[x] \in {"close", "ended"}

(* The thread decides once what becomes of the request, and says so.       *)
Decision(x) ==
  /\ client[x] = "idle" <=> server[x] = "none"
  /\ server[x] \in Early <=> effect[x] = "none"
  /\ effect[x] # "done" => response[x] = Nothing
  /\ effect[x] = "done" => ~response[x].failure /\ response[x].size \in request[x].answers

(* What the client reports.                                                *)
Report(x) ==
  /\ client[x] = "Success" => effect[x] = "done" /\ received[x] = response[x].size
  /\ client[x] = "ServerError" => effect[x] = "refused"
  /\ client[x] = "GeneralError" \/ broken[x] => disturbed[x]
  /\ received[x] \in Answer

ExchangeInv(x) == Upstream(x) /\ Downstream(x) /\ Decision(x) /\ Report(x)

(* The client makes one exchange after the other.                          *)
OneByOne ==
  \A x, y \in Attempt : client[x] # "idle" /\ y < x => Ended(y)

(* A connection waits once to be accepted.                                 *)
BacklogInv ==
  \A i \in DOMAIN backlog :
    /\ server[backlog[i]] = "backlog"
    /\ \A j \in DOMAIN backlog : backlog[i] = backlog[j] => i = j

LogInv == \A i \in DOMAIN log : effect[log[i]] = "done"

CInv ==
  /\ TypeOK
  /\ \A x \in Attempt : ExchangeInv(x)
  /\ OneByOne /\ BacklogInv /\ LogInv /\ InOrder
-----------------------------------------------------------------------------
(* The numbers and types of one exchange.                                  *)
LEMMA RequestSizes ==
  ASSUME TypeOK, NEW x \in Attempt
  PROVE  /\ RequestHeader \in Nat /\ RequestHeader > 0
         /\ ResponseHeader \in Nat /\ ResponseHeader > 0
         /\ request[x].payload \in Nat
         /\ request[x].answers \subseteq Nat /\ request[x].answers \subseteq Answer
         /\ request[x].answers \subseteq request[x].accepts
         /\ response[x].size \in Nat /\ response[x].size \in Answer
         /\ response[x].failure \in BOOLEAN
         /\ {unwritten[x], received[x], up[x], down[x]} \subseteq Nat
  <1>1. request[x] \in Requests /\ response[x] \in Response
    BY DEF TypeOK
  <1>2. /\ request[x].payload \in Nat
        /\ request[x].answers \subseteq Nat /\ request[x].answers \subseteq request[x].accepts
    BY <1>1, ConstantsAssumption
  <1>3. Answer \subseteq Nat
    <2> SUFFICES ASSUME NEW a \in Answer PROVE a \in Nat
      OBVIOUS
    <2>1. a = 0 \/ \E r \in Requests : a \in r.answers
      BY DEF Answer
    <2>2. \A r \in Requests : r.answers \subseteq Nat
      BY ConstantsAssumption
    <2> QED
      BY <2>1, <2>2
  <1>4. request[x].answers \subseteq Answer
    BY <1>1 DEF Answer
  <1>5. /\ RequestHeader \in Nat /\ RequestHeader > 0
        /\ ResponseHeader \in Nat /\ ResponseHeader > 0
    BY ConstantsAssumption
  <1>6. response[x].size \in Answer /\ response[x].failure \in BOOLEAN
    BY <1>1 DEF Response
  <1>7. {unwritten[x], received[x], up[x], down[x]} \subseteq Nat
    BY DEF TypeOK
  <1> QED
    BY <1>2, <1>3, <1>4, <1>5, <1>6, <1>7

(* No exchange has begun.                                                  *)
LEMMA CInit == Init => CInv
  <1> SUFFICES ASSUME Init PROVE CInv
    OBVIOUS
  <1>0. Nothing \in Response /\ 0 \in Answer
    <2>1. 0 \in Answer
      BY DEF Answer
    <2> QED
      BY <2>1 DEF Nothing, Response
  <1>1. \A x \in Attempt : RequestHeader + request[x].payload \in Nat \ {0}
    <2> SUFFICES ASSUME NEW x \in Attempt PROVE RequestHeader + request[x].payload \in Nat \ {0}
      OBVIOUS
    <2>1. request[x] \in Requests
      BY DEF Init
    <2>2. RequestHeader \in Nat \ {0} /\ request[x].payload \in Nat
      BY <2>1, ConstantsAssumption
    <2> QED
      BY <2>2
  <1>2. TypeOK
    BY <1>0, <1>1 DEF Init, TypeOK, Nothing
  <1>3. \A x \in Attempt : ExchangeInv(x)
    <2> SUFFICES ASSUME NEW x \in Attempt PROVE ExchangeInv(x)
      OBVIOUS
    <2>1. Upstream(x)
      BY <1>1, RequestSizes, <1>2 DEF Init, Upstream, Late
    <2>2. Downstream(x) /\ Decision(x) /\ Report(x)
      BY <1>0 DEF Init, Downstream, Decision, Report, Early, Nothing
    <2> QED
      BY <2>1, <2>2 DEF ExchangeInv
  <1>4. OneByOne /\ BacklogInv /\ LogInv /\ InOrder
    BY DEF Init, OneByOne, BacklogInv, LogInv, InOrder
  <1> QED
    BY <1>2, <1>3, <1>4 DEF CInv
-----------------------------------------------------------------------------
(* A step is of one exchange.                                              *)

Untouched(x) ==
  /\ client'[x] = client[x] /\ request'[x] = request[x]
  /\ unwritten'[x] = unwritten[x] /\ received'[x] = received[x]
  /\ server'[x] = server[x] /\ response'[x] = response[x] /\ effect'[x] = effect[x]
  /\ up'[x] = up[x] /\ down'[x] = down[x]
  /\ broken'[x] <=> broken[x]
  /\ disturbed'[x] <=> disturbed[x]

Others(x) == \A y \in Attempt \ {x} : Untouched(y)

(* What a step does not touch stays true.                                  *)
LEMMA UntouchedInv ==
  ASSUME NEW x \in Attempt, ExchangeInv(x), Untouched(x)
  PROVE  ExchangeInv(x)'
  BY DEF Untouched, ExchangeInv, Upstream, Downstream, Decision, Report, Early, Late

Step(x) ==
  \/ Connect(x) \/ ConnectFails(x) \/ ClientStep(x) \/ ThreadStep(x) \/ Kill(x) \/ Break(x)

(* The other exchanges keep what they have.                                *)
LEMMA OthersUntouched ==
  ASSUME TypeOK, NEW x \in Attempt, Step(x)
  PROVE  Others(x)
  <1> USE DEF TypeOK, Others, Untouched, clientSide, serverSide, stream
  <1>1. Connect(x) => Others(x)
    BY DEF Connect
  <1>2. ConnectFails(x) => Others(x)
    BY DEF ConnectFails, Disturbed
  <1>3. Write(x) => Others(x)
    BY DEF Write
  <1>4. ReadHeader(x) => Others(x)
    BY DEF ReadHeader
  <1>5. ReadPayload(x) => Others(x)
    BY DEF ReadPayload
  <1>6. Throws(x) => Others(x)
    BY DEF Throws
  <1>7. HandleDone(x) => Others(x)
    BY DEF HandleDone, Respond
  <1>8. HandleRefused(x) => Others(x)
    BY DEF HandleRefused, Respond
  <1>9. Send(x) => Others(x)
    BY DEF Send
  <1>10. Raise(x) => Others(x)
    BY DEF Raise, Disturbed
  <1>11. Close(x) => Others(x)
    BY DEF Close, Disturbed
  <1>12. Kill(x) => Others(x)
    BY DEF Kill
  <1>13. Break(x) => Others(x)
    BY DEF Break, Disturbed
  <1>14. RecvHeader(x) => Others(x)
    BY DEF RecvHeader, Recv, Disturbed
  <1>15. RecvPayload(x) => Others(x)
    BY DEF RecvPayload, Recv, Disturbed
  <1> QED
    BY <1>1, <1>2, <1>3, <1>4, <1>5, <1>6, <1>7, <1>8, <1>9, <1>10, <1>11, <1>12, <1>13, <1>14,
       <1>15 DEF Step, ClientStep, ThreadStep
-----------------------------------------------------------------------------

(* One lemma per action: it keeps the invariant of its exchange.           *)
LEMMA ConnectInv ==
  ASSUME TypeOK, NEW x \in Attempt, ExchangeInv(x), Connect(x)
  PROVE  TypeOK' /\ ExchangeInv(x)'
  <1> USE RequestSizes DEF Connect, MayConnect, clientSide, serverSide, stream
  <1>1. TypeOK'
    BY SMTT(30) DEF TypeOK, Ends, Talking, Response
  <1> USE DEF ExchangeInv, Upstream, Downstream, Decision, Report, TypeOK
  <1>2. Upstream(x)'
    BY DEF Late, Early, Ends, Talking
  <1>3. Downstream(x)'
    BY DEF Late, Early, Nothing, Ends, Talking
  <1>4. Decision(x)'
    BY DEF Late, Early, Nothing, Ends, Talking
  <1>5. Report(x)'
    BY DEF Late, Early, Nothing, Ends, Talking
  <1> QED
    BY <1>1, <1>2, <1>3, <1>4, <1>5

LEMMA ConnectFailsInv ==
  ASSUME TypeOK, NEW x \in Attempt, ExchangeInv(x), ConnectFails(x)
  PROVE  TypeOK' /\ ExchangeInv(x)'
  <1> USE RequestSizes DEF ConnectFails, MayConnect, Disturbed, clientSide, serverSide, stream
  <1>1. TypeOK'
    BY DEF TypeOK, Ends, Talking, Response
  <1> USE DEF ExchangeInv, Upstream, Downstream, Decision, Report, TypeOK
  <1>2. Upstream(x)'
    BY DEF Late, Early, Ends, Talking
  <1>3. Downstream(x)'
    BY DEF Late, Early, Nothing, Ends, Talking
  <1>4. Decision(x)'
    BY DEF Late, Early, Nothing, Ends, Talking
  <1>5. Report(x)'
    BY DEF Late, Early, Nothing, Ends, Talking
  <1> QED
    BY <1>1, <1>2, <1>3, <1>4, <1>5

LEMMA WriteInv ==
  ASSUME TypeOK, NEW x \in Attempt, ExchangeInv(x), Write(x)
  PROVE  TypeOK' /\ ExchangeInv(x)'
  <1> USE RequestSizes DEF Write, clientSide, serverSide, stream
  <1>a. PICK n \in 1..unwritten[x] : /\ unwritten' = [unwritten EXCEPT ![x] = @ - n]
                                     /\ up' = [up EXCEPT ![x] = @ + n]
    OBVIOUS
  <1>b. n \in Nat /\ n >= 1 /\ n <= unwritten[x] /\ unwritten[x] - n \in Nat /\ up[x] + n \in Nat
    OBVIOUS
  <1>c. unwritten'[x] = unwritten[x] - n /\ up'[x] = up[x] + n
    BY <1>a DEF TypeOK
  <1>1. TypeOK'
    <2>1. unwritten' \in [Attempt -> Nat] /\ up' \in [Attempt -> Nat]
      BY <1>a, <1>b DEF TypeOK
    <2>2. client' \in [Attempt -> Ends \cup Talking \cup {"idle"}]
      BY DEF TypeOK, Talking
    <2> QED
      BY SMTT(30), <2>1, <2>2 DEF TypeOK
  <1> USE DEF ExchangeInv, Upstream, Downstream, Decision, Report, TypeOK
  <1>2. Upstream(x)'
    <2>1. client[x] = "writing" /\ client'[x] = IF unwritten'[x] = 0 THEN "header" ELSE "writing"
      OBVIOUS
    <2>2. /\ request'[x] = request[x] /\ server'[x] = server[x] /\ effect'[x] = effect[x]
          /\ disturbed'[x] <=> disturbed[x]
      OBVIOUS
    <2>3. request[x].payload \in Nat /\ RequestHeader \in Nat
      OBVIOUS
    <2>4. Upstream(x) /\ unwritten[x] \in Nat /\ up[x] \in Nat
      OBVIOUS
    <2> QED
      BY ONLY <1>b, <1>c, <2>1, <2>2, <2>3, <2>4 DEF Upstream, Late
  <1>3. Downstream(x)'
    BY DEF Late, Early, Nothing, Ends, Talking
  <1>4. Decision(x)'
    BY DEF Late, Early, Nothing, Ends, Talking
  <1>5. Report(x)'
    BY DEF Late, Early, Nothing, Ends, Talking
  <1> QED
    BY <1>1, <1>2, <1>3, <1>4, <1>5

LEMMA ReadHeaderInv ==
  ASSUME TypeOK, NEW x \in Attempt, ExchangeInv(x), ReadHeader(x)
  PROVE  TypeOK' /\ ExchangeInv(x)'
  <1> USE RequestSizes DEF ReadHeader, ReadExactly, AtMost, HeaderAccepted,
         clientSide, serverSide, stream
  <1>a. down[x] - AtMost(down[x], ResponseHeader) \in Nat
    OBVIOUS
  <1>1. TypeOK'
    <2>1. down' \in [Attempt -> Nat]
      BY <1>a DEF TypeOK
    <2>2. client' \in [Attempt -> Ends \cup Talking \cup {"idle"}]
      BY DEF TypeOK, Ends, Talking
    <2>3. UNCHANGED <<request, unwritten, received, serverSide, up, broken, disturbed>>
      OBVIOUS
    <2> QED
      BY ONLY TypeOK, <2>1, <2>2, <2>3 DEF TypeOK, serverSide
  <1> USE DEF ExchangeInv, Upstream, Downstream, Decision, Report, TypeOK
  <1>2. Upstream(x)'
    BY DEF Late, Early, Ends, Talking
  <1>3. Downstream(x)'
    BY SMTT(30) DEF Late, Early, Nothing, Ends, Talking
  <1>4. Decision(x)'
    BY DEF Late, Early, Nothing, Ends, Talking
  <1>5. Report(x)'
    BY DEF Late, Early, Nothing, Ends, Talking
  <1> QED
    BY <1>1, <1>2, <1>3, <1>4, <1>5

LEMMA ReadPayloadInv ==
  ASSUME TypeOK, NEW x \in Attempt, ExchangeInv(x), ReadPayload(x)
  PROVE  TypeOK' /\ ExchangeInv(x)'
  <1> USE RequestSizes DEF ReadPayload, ReadExactly, AtMost,
         clientSide, serverSide, stream
  <1>a. received'[x] = response[x].size /\ down[x] - received'[x] \in Nat
    <2>1. /\ response[x].size \in Nat /\ down[x] \in Nat
          /\ response[x].size <= down[x]
      OBVIOUS
    <2>2. received'[x] = AtMost(down[x], response[x].size)
      BY ONLY TypeOK, x \in Attempt, ReadPayload(x) DEF TypeOK, ReadPayload
    <2> QED
      BY ONLY <2>1, <2>2 DEF AtMost
  <1>b. \A size \in request[x].answers : AnswerAccepted(request[x], size)
    BY DEF AnswerAccepted
  <1>1. TypeOK'
    <2>1. received' \in [Attempt -> Nat] /\ down' \in [Attempt -> Nat]
      BY <1>a DEF TypeOK
    <2>2. client' \in [Attempt -> Ends \cup Talking \cup {"idle"}]
      BY DEF TypeOK, Ends
    <2>3. UNCHANGED <<request, unwritten, serverSide, up, broken, disturbed>>
      OBVIOUS
    <2> QED
      BY ONLY TypeOK, <2>1, <2>2, <2>3 DEF TypeOK, serverSide
  <1> USE DEF ExchangeInv, Upstream, Downstream, Decision, Report, TypeOK
  <1>2. Upstream(x)'
    BY DEF Late, Early, Ends, Talking
  <1>3. Downstream(x)'
    BY DEF Late, Early, Nothing, Ends, Talking
  <1>4. Decision(x)'
    BY DEF Late, Early, Nothing, Ends, Talking
  <1>5. Report(x)'
    <2>1. server[x] \in {"close", "ended"} /\ effect[x] \in {"done", "refused"}
      BY DEF Early
    <2>2. CASE effect[x] = "done"
      BY <1>a, <1>b, <2>2 DEF Ends
    <2>3. CASE effect[x] = "refused"
      BY <1>a, <2>3 DEF Nothing
    <2> QED
      BY <2>1, <2>2, <2>3
  <1> QED
    BY <1>1, <1>2, <1>3, <1>4, <1>5

LEMMA ThrowsInv ==
  ASSUME TypeOK, NEW x \in Attempt, ExchangeInv(x), Throws(x)
  PROVE  TypeOK' /\ ExchangeInv(x)'
  <1> USE RequestSizes DEF Throws, Fails, ReadExactly, clientSide, serverSide, stream
  <1>1. TypeOK'
    BY DEF TypeOK, Ends, Talking, Response
  <1> USE DEF ExchangeInv, Upstream, Downstream, Decision, Report, TypeOK
  <1>2. Upstream(x)'
    BY DEF Late, Early, Ends, Talking
  <1>3. Downstream(x)'
    BY DEF Late, Early, Nothing, Ends, Talking
  <1>4. Decision(x)'
    BY DEF Late, Early, Nothing, Ends, Talking
  <1>5. Report(x)'
    BY DEF Late, Early, Nothing, Ends, Talking
  <1> QED
    BY <1>1, <1>2, <1>3, <1>4, <1>5

LEMMA HandleDoneInv ==
  ASSUME TypeOK, NEW x \in Attempt, ExchangeInv(x), HandleDone(x)
  PROVE  TypeOK' /\ ExchangeInv(x)'
  <1> USE RequestSizes DEF HandleDone, Respond, clientSide, serverSide, stream
  <1>a. PICK size \in request[x].answers :
          response' = [response EXCEPT ![x] = [failure |-> FALSE, size |-> size]]
    OBVIOUS
  <1>1. TypeOK'
    <2>1. [failure |-> FALSE, size |-> size] \in Response
      BY DEF Response
    <2>2. response' \in [Attempt -> Response]
      BY <1>a, <2>1 DEF TypeOK
    <2>3. log' \in Seq(Attempt)
      BY DEF TypeOK
    <2> QED
      BY <2>2, <2>3 DEF TypeOK
  <1> USE DEF ExchangeInv, Upstream, Downstream, Decision, Report, TypeOK
  <1>2. Upstream(x)'
    BY DEF Late, Early, Ends, Talking
  <1>3. Downstream(x)'
    BY DEF Late, Early, Nothing, Ends, Talking
  <1>4. Decision(x)'
    BY DEF Late, Early, Nothing, Ends, Talking
  <1>5. Report(x)'
    BY DEF Late, Early, Nothing, Ends, Talking
  <1> QED
    BY <1>1, <1>2, <1>3, <1>4, <1>5

LEMMA HandleRefusedInv ==
  ASSUME TypeOK, NEW x \in Attempt, ExchangeInv(x), HandleRefused(x)
  PROVE  TypeOK' /\ ExchangeInv(x)'
  <1> USE RequestSizes DEF HandleRefused, Respond, clientSide, serverSide, stream
  <1>1. TypeOK'
    <2>1. [failure |-> TRUE, size |-> 0] \in Response
      BY DEF Response, Answer
    <2>2. response' \in [Attempt -> Response]
      BY <2>1 DEF TypeOK
    <2> QED
      BY <2>2 DEF TypeOK
  <1> USE DEF ExchangeInv, Upstream, Downstream, Decision, Report, TypeOK
  <1>2. Upstream(x)'
    BY DEF Late, Early, Ends, Talking
  <1>3. Downstream(x)'
    BY DEF Late, Early, Nothing, Ends, Talking
  <1>4. Decision(x)'
    BY DEF Late, Early, Nothing, Ends, Talking
  <1>5. Report(x)'
    BY DEF Late, Early, Nothing, Ends, Talking
  <1> QED
    BY <1>1, <1>2, <1>3, <1>4, <1>5

LEMMA SendInv ==
  ASSUME TypeOK, NEW x \in Attempt, ExchangeInv(x), Send(x)
  PROVE  TypeOK' /\ ExchangeInv(x)'
  <1> USE RequestSizes DEF Send, clientSide, serverSide, stream
  <1>a. PICK n \in 1..ResponseHeader + response[x].size :
          /\ down' = [down EXCEPT ![x] = @ + n]
          /\ disturbed' = [disturbed EXCEPT ![x] =
                             @ \/ n < ResponseHeader + response[x].size]
    OBVIOUS
  <1>b. n \in Nat /\ n <= ResponseHeader + response[x].size /\ down[x] + n \in Nat
    OBVIOUS
  <1>1. TypeOK'
    <2>1. down' \in [Attempt -> Nat]
      BY <1>a, <1>b DEF TypeOK
    <2>2. disturbed' \in [Attempt -> BOOLEAN]
      BY <1>a DEF TypeOK
    <2>3. server' = [server EXCEPT ![x] = "close"]
      OBVIOUS
    <2>4. UNCHANGED <<clientSide, backlog, response, effect, log, up, broken>>
      OBVIOUS
    <2> QED
      BY ONLY TypeOK, <2>1, <2>2, <2>3, <2>4 DEF TypeOK, clientSide
  <1> USE DEF ExchangeInv, Upstream, Downstream, Decision, Report, TypeOK
  <1>2. Upstream(x)'
    BY DEF Late, Early, Ends, Talking
  <1>3. Downstream(x)'
    <2>1. down[x] = 0 /\ down'[x] = n
      BY <1>a, <1>b
    <2>2. ~disturbed'[x] => n = ResponseHeader + response[x].size
      <3>1. disturbed'[x] <=> disturbed[x] \/ n < ResponseHeader + response[x].size
        BY <1>a DEF TypeOK
      <3>2. ResponseHeader \in Nat /\ response[x].size \in Nat
        OBVIOUS
      <3> QED
        BY ONLY <1>b, <3>1, <3>2
    <2> QED
      BY <2>1, <2>2 DEF Talking
  <1>4. Decision(x)'
    BY DEF Late, Early, Nothing, Ends, Talking
  <1>5. Report(x)'
    BY DEF Late, Early, Nothing, Ends, Talking
  <1> QED
    BY <1>1, <1>2, <1>3, <1>4, <1>5

LEMMA RaiseInv ==
  ASSUME TypeOK, NEW x \in Attempt, ExchangeInv(x), Raise(x)
  PROVE  TypeOK' /\ ExchangeInv(x)'
  <1> USE RequestSizes DEF Raise, Raised, Disturbed, clientSide, serverSide, stream
  <1>1. TypeOK'
    BY DEF TypeOK, Ends, Talking, Response
  <1> USE DEF ExchangeInv, Upstream, Downstream, Decision, Report, TypeOK
  <1>2. Upstream(x)'
    BY DEF Late, Early, Ends, Talking
  <1>3. Downstream(x)'
    BY DEF Late, Early, Nothing, Ends, Talking
  <1>4. Decision(x)'
    BY DEF Late, Early, Nothing, Ends, Talking
  <1>5. Report(x)'
    BY DEF Late, Early, Nothing, Ends, Talking
  <1> QED
    BY <1>1, <1>2, <1>3, <1>4, <1>5

LEMMA CloseInv ==
  ASSUME TypeOK, NEW x \in Attempt, ExchangeInv(x), Close(x)
  PROVE  TypeOK' /\ ExchangeInv(x)'
  <1> USE RequestSizes DEF Close, Disturbed, clientSide, serverSide, stream
  <1>1. TypeOK'
    <2>1. server' \in [Attempt -> {"none", "backlog", "header", "payload", "handle",
                                   "send", "close", "ended"}]
      BY DEF TypeOK
    <2>2. {broken', disturbed'} \subseteq [Attempt -> BOOLEAN]
      <3>1. CASE UNCHANGED <<broken, disturbed>>
        BY <3>1 DEF TypeOK
      <3>2. CASE /\ broken' = [broken EXCEPT ![x] = TRUE]
                 /\ disturbed' = [disturbed EXCEPT ![x] = TRUE]
        BY <3>2 DEF TypeOK
      <3> QED
        BY <3>1, <3>2
    <2> QED
      BY <2>1, <2>2 DEF TypeOK
  <1> USE DEF ExchangeInv, Upstream, Downstream, Decision, Report, TypeOK
  <1>2. Upstream(x)'
    BY DEF Late, Early, Ends, Talking
  <1>3. Downstream(x)'
    BY DEF Late, Early, Nothing, Ends, Talking
  <1>4. Decision(x)'
    BY DEF Late, Early, Nothing, Ends, Talking
  <1>5. Report(x)'
    BY DEF Late, Early, Nothing, Ends, Talking
  <1> QED
    BY <1>1, <1>2, <1>3, <1>4, <1>5

LEMMA KillInv ==
  ASSUME TypeOK, NEW x \in Attempt, ExchangeInv(x), Kill(x)
  PROVE  TypeOK' /\ ExchangeInv(x)'
  <1> USE RequestSizes DEF Kill, clientSide, serverSide, stream
  <1>1. TypeOK'
    BY DEF TypeOK, Ends, Talking, Response
  <1> USE DEF ExchangeInv, Upstream, Downstream, Decision, Report, TypeOK
  <1>2. Upstream(x)'
    BY DEF Late, Early, Ends, Talking
  <1>3. Downstream(x)'
    BY DEF Late, Early, Nothing, Ends, Talking
  <1>4. Decision(x)'
    BY DEF Late, Early, Nothing, Ends, Talking
  <1>5. Report(x)'
    BY DEF Late, Early, Nothing, Ends, Talking
  <1> QED
    BY <1>1, <1>2, <1>3, <1>4, <1>5

LEMMA BreakInv ==
  ASSUME TypeOK, NEW x \in Attempt, ExchangeInv(x), Break(x)
  PROVE  TypeOK' /\ ExchangeInv(x)'
  <1> USE RequestSizes DEF Break, Disturbed, clientSide, serverSide, stream
  <1>1. TypeOK'
    BY DEF TypeOK, Ends, Talking, Response
  <1> USE DEF ExchangeInv, Upstream, Downstream, Decision, Report, TypeOK
  <1>2. Upstream(x)'
    BY DEF Late, Early, Ends, Talking
  <1>3. Downstream(x)'
    BY DEF Late, Early, Nothing, Ends, Talking
  <1>4. Decision(x)'
    BY DEF Late, Early, Nothing, Ends, Talking
  <1>5. Report(x)'
    BY DEF Late, Early, Nothing, Ends, Talking
  <1> QED
    BY <1>1, <1>2, <1>3, <1>4, <1>5

(* What one recv of the thread comes to.                                   *)
Read(x, n, k, next) ==
  /\ RecvReturns(x, n, k)
  /\ up' = [up EXCEPT ![x] = @ - k]
  /\ \/ /\ k = n /\ server' = [server EXCEPT ![x] = next]
        /\ UNCHANGED <<effect, disturbed>>
     \/ /\ k # n /\ server' = [server EXCEPT ![x] = "send"]
        /\ effect' = [effect EXCEPT ![x] = "refused"]
        /\ disturbed' = [disturbed EXCEPT ![x] = TRUE]
  /\ UNCHANGED <<client, request, unwritten, received, backlog, response, log, down, broken>>

LEMMA RecvHeaderInv ==
  ASSUME TypeOK, NEW x \in Attempt, ExchangeInv(x), RecvHeader(x)
  PROVE  TypeOK' /\ ExchangeInv(x)'
  <1> USE RequestSizes DEF RecvHeader, Recv, RecvReturns, AtMost, IsWhole, Disturbed,
         clientSide, serverSide, stream
  <1>a. PICK k \in 0..RequestHeader : Read(x, RequestHeader, k, "payload")
    BY DEF Read
  <1>b. k \in Nat /\ k <= up[x] /\ up[x] - k \in Nat
    BY <1>a DEF Read
  <1>c. up'[x] = up[x] - k
    BY <1>a DEF Read, TypeOK
  <1>1. TypeOK'
    <2>1. up' \in [Attempt -> Nat]
      BY <1>a, <1>b DEF TypeOK, Read
    <2>2. /\ server' \in [Attempt -> {"none", "backlog", "header", "payload", "handle",
                                     "send", "close", "ended"}]
          /\ effect' \in [Attempt -> {"none", "done", "refused"}]
          /\ disturbed' \in [Attempt -> BOOLEAN]
      BY <1>a DEF TypeOK, Read
    <2>3. UNCHANGED <<client, request, unwritten, received, backlog, response, log, down, broken>>
      BY <1>a DEF Read
    <2> QED
      BY ONLY TypeOK, <2>1, <2>2, <2>3 DEF TypeOK
  <1> USE DEF ExchangeInv, Upstream, Downstream, Decision, Report, TypeOK
  <1>2. Upstream(x)'
    <2>0. /\ request'[x] = request[x] /\ client'[x] = client[x]
          /\ unwritten'[x] = unwritten[x] /\ effect[x] = "none"
          /\ server[x] = "header"
      BY <1>a DEF Read, Early
    <2>3. Upstream(x)
      OBVIOUS
    <2>4. /\ unwritten[x] \in Nat /\ up[x] \in Nat
          /\ request[x].payload \in Nat /\ RequestHeader \in Nat
      OBVIOUS
    <2>1. CASE k = RequestHeader
      <3>1. server'[x] = "payload" /\ effect'[x] = effect[x]
        BY <1>a, <2>1 DEF Read
      <3> QED
        BY ONLY <1>b, <1>c, <2>0, <2>1, <2>3, <2>4, <3>1 DEF Upstream, Late
    <2>2. CASE k # RequestHeader
      <3>1. server'[x] = "send" /\ effect'[x] = "refused" /\ disturbed'[x]
        BY <1>a, <2>2 DEF Read
      <3> QED
        BY ONLY <1>b, <1>c, <2>0, <2>3, <3>1 DEF Upstream, Late
    <2> QED
      BY <2>1, <2>2
  <1>3. Downstream(x)'
    BY DEF Late, Early, Nothing, Ends, Talking
  <1>4. Decision(x)'
    BY SMTT(30) DEF Late, Early, Nothing, Ends, Talking
  <1>5. Report(x)'
    BY DEF Late, Early, Nothing, Ends, Talking
  <1> QED
    BY <1>1, <1>2, <1>3, <1>4, <1>5

LEMMA RecvPayloadInv ==
  ASSUME TypeOK, NEW x \in Attempt, ExchangeInv(x), RecvPayload(x)
  PROVE  TypeOK' /\ ExchangeInv(x)'
  <1> USE RequestSizes DEF RecvPayload, Recv, RecvReturns, AtMost, IsWhole, Disturbed,
         clientSide, serverSide, stream
  <1>a. PICK k \in 0..request[x].payload : Read(x, request[x].payload, k, "handle")
    BY DEF Read
  <1>b. k \in Nat /\ k <= up[x] /\ up[x] - k \in Nat
    BY <1>a DEF Read
  <1>c. up'[x] = up[x] - k
    BY <1>a DEF Read, TypeOK
  <1>1. TypeOK'
    <2>1. up' \in [Attempt -> Nat]
      BY <1>a, <1>b DEF TypeOK, Read
    <2>2. /\ server' \in [Attempt -> {"none", "backlog", "header", "payload", "handle",
                                     "send", "close", "ended"}]
          /\ effect' \in [Attempt -> {"none", "done", "refused"}]
          /\ disturbed' \in [Attempt -> BOOLEAN]
      BY <1>a DEF TypeOK, Read
    <2>3. UNCHANGED <<client, request, unwritten, received, backlog, response, log, down, broken>>
      BY <1>a DEF Read
    <2> QED
      BY ONLY TypeOK, <2>1, <2>2, <2>3 DEF TypeOK
  <1> USE DEF ExchangeInv, Upstream, Downstream, Decision, Report, TypeOK
  <1>2. Upstream(x)'
    <2>0. /\ request'[x] = request[x] /\ client'[x] = client[x]
          /\ unwritten'[x] = unwritten[x] /\ effect[x] = "none"
          /\ server[x] = "payload"
      BY <1>a DEF Read, Early
    <2>3. Upstream(x)
      OBVIOUS
    <2>4. /\ unwritten[x] \in Nat /\ up[x] \in Nat
          /\ request[x].payload \in Nat /\ RequestHeader \in Nat
      OBVIOUS
    <2>1. CASE k = request[x].payload
      <3>1. server'[x] = "handle" /\ effect'[x] = effect[x]
        BY <1>a, <2>1 DEF Read
      <3> QED
        BY ONLY <1>b, <1>c, <2>0, <2>1, <2>3, <2>4, <3>1 DEF Upstream, Late
    <2>2. CASE k # request[x].payload
      <3>1. server'[x] = "send" /\ effect'[x] = "refused" /\ disturbed'[x]
        BY <1>a, <2>2 DEF Read
      <3> QED
        BY ONLY <1>b, <1>c, <2>0, <2>3, <3>1 DEF Upstream, Late
    <2> QED
      BY <2>1, <2>2
  <1>3. Downstream(x)'
    BY DEF Late, Early, Nothing, Ends, Talking
  <1>4. Decision(x)'
    BY DEF Late, Early, Nothing, Ends, Talking
  <1>5. Report(x)'
    BY DEF Late, Early, Nothing, Ends, Talking
  <1> QED
    BY <1>1, <1>2, <1>3, <1>4, <1>5
-----------------------------------------------------------------------------
(* Every step of an exchange keeps its invariant.                          *)
LEMMA StepInv ==
  ASSUME TypeOK, NEW x \in Attempt, ExchangeInv(x), Step(x)
  PROVE  TypeOK' /\ ExchangeInv(x)'
  BY ConnectInv, ConnectFailsInv, WriteInv, ReadHeaderInv, ReadPayloadInv, ThrowsInv, HandleDoneInv,
     HandleRefusedInv, SendInv, RaiseInv, CloseInv, KillInv, BreakInv, RecvHeaderInv, RecvPayloadInv
     DEF Step, ClientStep, ThreadStep

(* Accept takes up one exchange that waits for it.                         *)
LEMMA AcceptInv ==
  ASSUME CInv, Accept
  PROVE  \E x \in Attempt :
           /\ server[x] = "backlog" /\ server'[x] = "header"
           /\ UNCHANGED <<client, effect, log>>
           /\ Others(x) /\ TypeOK' /\ ExchangeInv(x)'
  <1>1. backlog \in Seq(Attempt) /\ backlog # <<>>
    BY DEF CInv, TypeOK, Accept
  <1>2. PICK x \in Attempt : x = Head(backlog)
    BY <1>1
  <1>a. 1 \in DOMAIN backlog /\ x = backlog[1] /\ Tail(backlog) \in Seq(Attempt)
    BY <1>1, <1>2
  <1>3. server[x] = "backlog"
    BY <1>a DEF CInv, BacklogInv
  <1>4. /\ server' = [server EXCEPT ![x] = "header"] /\ backlog' = Tail(backlog)
        /\ UNCHANGED <<clientSide, response, effect, log, stream, disturbed>>
    BY <1>2 DEF Accept
  <1>5. TypeOK'
    BY <1>a, <1>4 DEF CInv, TypeOK, clientSide, stream
  <1>6. server'[x] = "header" /\ Others(x)
    BY <1>2, <1>4 DEF CInv, TypeOK, Others, Untouched, clientSide, stream
  <1>7. ExchangeInv(x)
    BY <1>2 DEF CInv
  <1>8. ExchangeInv(x)'
    BY <1>2, <1>3, <1>4, <1>6, <1>7
       DEF clientSide, stream, ExchangeInv, Upstream, Downstream, Decision, Report, Early, Late
  <1> QED
    BY <1>2, <1>3, <1>4, <1>5, <1>6, <1>8 DEF clientSide

(* Every step keeps the invariant of every exchange.                       *)
LEMMA ExchangesStep ==
  ASSUME CInv, [Next]_vars
  PROVE  TypeOK' /\ \A x \in Attempt : ExchangeInv(x)'
  <1>1. ASSUME NEW x \in Attempt, TypeOK', Others(x), ExchangeInv(x)'
        PROVE  TypeOK' /\ \A y \in Attempt : ExchangeInv(y)'
    BY <1>1, UntouchedInv DEF Others, CInv
  <1>2. CASE Accept
    BY <1>1, <1>2, AcceptInv
  <1>3. ASSUME NEW x \in Attempt, Step(x)
        PROVE  TypeOK' /\ \A y \in Attempt : ExchangeInv(y)'
    BY <1>1, <1>3, StepInv, OthersUntouched DEF CInv
  <1>4. CASE UNCHANGED vars
    <2>1. TypeOK'
      BY <1>4 DEF CInv, TypeOK, vars
    <2>2. \A x \in Attempt : Untouched(x)
      BY <1>4 DEF Untouched, vars
    <2> QED
      BY <2>1, <2>2, UntouchedInv DEF CInv
  <1> QED
    BY <1>2, <1>3, <1>4 DEF Next, Step
-----------------------------------------------------------------------------
(* What is never taken back: the end of an exchange, and what the server   *)
(* has decided.  A client begins after the earlier exchanges have ended,   *)
(* and the log grows by a request that had not taken effect.               *)
Lasting(y) ==
  /\ Ended(y) => client'[y] = client[y]
  /\ client[y] # "idle" => client'[y] # "idle"
  /\ client[y] = "idle" /\ client'[y] # "idle" => \A z \in 1..y-1 : Ended(z)
  /\ effect[y] # "none" => effect'[y] = effect[y]

LogGrows ==
  \/ log' = log
  \/ \E x \in Attempt : /\ log' = Append(log, x)
                        /\ effect[x] = "none" /\ effect'[x] = "done"

BacklogMoves ==
  \/ /\ backlog' = backlog
     /\ \A y \in Attempt : server[y] = "backlog" => server'[y] = "backlog"
  \/ \E x \in Attempt : /\ backlog' = Append(backlog, x)
                        /\ server[x] = "none"
                        /\ server' = [server EXCEPT ![x] = "backlog"]
  \/ /\ backlog # <<>> /\ backlog' = Tail(backlog)
     /\ server' = [server EXCEPT ![Head(backlog)] = "header"]

(* What an exchange has come to lasts, step by step.                       *)
LEMMA StepIsLasting ==
  ASSUME TypeOK, NEW x \in Attempt, ExchangeInv(x), Step(x)
  PROVE  Lasting(x) /\ LogGrows /\ BacklogMoves
  <1> USE DEF TypeOK, clientSide, serverSide, Lasting, Ended, Ends, Talking, Early
  <1>0. /\ client[x] = "idle" <=> server[x] = "none"
        /\ server[x] \in Early <=> effect[x] = "none"
    BY DEF ExchangeInv, Decision
  <1>1. CASE Connect(x)
    BY <1>0, <1>1 DEF Connect, MayConnect, LogGrows, BacklogMoves
  <1>2. CASE ConnectFails(x)
    BY <1>0, <1>2 DEF ConnectFails, MayConnect, LogGrows, BacklogMoves
  <1>3. CASE Write(x)
    BY <1>3 DEF Write, LogGrows, BacklogMoves
  <1>4. CASE ReadHeader(x)
    BY <1>4 DEF ReadHeader, LogGrows, BacklogMoves
  <1>5. CASE ReadPayload(x)
    BY <1>5 DEF ReadPayload, LogGrows, BacklogMoves
  <1>6. CASE Throws(x)
    BY <1>6 DEF Throws, LogGrows, BacklogMoves
  <1>7. CASE HandleDone(x)
    BY <1>0, <1>7 DEF HandleDone, Respond, LogGrows, BacklogMoves
  <1>8. CASE HandleRefused(x)
    BY <1>0, <1>8 DEF HandleRefused, Respond, LogGrows, BacklogMoves
  <1>9. CASE Send(x)
    BY <1>9 DEF Send, LogGrows, BacklogMoves
  <1>10. CASE Raise(x)
    BY <1>10 DEF Raise, LogGrows, BacklogMoves
  <1>11. CASE Close(x)
    BY <1>11 DEF Close, LogGrows, BacklogMoves
  <1>12. CASE Kill(x)
    BY <1>12 DEF Kill, LogGrows, BacklogMoves
  <1>13. CASE Break(x)
    BY <1>13 DEF Break, LogGrows, BacklogMoves
  <1>14. CASE RecvHeader(x)
    BY ZenonT(60), <1>0, <1>14 DEF RecvHeader, Recv, LogGrows, BacklogMoves
  <1>15. CASE RecvPayload(x)
    BY ZenonT(60), <1>0, <1>15 DEF RecvPayload, Recv, LogGrows, BacklogMoves
  <1> QED
    BY <1>1, <1>2, <1>3, <1>4, <1>5, <1>6, <1>7, <1>8, <1>9, <1>10, <1>11, <1>12, <1>13,
       <1>14, <1>15 DEF Step, ClientStep, ThreadStep

(* The same of every step of the system.                                   *)
LEMMA NextIsLasting ==
  ASSUME CInv, [Next]_vars
  PROVE  (\A y \in Attempt : Lasting(y)) /\ LogGrows /\ BacklogMoves
  <1>1. ASSUME NEW y \in Attempt, Untouched(y) PROVE Lasting(y)
    BY <1>1 DEF Untouched, Lasting
  <1>2. CASE Accept
    <2>1. LogGrows /\ BacklogMoves
      BY <1>2 DEF Accept, LogGrows, BacklogMoves
    <2>2. UNCHANGED <<client, effect>>
      BY <1>2 DEF Accept, clientSide
    <2> QED
      BY <2>1, <2>2 DEF Lasting
  <1>3. ASSUME NEW x \in Attempt, Step(x)
        PROVE  (\A y \in Attempt : Lasting(y)) /\ LogGrows /\ BacklogMoves
    BY <1>1, <1>3, StepIsLasting, OthersUntouched DEF CInv, Others
  <1>4. CASE UNCHANGED vars
    BY <1>4 DEF vars, Lasting, LogGrows, BacklogMoves
  <1> QED
    BY <1>2, <1>3, <1>4 DEF Next, Step

(* No exchange begins before the last has ended.                           *)
LEMMA OneByOneStep ==
  ASSUME CInv, [Next]_vars
  PROVE  OneByOne'
  <1> SUFFICES ASSUME NEW x \in Attempt, NEW y \in Attempt, client'[x] # "idle", y < x
               PROVE  Ended(y)'
    BY DEF OneByOne
  <1>1. Lasting(x) /\ Lasting(y)
    BY NextIsLasting
  <1>2. y \in 1..x-1
    BY DEF Attempt
  <1>3. Ended(y)
    BY <1>1, <1>2 DEF CInv, OneByOne, Lasting
  <1> QED
    BY <1>1, <1>3 DEF Lasting, Ended

(* No connection is accepted twice.                                        *)
LEMMA BacklogStep ==
  ASSUME CInv, [Next]_vars
  PROVE  BacklogInv'
  <1> USE DEF CInv, BacklogInv
  <1>0. backlog \in Seq(Attempt) /\ server \in [Attempt -> {"none", "backlog", "header",
                                          "payload", "handle", "send", "close", "ended"}]
    BY DEF TypeOK
  <1> HIDE DEF CInv
  <1>b. BacklogInv
    BY DEF CInv
  <1>1. CASE /\ backlog' = backlog
             /\ \A y \in Attempt : server[y] = "backlog" => server'[y] = "backlog"
    BY <1>0, <1>1, <1>b
  <1>2. ASSUME NEW x \in Attempt, backlog' = Append(backlog, x), server[x] = "none",
               server' = [server EXCEPT ![x] = "backlog"]
        PROVE  BacklogInv'
    BY <1>0, <1>2, <1>b
  <1>3. CASE /\ backlog # <<>> /\ backlog' = Tail(backlog)
             /\ server' = [server EXCEPT ![Head(backlog)] = "header"]
    BY <1>0, <1>3, <1>b
  <1> QED
    BY <1>1, <1>2, <1>3, NextIsLasting DEF BacklogMoves

(* No effect comes out of order without a failure.                         *)
LEMMA LogStep ==
  ASSUME CInv, [Next]_vars
  PROVE  LogInv' /\ InOrder'
  <1>0. log \in Seq(Attempt) /\ LogInv /\ InOrder
    BY DEF CInv, TypeOK
  <1>1. \A i \in DOMAIN log : /\ log[i] \in Attempt
                              /\ Lasting(log[i])
                              /\ effect[log[i]] = "done"
    BY <1>0, NextIsLasting DEF LogInv
  <1>2. CASE log' = log
    BY <1>0, <1>1, <1>2 DEF LogInv, InOrder, Lasting, Ended, Ends
  <1>3. ASSUME NEW x \in Attempt, log' = Append(log, x), effect[x] = "none", effect'[x] = "done"
        PROVE  LogInv' /\ InOrder'
    <2>1. /\ DOMAIN log' = DOMAIN log \cup {Len(log) + 1}
          /\ \A i \in DOMAIN log : log'[i] = log[i] /\ i < Len(log) + 1
          /\ log'[Len(log) + 1] = x
      BY <1>0, <1>3
    <2>2. LogInv'
      BY <1>1, <1>3, <2>1 DEF LogInv, Lasting
    <2>3. ASSUME NEW i \in DOMAIN log, log[i] > x
          PROVE  client'[x] \in {"GeneralError", "killed"}
      <3>1. client[log[i]] # "idle"
        BY <1>1 DEF CInv, ExchangeInv, Decision, Early
      <3>2. Ended(x)
        BY <1>1, <2>3, <3>1 DEF CInv, OneByOne, Attempt
      <3>3. client[x] \in {"GeneralError", "killed"}
        BY <1>3, <3>2 DEF Ended, Ends, CInv, ExchangeInv, Report
      <3> QED
        BY <3>2, <3>3, NextIsLasting DEF Lasting
    <2>4. ASSUME NEW i \in DOMAIN log, NEW j \in DOMAIN log, i < j, log[i] > log[j]
          PROVE  client'[log[j]] \in {"GeneralError", "killed"}
      BY <1>0, <1>1, <2>4 DEF InOrder, Lasting, Ended, Ends
    <2>5. InOrder'
      <3> SUFFICES ASSUME NEW i \in DOMAIN log', NEW j \in DOMAIN log', i < j, log'[i] > log'[j]
                   PROVE  client'[log'[j]] \in {"GeneralError", "killed"}
        BY DEF InOrder
      <3>1. i \in DOMAIN log
        BY <1>0, <2>1
      <3>2. CASE j \in DOMAIN log
        BY <2>1, <2>4, <3>1, <3>2
      <3>3. CASE j = Len(log) + 1
        BY <2>1, <2>3, <3>1, <3>3
      <3> QED
        BY <2>1, <3>2, <3>3
    <2> QED
      BY <2>2, <2>5
  <1> QED
    BY <1>2, <1>3, NextIsLasting DEF LogGrows

(* The inductive invariant holds in every reachable state.                 *)
LEMMA CInvariance == Spec => []CInv
  <1>1. CInv /\ [Next]_vars => CInv'
    BY ExchangesStep, OneByOneStep, BacklogStep, LogStep DEF CInv
  <1> QED
    BY CInit, <1>1, PTL DEF Spec
-----------------------------------------------------------------------------
(* Every variable always holds a value of its type.                        *)
THEOREM ConnectionTypes == Spec => []TypeOK
  <1>1. CInv => TypeOK
    BY DEF CInv
  <1> QED
    BY <1>1, CInvariance, PTL

(* handle_client acts on a request only when every byte of it was written  *)
(* and read, wherever TCP cut the stream: what recv returned short is      *)
(* refused.                                                                *)
THEOREM NothingIsCutShort == Spec => []NothingCutShort
  <1>1. CInv => NothingCutShort
    BY DEF CInv, ExchangeInv, Upstream, NothingCutShort
  <1> QED
    BY <1>1, CInvariance, PTL

(* Though a thread may outlive its exchange, a request takes effect after  *)
(* a later one of its client only if Exchange had reported it as failed.   *)
THEOREM OvertakenOnlyIfFailed == Spec => []InOrder
  <1>1. CInv => InOrder
    BY DEF CInv
  <1> QED
    BY <1>1, CInvariance, PTL

(* Exchange throws no general error about a request and an answer that got *)
(* through whole: what it reports then is what handle_client decided.      *)
THEOREM NoFailureWithoutCause == Spec => []FailureHasCause
  <1>1. ASSUME CInv PROVE FailureHasCause
    <2> SUFFICES ASSUME NEW x \in Attempt, Ended(x), client[x] # "killed", ~disturbed[x]
                 PROVE  client[x] = IF effect[x] = "done" THEN "Success" ELSE "ServerError"
      BY DEF FailureHasCause
    <2> QED
      BY <1>1 DEF CInv, ExchangeInv, Report, Ended, Ends
  <1> QED
    BY <1>1, CInvariance, PTL
-----------------------------------------------------------------------------
(* The exchanges implement ExchangeOutcome.                                *)

Told(x) == IF client[x] \in Talking THEN "waiting" ELSE client[x]
outcome == [x \in Attempt |-> Told(x)]
answer == [x \in Attempt |-> response[x].size]

(* A step of an exchange as its caller sees it: nothing, its beginning,    *)
(* the server's decision, its end, or no connection at all.                *)
SeesNothing(x) ==
  /\ Told(x)' = Told(x) /\ effect'[x] = effect[x]
  /\ response'[x].size = response[x].size /\ received'[x] = received[x]

SeesBegin(x) ==
  /\ Told(x) = "idle" /\ \A y \in 1..x-1 : Ended(y)
  /\ Told(x)' = "waiting" /\ effect'[x] = effect[x]
  /\ response'[x].size = response[x].size /\ received'[x] = received[x]

SeesDecision(x) ==
  /\ Told(x) # "idle" /\ effect[x] = "none"
  /\ \/ effect'[x] = "done" /\ response'[x].size \in Answer
     \/ effect'[x] = "refused" /\ response'[x].size = response[x].size
  /\ Told(x)' = Told(x) /\ received'[x] = received[x]

SeesEnd(x) ==
  /\ Told(x) = "waiting" /\ Told(x)' \in Ends
  /\ Told(x)' = "Success" => effect[x] = "done" /\ received'[x] = response[x].size
  /\ Told(x)' = "ServerError" => effect[x] = "refused"
  /\ received'[x] \in Answer
  /\ effect'[x] = effect[x] /\ response'[x].size = response[x].size

SeesNoConnection(x) ==
  /\ Told(x) = "idle" /\ \A y \in 1..x-1 : Ended(y)
  /\ Told(x)' = "GeneralError" /\ effect'[x] = "refused"
  /\ response'[x].size = response[x].size /\ received'[x] = received[x]

Sees(x) ==
  SeesNothing(x) \/ SeesBegin(x) \/ SeesDecision(x) \/ SeesEnd(x) \/ SeesNoConnection(x)

(* What a step of one exchange is to the outcome.                          *)
LEMMA StepIsSeen ==
  ASSUME TypeOK, NEW x \in Attempt, ExchangeInv(x), ExchangeInv(x)', Step(x)
  PROVE  Sees(x)
  <1> USE DEF TypeOK, clientSide, serverSide, Told, Talking, Sees
  <1>0. /\ client[x] = "idle" <=> server[x] = "none"
        /\ server[x] \in Early <=> effect[x] = "none"
        /\ effect[x] # "done" => response[x] = Nothing
    BY DEF ExchangeInv, Decision
  <1>a. /\ client[x] = "Success" => effect[x] = "done" /\ received[x] = response[x].size
        /\ client[x] = "ServerError" => effect[x] = "refused"
        /\ received[x] \in Answer
    BY DEF ExchangeInv, Report
  <1>b. /\ client'[x] = "Success" => effect'[x] = "done" /\ received'[x] = response'[x].size
        /\ client'[x] = "ServerError" => effect'[x] = "refused"
        /\ received'[x] \in Answer
    BY DEF ExchangeInv, Report
  <1>1. CASE Connect(x)
    <2> SeesBegin(x)
      BY <1>0, <1>1 DEF Connect, MayConnect, SeesBegin
    <2> QED
      OBVIOUS
  <1>2. CASE ConnectFails(x)
    <2> SeesNoConnection(x)
      BY <1>0, <1>2 DEF ConnectFails, MayConnect, SeesNoConnection
    <2> QED
      OBVIOUS
  <1>3. CASE Write(x)
    <2> SeesNothing(x)
      BY <1>3 DEF Write, SeesNothing
    <2> QED
      OBVIOUS
  <1>4. CASE ReadHeader(x)
    <2>1. CASE client'[x] = "payload"
      BY <1>4, <2>1 DEF ReadHeader, SeesNothing
    <2>2. CASE client'[x] = "GeneralError"
      BY <1>4, <1>b, <2>2 DEF ReadHeader, SeesEnd, Ends
    <2> QED
      BY <1>4, <2>1, <2>2 DEF ReadHeader
  <1>5. CASE ReadPayload(x)
    <2>1. client'[x] \in {"Success", "ServerError", "GeneralError"} /\ client[x] = "payload"
      BY <1>5 DEF ReadPayload
    <2>2. effect'[x] = effect[x] /\ response'[x] = response[x]
      BY <1>5 DEF ReadPayload
    <2> QED
      BY <1>b, <2>1, <2>2 DEF SeesEnd, Ends
  <1>6. CASE Throws(x)
    <2> SeesEnd(x)
      BY <1>6, <1>b DEF Throws, SeesEnd, Ends
    <2> QED
      OBVIOUS
  <1>7. CASE HandleDone(x)
    <2>1. effect'[x] = "done" /\ effect[x] = "none" /\ client[x] # "idle"
      BY <1>0, <1>7 DEF HandleDone, Early
    <2>2. response'[x].size \in Answer
      <3>1. PICK size \in request[x].answers :
              response' = [response EXCEPT ![x] = [failure |-> FALSE, size |-> size]]
        BY <1>7 DEF HandleDone, Respond
      <3>2. size \in Answer
        BY RequestSizes
      <3>3. response'[x].size = size
        BY <3>1
      <3> QED
        BY <3>2, <3>3
    <2>3. client' = client /\ received' = received
      BY <1>7 DEF HandleDone
    <2> QED
      BY <2>1, <2>2, <2>3 DEF SeesDecision
  <1>8. CASE HandleRefused(x)
    <2> SeesDecision(x)
      BY <1>0, <1>8 DEF HandleRefused, Respond, SeesDecision, Early, Nothing
    <2> QED
      OBVIOUS
  <1>9. CASE Send(x)
    BY <1>9 DEF Send, SeesNothing
  <1>10. CASE Raise(x)
    <2>1. CASE effect[x] = "none"
      <3>1. effect'[x] = "refused" /\ client[x] # "idle"
        BY <1>0, <1>10, <2>1 DEF Raise
      <3>2. UNCHANGED <<client, received, response>>
        BY <1>10 DEF Raise
      <3> QED
        BY <2>1, <3>1, <3>2 DEF SeesDecision
    <2>2. CASE effect[x] # "none"
      BY <1>10, <2>2 DEF Raise, SeesNothing
    <2> QED
      BY <2>1, <2>2
  <1>11. CASE Close(x)
    BY <1>11 DEF Close, SeesNothing
  <1>12. CASE Kill(x)
    BY <1>12, <1>b DEF Kill, SeesEnd, Ends
  <1>13. CASE Break(x)
    BY <1>13 DEF Break, SeesNothing
  <1>14. ASSUME NEW n, NEW next, Recv(x, n, next), server[x] \in {"header", "payload"}
         PROVE  Sees(x)
    <2>1. UNCHANGED <<client, received, response>>
      BY <1>14 DEF Recv
    <2>2. CASE effect' = effect
      BY <2>1, <2>2 DEF SeesNothing
    <2>3. CASE effect' = [effect EXCEPT ![x] = "refused"]
      <3>1. effect[x] = "none" /\ client[x] # "idle" /\ effect'[x] = "refused"
        BY <1>0, <1>14, <2>3 DEF Early
      <3> QED
        BY <2>1, <3>1 DEF SeesDecision
    <2> QED
      BY <1>14, <2>2, <2>3 DEF Recv
  <1>15. CASE RecvHeader(x) \/ RecvPayload(x)
    BY <1>14, <1>15 DEF RecvHeader, RecvPayload
  <1> QED
    BY <1>1, <1>2, <1>3, <1>4, <1>5, <1>6, <1>7, <1>8, <1>9, <1>10, <1>11, <1>12, <1>13,
       <1>15 DEF Step, ClientStep, ThreadStep

(* A step of one exchange changes its outcome only.                        *)
LEMMA OutcomeAt ==
  ASSUME TypeOK, TypeOK', NEW x \in Attempt, Others(x)
  PROVE  /\ outcome' = [outcome EXCEPT ![x] = Told(x)']
         /\ answer' = [answer EXCEPT ![x] = response'[x].size]
         /\ effect' = [effect EXCEPT ![x] = effect'[x]]
         /\ received' = [received EXCEPT ![x] = received'[x]]
         /\ outcome[x] = Told(x) /\ answer[x] = response[x].size
  <1>1. \A y \in Attempt \ {x} : Told(y)' = Told(y)
    BY DEF Others, Untouched, Told
  <1>2. outcome' = [outcome EXCEPT ![x] = Told(x)']
    BY <1>1 DEF outcome
  <1>3. answer' = [answer EXCEPT ![x] = response'[x].size]
    BY DEF Others, Untouched, answer
  <1>4. effect' = [effect EXCEPT ![x] = effect'[x]]
    BY DEF Others, Untouched, TypeOK
  <1>5. received' = [received EXCEPT ![x] = received'[x]]
    BY DEF Others, Untouched, TypeOK
  <1> QED
    BY <1>2, <1>3, <1>4, <1>5 DEF outcome, answer

(* Every step is one of the outcome, or none.                              *)
LEMMA OutcomeStep ==
  ASSUME CInv, CInv', [Next]_vars
  PROVE  [Outcome!Next]_(Outcome!vars)
  <1> USE DEF CInv
  <1>1. ASSUME outcome' = outcome, effect' = effect, answer' = answer, received' = received
        PROVE  UNCHANGED Outcome!vars
    BY <1>1 DEF Outcome!vars, outcome, answer, Told
  <1>2. CASE Accept \/ UNCHANGED vars
    <2>1. UNCHANGED <<client, response, effect, received>>
      BY <1>2 DEF Accept, vars, clientSide
    <2> QED
      BY <1>1, <2>1 DEF outcome, answer, Told
  <1>3. ASSUME NEW x \in Attempt, Step(x)
        PROVE  [Outcome!Next]_(Outcome!vars)
    <2>1. Others(x)
      BY <1>3, OthersUntouched
    <2>2. Sees(x)
      BY <1>3, StepIsSeen
    <2>3. /\ outcome' = [outcome EXCEPT ![x] = Told(x)']
          /\ answer' = [answer EXCEPT ![x] = response'[x].size]
          /\ effect' = [effect EXCEPT ![x] = effect'[x]]
          /\ received' = [received EXCEPT ![x] = received'[x]]
          /\ outcome[x] = Told(x) /\ answer[x] = response[x].size
      BY <2>1, OutcomeAt
    <2>4. /\ outcome = [y \in Attempt |-> IF client[y] \in Talking THEN "waiting" ELSE client[y]]
          /\ answer = [y \in Attempt |-> response[y].size]
      BY DEF outcome, answer, Told
    <2>6. \A y \in 1..x-1 : y \in Attempt /\ (Ended(y) => outcome[y] \in Ends)
      <3> SUFFICES ASSUME NEW y \in 1..x-1 PROVE y \in Attempt /\ (Ended(y) => outcome[y] \in Ends)
        OBVIOUS
      <3>1. y \in Attempt
        BY ConstantsAssumption DEF Attempt
      <3>2. Ended(y) => outcome[y] = client[y]
        BY <3>1 DEF outcome, Told, Ended, Ends, Talking
      <3> QED
        BY <3>1, <3>2 DEF Ended
    <2>7. CASE SeesNothing(x)
      <3>1. outcome' = outcome
        BY <2>3, <2>7 DEF SeesNothing, outcome
      <3>2. answer' = answer
        BY <2>3, <2>7 DEF SeesNothing, answer
      <3>3. effect' = effect /\ received' = received
        BY <2>3, <2>7 DEF SeesNothing, TypeOK
      <3> QED
        BY <1>1, <3>1, <3>2, <3>3
    <2>8. CASE SeesBegin(x)
      <3>1. outcome[x] = "idle" /\ \A y \in Attempt : y < x => outcome[y] \in Outcome!Ends
        BY <2>3, <2>6, <2>8 DEF SeesBegin, Attempt, Outcome!Ends, Ends
      <3>2. outcome' = [outcome EXCEPT ![x] = "waiting"]
        BY <2>3, <2>8 DEF SeesBegin
      <3>3. answer' = answer
        BY <2>3, <2>8 DEF SeesBegin, answer
      <3>4. effect' = effect /\ received' = received
        BY <2>3, <2>8 DEF SeesBegin, TypeOK
      <3>5. Outcome!Begin(x)
        BY <3>1, <3>2, <3>3, <3>4 DEF Outcome!Begin, outcome, answer, Told
      <3> QED
        BY <3>5 DEF Outcome!Next
    <2>9. CASE SeesDecision(x)
      <3>1. outcome[x] # "idle" /\ effect[x] = "none"
        BY <2>3, <2>9 DEF SeesDecision
      <3>2. outcome' = outcome
        BY <2>3, <2>9 DEF SeesDecision, outcome
      <3>3. received' = received
        BY <2>3, <2>9 DEF SeesDecision, TypeOK
      <3>4. CASE effect'[x] = "done" /\ response'[x].size \in Answer
        <4>1. /\ effect' = [effect EXCEPT ![x] = "done"]
              /\ \E a \in Answer : answer' = [answer EXCEPT ![x] = a]
          BY <2>3, <3>4
        <4>2. Outcome!Do(x)
          BY <3>1, <3>2, <3>3, <4>1 DEF Outcome!Do, outcome, answer, Told
        <4> QED
          BY <4>2 DEF Outcome!Next
      <3>5. CASE effect'[x] = "refused" /\ response'[x].size = response[x].size
        <4>1. effect' = [effect EXCEPT ![x] = "refused"]
          BY <2>3, <3>5
        <4>2. answer' = answer
          BY <2>3, <3>5 DEF answer
        <4>3. Outcome!Refuse(x)
          BY <3>1, <3>2, <3>3, <4>1, <4>2 DEF Outcome!Refuse, outcome, answer, Told
        <4> QED
          BY <4>3 DEF Outcome!Next
      <3> QED
        BY <2>9, <3>4, <3>5 DEF SeesDecision
    <2>10. CASE SeesEnd(x)
      <3>1. PICK end \in Outcome!Ends : end = Told(x)'
        BY <2>10 DEF SeesEnd, Ends, Outcome!Ends
      <3>2. /\ outcome[x] = "waiting"
            /\ end = "Success" => effect[x] = "done" /\ received'[x] = answer[x]
            /\ end = "ServerError" => effect[x] = "refused"
        BY <2>3, <2>10, <3>1 DEF SeesEnd
      <3>3. outcome' = [outcome EXCEPT ![x] = end]
        BY <2>3, <3>1
      <3>4. \E a \in Answer : received' = [received EXCEPT ![x] = a]
        BY <2>3, <2>10 DEF SeesEnd
      <3>5. effect' = effect
        BY <2>3, <2>10 DEF SeesEnd, TypeOK
      <3>6. answer' = answer
        BY <2>3, <2>10 DEF SeesEnd, answer
      <3>7. Outcome!End(x)
        BY <3>2, <3>3, <3>4, <3>5, <3>6 DEF Outcome!End, outcome, answer, Told
      <3> QED
        BY <3>7 DEF Outcome!Next
    <2>11. CASE SeesNoConnection(x)
      <3>1. outcome[x] = "idle" /\ \A y \in Attempt : y < x => outcome[y] \in Outcome!Ends
        BY <2>3, <2>6, <2>11 DEF SeesNoConnection, Attempt, Outcome!Ends, Ends
      <3>2. /\ outcome' = [outcome EXCEPT ![x] = "GeneralError"]
            /\ effect' = [effect EXCEPT ![x] = "refused"]
        BY <2>3, <2>11 DEF SeesNoConnection
      <3>3. answer' = answer
        BY <2>3, <2>11 DEF SeesNoConnection, answer
      <3>4. received' = received
        BY <2>3, <2>11 DEF SeesNoConnection, TypeOK
      <3>5. Outcome!NotConnected(x)
        BY <3>1, <3>2, <3>3, <3>4 DEF Outcome!NotConnected, outcome, answer, Told
      <3> QED
        BY <3>5 DEF Outcome!Next
    <2> QED
      BY <2>2, <2>7, <2>8, <2>9, <2>10, <2>11 DEF Sees
  <1> QED
    BY <1>2, <1>3 DEF Next, Step

(* Connection starts as the outcome does.                                  *)
LEMMA OutcomeInit == Init => Outcome!Init
  <1> SUFFICES ASSUME Init PROVE Outcome!Init
    OBVIOUS
  <1>1. 0 \in Answer
    BY DEF Answer
  <1>2. /\ client = [x \in Attempt |-> "idle"] /\ effect = [x \in Attempt |-> "none"]
        /\ response = [x \in Attempt |-> [failure |-> TRUE, size |-> 0]]
        /\ received = [x \in Attempt |-> 0]
    BY DEF Init
  <1> QED
    BY <1>1, <1>2 DEF Outcome!Init, Talking

(* What Client::Exchange tells its caller is true of what handle_client    *)
(* did: a request takes effect at most once, Success hands over the answer *)
(* that was given, a server error is reported of refused requests only.    *)
THEOREM OutcomeImplemented == Spec => ImplementsOutcome
  <1>1. CInv /\ CInv' /\ [Next]_vars => [Outcome!Next]_(Outcome!vars)
    BY OutcomeStep
  <1> QED
    BY <1>1, OutcomeInit, CInvariance, PTL DEF Spec, ImplementsOutcome, Outcome!Spec
=============================================================================
