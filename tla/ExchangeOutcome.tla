-------------------------- MODULE ExchangeOutcome ---------------------------
(***************************************************************************)
(* What Client::Exchange promises its caller about a request, whatever the *)
(* connection does.  A request takes effect at most once, or is refused    *)
(* for good.  Success hands over the server's own answer; a server error   *)
(* is reported of a refused request only.  Every other end tells nothing:  *)
(* the request may have taken effect, may yet, or never will.              *)
(***************************************************************************)
EXTENDS Naturals

CONSTANTS
  Attempt,     \* exchanges of one client, numbered in the order it makes them
  Answer       \* what the server may answer

Ends == {"Success", "ServerError", "GeneralError", "killed"}

VARIABLES
  outcome,     \* what the caller knows: idle, waiting, or one of Ends
  effect,      \* at the server: none (yet), done or refused
  answer,      \* what the server answered, if done
  received     \* what the caller was handed, if Success

vars == <<outcome, effect, answer, received>>

Init ==
  /\ outcome = [x \in Attempt |-> "idle"]
  /\ effect = [x \in Attempt |-> "none"]
  /\ answer \in [Attempt -> Answer]
  /\ received \in [Attempt -> Answer]

(* The client makes one exchange at a time.                                *)
Begin(x) ==
  /\ outcome[x] = "idle"
  /\ \A y \in Attempt : y < x => outcome[y] \in Ends
  /\ outcome' = [outcome EXCEPT ![x] = "waiting"]
  /\ UNCHANGED <<effect, answer, received>>

Do(x) ==
  /\ outcome[x] # "idle" /\ effect[x] = "none"
  /\ effect' = [effect EXCEPT ![x] = "done"]
  /\ \E a \in Answer : answer' = [answer EXCEPT ![x] = a]
  /\ UNCHANGED <<outcome, received>>

Refuse(x) ==
  /\ outcome[x] # "idle" /\ effect[x] = "none"
  /\ effect' = [effect EXCEPT ![x] = "refused"]
  /\ UNCHANGED <<outcome, answer, received>>

End(x) ==
  /\ outcome[x] = "waiting"
  /\ \E end \in Ends :
       /\ end = "Success" => effect[x] = "done" /\ received'[x] = answer[x]
       /\ end = "ServerError" => effect[x] = "refused"
       /\ outcome' = [outcome EXCEPT ![x] = end]
  /\ \E a \in Answer : received' = [received EXCEPT ![x] = a]
  /\ UNCHANGED <<effect, answer>>

(* A connection that is refused ends the exchange as it begins.            *)
NotConnected(x) ==
  /\ outcome[x] = "idle"
  /\ \A y \in Attempt : y < x => outcome[y] \in Ends
  /\ outcome' = [outcome EXCEPT ![x] = "GeneralError"]
  /\ effect' = [effect EXCEPT ![x] = "refused"]
  /\ UNCHANGED <<answer, received>>

Next ==
  \E x \in Attempt : Begin(x) \/ Do(x) \/ Refuse(x) \/ End(x) \/ NotConnected(x)

Spec == Init /\ [][Next]_vars
=============================================================================
