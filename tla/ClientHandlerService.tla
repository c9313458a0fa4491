------------------------ MODULE ClientHandlerService ------------------------
(***************************************************************************)
(* The threads of ClientHandler implement MessageService.  A registration  *)
(* takes effect in add_user, a list at the end of its walk, a key request  *)
(* when the key is read, a message when it is pushed, and a fetch when the *)
(* list is cleared.                                                        *)
(***************************************************************************)
EXTENDS ClientHandler

accounts ==
  [u \in registered |-> [name |-> users[u].name, public_key |-> users[u].public_key]]
inbox == [u \in registered |-> users[u].recv_messages]
closed == {t \in Thread : pc[t] \in Terminal}

said(t) ==
  [about |-> CASE resp[t] = RegisterRes              -> {uuid[t]}
               [] resp[t] \in {UserListRes, GetPKRes} -> nodes[t]
               [] OTHER                              -> {},
   mail  |-> IF resp[t] = GetMessagesRes THEN messages[t] ELSE <<>>]

Service == INSTANCE MessageService
  WITH call <- req, code <- resp, result <- [t \in Thread |-> said(t)]

(* Every connection's request takes effect at one instant, or has none,    *)
(* and is answered with what held at that instant.  Needs Uuid1Unique.     *)
ImplementsService == Service!Spec

(* The same of every step, from wherever a run starts.                     *)
ServiceSteps == [][Service!Next]_(Service!vars)
=============================================================================
