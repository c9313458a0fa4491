---------------------------- MODULE MCConnection ----------------------------
(***************************************************************************)
(* A small instance of Connection for TLC.                                 *)
(***************************************************************************)
EXTENDS Connection

(* A request without a payload, whose answer may be empty or of some size  *)
(* (a list, a fetch), and one with a payload and an answer of constant     *)
(* size.                                                                   *)
SmallRequests ==
  {[payload |-> 0, answers |-> {0, 2}, accepts |-> 0..2],
   [payload |-> 2, answers |-> {1}, accepts |-> {1}]}
=============================================================================
