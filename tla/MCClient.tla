------------------------------ MODULE MCClient ------------------------------
(***************************************************************************)
(* Small instances of Client for TLC.                                      *)
(***************************************************************************)
EXTENDS Client, TLC

CONSTANTS c1, c2, c3, name1, name2

(* Two of the three users have one name.                                   *)
SharedName == [c \in Client |-> IF c = c3 THEN name2 ELSE name1]

OwnName == [c \in Client |-> IF c = c1 THEN name1 ELSE name2]

AnyGiver == Client \X Client
ThirdGives == {<<c3, c1>>, <<c3, c2>>}

RunsOnce == [c \in Client |-> 1]
FirstRestarts == [c \in Client |-> IF c = c1 THEN 2 ELSE 1]

(* Every client has registered and listed the others.                      *)
Acquainted ==
  /\ users = <<c1, c2>>
  /\ inbox = [c \in Client |-> <<>>]
  /\ late = {}
  /\ lost = FALSE
  /\ run = [c \in Client |-> 1]
  /\ batch = [c \in Client |-> <<>>]
  /\ status = [c \in Client |-> "menu"]
  /\ friends = [c \in Client |->
       [n \in {NameOf[u] : u \in Client \ {c}} |->
          NewFriend(CHOOSE u \in Client \ {c} : NameOf[u] = n)]]

AcquaintedSpec == Acquainted /\ [][Next]_vars

(* For SharedName and ThirdGives, which treat the two alike.               *)
Symmetric == Permutations({c1, c2})
=============================================================================
