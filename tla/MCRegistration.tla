--------------------------- MODULE MCRegistration ---------------------------
(***************************************************************************)
(* Small instances of Registration for TLC.                                *)
(***************************************************************************)
EXTENDS Registration, TLC

Symmetric ==
  Permutations(Client) \cup Permutations(Name) \cup Permutations(UUID) \cup Permutations(Key)
=============================================================================
