--------------------------- MODULE MCClientFiles ----------------------------
(***************************************************************************)
(* A small instance of ClientFiles for TLC: buffers of a few bytes, with   *)
(* everything that fits them and what just does not.                       *)
(***************************************************************************)
EXTENDS ClientFiles

Letters == {"a", "b"}

(* Words without whitespace, up to one more than the buffer holds, and     *)
(* nothing, which is what is read at the end of the input.                 *)
Words == SeqOf(Letters, NameBuffer + 1) \cup {<<"a", "1">>, <<"1">>}

Uuids == [1..UuidLength -> {0, 15, 171}]

Keys == {<<"K", NL, "k", NL>>, <<"K", NL, "l", NL>>}

Short == <<"1", ".", "1", ".", "1", ".", "1">>
Long == <<"1", "9", "2", ".", "1", "6", "8", ".", "1", "0", "0", ".", "2", "0", "0">>
Addresses == {Short, Long}

Ports ==
  {<<"1">>, <<"8", "0">>, <<"1", "2", "3", "4">>, <<"6", "5", "5", "3", "5">>,
   <<"6", "5", "5", "3", "6">>, <<"0">>, <<"-", "1">>, <<SPACE, "8", "0">>,
   <<SPACE>>, <<"8", "0", "x">>, <<"x">>, <<>>}

ServerInfos ==
  {ip \o <<":">> \o port \o tail : ip \in Addresses, port \in Ports, tail \in {<<>>, <<NL>>}}
    \cup {Short, Tail(Short) \o <<":", "8", "0">>}
=============================================================================
