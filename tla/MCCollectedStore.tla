-------------------------- MODULE MCCollectedStore --------------------------
(* A value of two full chunks and an empty one, for TLC. *)
EXTENDS CollectedStore

SomeValues == {<<1, 2, 3, 4>>, <<>>}
=============================================================================
