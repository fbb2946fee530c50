------------------------------ MODULE MCMemDB ------------------------------
(* Small instances of MemDB for TLC. *)
EXTENDS MemDB, TLC

CONSTANTS r1, r2, d1

NamespaceOfNone == [r \in {} |-> d1]
NamespaceOfOne == (r1 :> d1)
FineClock == {1}
CoarseClock == {0, 1}
=============================================================================
