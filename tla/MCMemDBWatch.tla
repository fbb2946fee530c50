--------------------------- MODULE MCMemDBWatch ---------------------------
(* Small instances of MemDBWatch for TLC. *)
EXTENDS MemDBWatch, TLC

CONSTANTS r1, d1

NamespaceOfOne == (r1 :> d1)
FineClock == {1, 2}
RelationshipsAndCheckpoints == {"relationships", "checkpoints"}
=============================================================================
