-------------------------- MODULE MCChangeTracking --------------------------
(* Things of three kinds, of different sizes, for TLC. *)
EXTENDS ChangeTracking

Sizes == [t \in Things |-> IF t \in Rels THEN 2 ELSE 3]
Rev(time, logical) == [time |-> time, logical |-> logical]
SomeDecimals == {Rev(1, 0), Rev(1, 2), Rev(2, 0)}
SomeBounds == SomeDecimals \cup {Rev(2, 1)}
SomeContents == {{"relationships", "schema"}, {"relationships"}, {"schema"}}
=============================================================================
