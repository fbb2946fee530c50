--------------------------- MODULE MCRevisionCache ---------------------------
(* Interchangeable callers, for TLC. *)
EXTENDS RevisionCache, TLC

Symmetric == Permutations(Callers)
=============================================================================
