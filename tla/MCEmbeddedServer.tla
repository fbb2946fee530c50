-------------------------- MODULE MCEmbeddedServer --------------------------
(* Small instances of EmbeddedServer for TLC. *)
EXTENDS EmbeddedServer

CONSTANTS f1, f2

OneFile == <<f1>>
TwoFiles == <<f1, f2>>
=============================================================================
