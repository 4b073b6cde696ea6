--------------------------- MODULE MCSyncSession ---------------------------
(* SyncSession with two sources; the mappings are interchangeable.         *)
EXTENDS SyncSession, TLC

Symmetry == Permutations(Maps)
=============================================================================
