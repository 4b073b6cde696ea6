----------------------------- MODULE MCMediaLuid -----------------------------
(* Three LUIDs for two files: one file can be given two of them. *)
EXTENDS MediaLuid
=============================================================================
