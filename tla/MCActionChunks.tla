---------------------------- MODULE MCActionChunks ----------------------------
(* TLC instance of ActionChunks. *)
EXTENDS ActionChunks

CONSTANT s1
=============================================================================
