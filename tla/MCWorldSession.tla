---------------------------- MODULE MCWorldSession ----------------------------
(***************************************************************************)
(* TLC instances of WorldSession.                                          *)
(***************************************************************************)
EXTENDS WorldSession
=============================================================================
