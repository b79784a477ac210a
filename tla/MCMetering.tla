------------------------------ MODULE MCMetering ------------------------------
(***************************************************************************)
(* TLC instance of Metering.                                               *)
(***************************************************************************)
EXTENDS Metering
=============================================================================
