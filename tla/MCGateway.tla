------------------------------ MODULE MCGateway -------------------------------
(***************************************************************************)
(* TLC instances of Gateway.                                               *)
(***************************************************************************)
EXTENDS Gateway

\* Calls are interchangeable slots, and so are minted keys.
Symmetry == Permutations(Calls) \cup Permutations(Keys)
=============================================================================
