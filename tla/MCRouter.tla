------------------------------- MODULE MCRouter -------------------------------
(***************************************************************************)
(* TLC instances of Router.                                                *)
(***************************************************************************)
EXTENDS Router, TLC

\* Threads are interchangeable, and so are ids, where no liveness is checked.
Symmetry == Permutations(Threads) \cup Permutations(Ids)
=============================================================================
