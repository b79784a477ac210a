------------------------------ MODULE MCServing -------------------------------
(***************************************************************************)
(* TLC instances of Serving.                                               *)
(***************************************************************************)
EXTENDS Serving, TLC

\* Requests are interchangeable, and so are coroutine names, where no liveness
\* is checked.
Symmetry == Permutations(Ids) \cup Permutations(Tasks)
=============================================================================
