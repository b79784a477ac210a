---------------------------- MODULE MCLatentCache -----------------------------
(***************************************************************************)
(* TLC instances of LatentCache.                                           *)
(***************************************************************************)
EXTENDS LatentCache, TLC

Symmetry == Permutations(Requests)

\* A window of frames around zero and two diffusion steps.
WindowFrames == -1 .. 1
TwoSteps == 0 .. 1
=============================================================================
