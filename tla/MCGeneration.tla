----------------------------- MODULE MCGeneration -----------------------------
(* TLC instances of Generation. *)
EXTENDS Generation

CONSTANTS c1, c2

Plain == [engine |-> "cosmos", callers |-> {c1, c2}, guardrail |-> FALSE, compile |-> FALSE,
          ceiling |-> 1, native |-> TRUE, mode |-> "none", skipEvery |-> 0, warmup |-> 0,
          threshold |-> 2, floor |-> 0, steps |-> 2]

\* Two callers on short loops.
Shared == {[Plain EXCEPT !.guardrail = g, !.compile = k] : g, k \in BOOLEAN}
          \cup {[Plain EXCEPT !.engine = "wan", !.compile = TRUE, !.native = FALSE],
                [Plain EXCEPT !.engine = "stub"]}

\* One caller on a longer loop, every mode of step caching at its boundaries.
Cached ==
    LET Long == [Plain EXCEPT !.callers = {c1}, !.steps = 7] IN
    {[Long EXCEPT !.mode = m, !.skipEvery = n, !.warmup = w] :
        m \in {"none", "fixed"}, n \in 0 .. 3, w \in 0 .. 2}
    \cup {[Long EXCEPT !.mode = "adaptive", !.floor = n, !.warmup = w] : n \in 0 .. 3, w \in 0 .. 2}
    \cup {[Long EXCEPT !.native = FALSE, !.skipEvery = 2]}

MCConfigs == Shared \cup Cached
=============================================================================
