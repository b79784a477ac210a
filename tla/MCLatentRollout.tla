--------------------------- MODULE MCLatentRollout ---------------------------
(* TLC instances of LatentRollout. *)
EXTENDS LatentRollout, TLC

CONSTANTS s1, a1, a2

\* The default configuration with a window of three frames.
Base == [context_frames |-> 3, reset_context_frames |-> 2, kv_evict_policy |-> "reinit",
         kv_sink_frames |-> 0, use_kv_cache |-> TRUE, plan_batched |-> TRUE,
         plan_batched_kv |-> TRUE, plan_warm_start |-> TRUE, supports_kv_cache |-> TRUE,
         supports_batch |-> TRUE, bfloat16 |-> FALSE]

MCConfigs ==
    {[Base EXCEPT !.kv_evict_policy = p, !.reset_context_frames = r, !.supports_batch = b] :
        p \in {"reinit", "slide"}, r \in {0, 1}, b \in BOOLEAN}
    \cup {[Base EXCEPT !.use_kv_cache = FALSE, !.plan_warm_start = FALSE],
          [Base EXCEPT !.kv_evict_policy = "slide", !.kv_sink_frames = 1],
          [Base EXCEPT !.context_frames = 1, !.kv_evict_policy = "slide", !.kv_sink_frames = 1],
          [Base EXCEPT !.plan_batched_kv = FALSE, !.bfloat16 = TRUE]}

Symmetry == Permutations({a1, a2})
=============================================================================
