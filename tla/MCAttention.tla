---------------------------- MODULE MCAttention -----------------------------
(* A TLC instance of Attention. *)
EXTENDS Attention

CONSTANTS p1, p2

\* Problems: a plain one of each length, and one feature changed at a time.
Q(s) == [Sq |-> s, Skv |-> s, D |-> 64, dtype |-> "bf16", batch |-> 1, heads |-> 1, kind |-> "full",
         device |-> "cuda", causal |-> FALSE, scale |-> NoScale, mask |-> FALSE, dropout |-> FALSE,
         gqa |-> FALSE, lse |-> FALSE, parallel |-> FALSE,
         data |-> "plain", score |-> [c \in 0 .. s - 1 |-> (2 * c) % 3]]
Causal(q) == [q EXCEPT !.causal = TRUE, !.kind = "causal"]
MCProblems ==
    {Q(2), Q(3), Q(5), Causal(Q(4)), Causal(Q(5)), [Q(3) EXCEPT !.mask = TRUE],
     [Causal(Q(3)) EXCEPT !.mask = TRUE], [Q(3) EXCEPT !.kind = "neighborhood"],
     [Q(4) EXCEPT !.kind = "neighborhood", !.dtype = "fp16"],
     [Q(3) EXCEPT !.dropout = TRUE], [Q(3) EXCEPT !.gqa = TRUE], [Q(3) EXCEPT !.lse = TRUE],
     [Q(3) EXCEPT !.parallel = TRUE], [Q(3) EXCEPT !.data = "nonfinite"],
     [Q(3) EXCEPT !.data = "unstable"], [Q(4) EXCEPT !.data = "unstable"],
     [Q(3) EXCEPT !.data = "zeros", !.D = 80], [Q(4) EXCEPT !.Sq = 3, !.dtype = "fp16"],
     [Causal(Q(4)) EXCEPT !.Sq = 2], [Causal(Q(2)) EXCEPT !.Sq = 4],
     [Q(4) EXCEPT !.scale = 2, !.score = [c \in 0 .. 3 |-> c % 2]],
     [Causal(Q(3)) EXCEPT !.scale = 0],
     [Q(4) EXCEPT !.dtype = "fp32"], [Q(4) EXCEPT !.dtype = "fp8_e4m3"],
     [Q(4) EXCEPT !.heads = 2, !.D = 128, !.dtype = "fp16"]}
OnCpu == {[q EXCEPT !.device = "cpu"] : q \in MCProblems}
\* Two shapes, tuned by whoever comes first.
TunedProblems == {Q(3), Causal(Q(5))}

\* Hosts.  The ones whose FP8 kernel tunes run two processes, the others one.
Base == [torch |-> "cuda", arch |-> "sm90a", has |-> {"triton", "best_config"}, fp8 |-> "", amx |-> "",
         rejects |-> {}, faulty |-> FALSE, prefer |-> "any", notune |-> FALSE, procs |-> {p1},
         problems |-> MCProblems \cup {[Q(3) EXCEPT !.device = "cpu"]},
         routes |-> {"backend", "ada", "dispatcher", "wan"}]
Rocm == [Base EXCEPT !.torch = "rocm", !.arch = "gfx942"]
Cpu == [Base EXCEPT !.torch = "cpu", !.arch = "spr", !.problems = OnCpu]
Tuning ==
    LET one == [Rocm EXCEPT !.fp8 = "1", !.problems = TunedProblems, !.routes = {"backend"}]
    IN {[one EXCEPT !.procs = {p1, p2}], [one EXCEPT !.faulty = TRUE]}
Gpu ==
    {[Base EXCEPT !.fp8 = e] : e \in {"", "1", "fa", "scaled_mm"}}
    \cup {[Base EXCEPT !.has = {"triton", "te", "fa3"}, !.fp8 = e, !.rejects = r] :
            e \in {"", "te", "triton"},
            r \in {{}, {<<"transformer-engine-fp8", "fp8_e4m3", 64>>, <<"sdpa", "fp8_e4m3", 64>>}}}
    \cup {[Base EXCEPT !.has = {"flash_attn", "wan_processor", "triton"}, !.fp8 = e, !.notune = TRUE] :
            e \in {"", "on", "flash"}}
    \cup {[Rocm EXCEPT !.fp8 = "scaled_mm", !.has = f] :
            f \in {{"scaled_mm"}, {"grouped_mm", "scaled_mm", "flash_attn"}}}
    \cup {[Base EXCEPT !.arch = "sm86", !.fp8 = "1", !.has = {"triton", "flash_attn"}],
          [Base EXCEPT !.arch = "sm89"], [Base EXCEPT !.prefer = "rocm"],
          [Base EXCEPT !.prefer = "cpu", !.amx = "amx", !.has = {"amx_bf16", "amx_native"}]}
Intel ==
    {[Cpu EXCEPT !.amx = a, !.has = {"amx_bf16", "amx_int8", "amx_native"}] : a \in {"", "amx", "int8"}}
    \cup {[Cpu EXCEPT !.amx = a, !.has = {"amx_bf16", "amx_fp16", "amx_native", "ipex"}] :
            a \in {"1", "fp16", "ipex"}}
    \cup {[Cpu EXCEPT !.amx = "on", !.has = {}], [Cpu EXCEPT !.amx = "ipex", !.has = {"ipex"}],
          [Cpu EXCEPT !.torch = "none"], [Cpu EXCEPT !.fp8 = "1", !.has = {"triton"}]}
MCHosts == Tuning \cup Gpu \cup Intel

MCFastest == {Config(<<1, 2>>, 8, 2), Config(<<2, 4>>, 8, 2)}
=============================================================================
