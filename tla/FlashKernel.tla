----------------------------- MODULE FlashKernel -----------------------------
(***************************************************************************)
(* The attention kernels the repository owns: the fused FP8 kernels of     *)
(* kernels/triton_kernels (the tile loop with its online softmax, the      *)
(* autotuning grids, the launch grid of fp8_flash_attention), the AMX      *)
(* kernels of kernels/cpu, and the unfused FP8 op.  The three Triton files *)
(* (gfx942, Hopper, Ada) repeat one body; they differ in the FP8 type and  *)
(* in their grids.                                                         *)
(*                                                                         *)
(* Lengths and tile sides are scaled down (64 tokens to one for Triton).   *)
(* A key's score is a small number, the product q.k with the default scale *)
(* 1/sqrt(D) in it; a scale that is given multiplies it.  exp is a power   *)
(* of two, and a softmax weight is counted in units of 2^-MaxScore, so     *)
(* that every rescaling is exact.  The accumulator is kept per key: acc[c] *)
(* is the weight with which V[c] has entered it.  Rounding is left out.    *)
(***************************************************************************)
EXTENDS Integers, FiniteSets, FiniteSetsExt

CONSTANT MaxScore

ASSUME KernelAssumption == MaxScore \in Nat

NegInf == -1
NoScale == -1   \* scale=None
Rows(q) == 0 .. q.Sq - 1
Keys(q) == 0 .. q.Skv - 1
Cdiv(a, b) == (a + b - 1) \div b

\* The scale of the scores; None stands for 1/sqrt(D).
sm_scale(q) == IF q.scale = NoScale THEN 1 ELSE q.scale
Scaled(q, c) == q.score[c] * sm_scale(q)

\* A problem: its shape and kind, the device of its tensors, what is asked of
\* the call, whether the tensors are finite and stay so in FP8, and the score
\* of each key.  A caller asks for causal attention with kind and flag alike.
IsProblem(q) ==
    /\ q \in [Sq : Nat \ {0}, Skv : Nat \ {0}, D : Nat, dtype : STRING, batch : Nat, heads : Nat,
              kind : {"full", "causal", "neighborhood"}, device : {"cuda", "cpu"},
              causal : BOOLEAN, scale : Nat \cup {NoScale},
              mask : BOOLEAN, dropout : BOOLEAN, gqa : BOOLEAN, lse : BOOLEAN,
              parallel : BOOLEAN, data : {"plain", "zeros", "unstable", "nonfinite"},
              score : {q.score}]
    /\ q.causal <=> q.kind = "causal"
    /\ DOMAIN q.score = Keys(q) /\ \A c \in Keys(q) : Scaled(q, c) \in 0 .. MaxScore

\* tl.exp(x - m), the rescaling of what was summed under an older maximum, and
\* a row's sum of weights.
Power[n \in 0 .. MaxScore] == IF n = 0 THEN 1 ELSE 2 * Power[n - 1]
Exp(x, m) == IF x = NegInf THEN 0 ELSE Power[MaxScore + x - m]
Rescale(sum, old, new) == IF old = NegInf THEN 0 ELSE sum \div Power[new - old]
Total(w) == MapThenSumSet(LAMBDA c : w[c], DOMAIN w)

(***************************************************************************)
(* The softmax the caller asked for: row r attends the keys its kind, its  *)
(* mask and the causal mask leave, with weights relative to the largest    *)
(* score.  The causal mask is that of the reference, torch SDPA: row r     *)
(* sees the keys up to r, whatever the lengths.                            *)
(***************************************************************************)
SoftmaxOver(q, attended) ==
    LET m == Max({Scaled(q, c) : c \in attended})
        w == [c \in Keys(q) |-> IF c \in attended THEN Exp(Scaled(q, c), m) ELSE 0]
    IN [acc |-> w, l |-> Total(w), nan |-> FALSE]
Attended(q, r) ==
    {c \in Keys(q) : /\ q.causal => c <= r
                     /\ q.mask => c # 0
                     /\ q.kind = "neighborhood" => c - r \in -1 .. 1}
Softmax(q, r) == SoftmaxOver(q, Attended(q, r))

(***************************************************************************)
(* One tile of the inner loop.  Keys past Skv are loaded as zeros, so      *)
(* their score would be 0 if the mask did not exclude them.  A row that    *)
(* has met no key yet computes exp(-inf - -inf), which is NaN.             *)
(***************************************************************************)
\* qk after the causal mask and the mask of the partial last tile.
QKUnmaskedTail(q, r, c) ==
    IF q.causal /\ r < c THEN NegInf ELSE IF c >= q.Skv THEN 0 ELSE Scaled(q, c)
QK(q, r, c) == IF (q.causal /\ r < c) \/ c >= q.Skv THEN NegInf ELSE Scaled(q, c)

OnlineSoftmax(q, r, row, tile) ==
    LET m_new == Max({row.m} \cup {QK(q, r, c) : c \in tile})
        p == [c \in tile |-> Exp(QK(q, r, c), m_new)]
    IN  [m |-> m_new, nan |-> row.nan \/ m_new = NegInf,
         l |-> Rescale(row.l, row.m, m_new) + Total(p),
         acc |-> [c \in Keys(q) |-> Rescale(row.acc[c], row.m, m_new)
                                    + (IF c \in tile THEN p[c] ELSE 0)]]

\* Row r after the first tiles K/V tiles.
Looped(q, r, size, tiles) ==
    LET after[n \in 0 .. tiles] ==
            IF n = 0 THEN [m |-> NegInf, nan |-> FALSE, l |-> 0, acc |-> [c \in Keys(q) |-> 0]]
            ELSE OnlineSoftmax(q, r, after[n - 1], (n - 1) * size .. n * size - 1)
        last == after[tiles]
    IN [acc |-> last.acc, l |-> last.l, nan |-> last.nan]

\* The program of Q tile pid stores its rows below Sq.
_fp8_flash_attn_fwd_impl(q, pid, cfg) ==
    [r \in pid * cfg.BLOCK_M .. (pid + 1) * cfg.BLOCK_M - 1 \cap Rows(q) |->
        Looped(q, r, cfg.BLOCK_N, Cdiv(q.Skv, cfg.BLOCK_N))]
hopper_fwd_impl(q, pid, cfg) == _fp8_flash_attn_fwd_impl(q, pid, cfg)
ada_fwd_impl(q, pid, cfg) == _fp8_flash_attn_fwd_impl(q, pid, cfg)

(***************************************************************************)
(* The configurations the autotuner times, tile areas in units of 64 * 64. *)
(* The AMD backend knobs (off by default) change no tile and are left out. *)
(***************************************************************************)
TileShapes == {<<1, 1>>, <<1, 2>>, <<2, 1>>, <<2, 2>>, <<2, 4>>, <<4, 1>>, <<4, 2>>, <<4, 4>>}
Config(t, nw, ns) ==
    [BLOCK_M |-> t[1], BLOCK_N |-> t[2], num_warps |-> nw, num_stages |-> ns]
Area(c) == c.BLOCK_M * c.BLOCK_N

gfx942_configs ==
    {c \in {Config(t, nw, 2) : t \in TileShapes, nw \in {4, 8}} : c.num_warps = 8 => Area(c) >= 2}
    \cup {Config(t, nw, 3) : t \in {<<2, 1>>, <<4, 2>>}, nw \in {4, 8}}
hopper_configs ==
    {c \in {Config(t, nw, ns) : t \in TileShapes, nw \in {4, 8}, ns \in 2 .. 5} :
        /\ c.num_warps = 4 => Area(c) = 1
        /\ c.num_warps = 8 => Area(c) >= 2
        /\ c.num_stages = 5 => Area(c) <= 12}
ada_configs ==
    {c \in {Config(t, nw, ns) : t \in TileShapes \ {<<4, 4>>}, nw \in {4, 8}, ns \in {2, 3}} :
        c.num_warps = 8 => Area(c) >= 2}

gfx942_fallback == Config(<<2, 1>>, 4, 2)
hopper_fallback == Config(<<2, 2>>, 8, 3)
ada_fallback == Config(<<2, 1>>, 4, 2)

(***************************************************************************)
(* Quantization: one scale per head from the largest magnitude, floored    *)
(* so that an all-zero head divides by something.  A NaN or Inf spreads.   *)
(***************************************************************************)
_per_bh_scale(data) ==
    CASE data \in {"plain", "unstable"} -> "amax" [] data = "zeros" -> "floor" [] OTHER -> "nonfinite"
_quantize(data) == _per_bh_scale(data) # "nonfinite"
hopper_quantize(data) == _per_bh_scale(data) # "nonfinite"
ada_quantize(data) == _per_bh_scale(data) # "nonfinite"

\* A launch: cdiv(Sq, BLOCK_M) programs write the rows; a row no program
\* stores keeps what torch.empty left there.
Unwritten == [acc |-> <<>>, l |-> 0, nan |-> FALSE]
Launched(Fwd(_, _, _), q, cfg) ==
    [r \in Rows(q) |->
        IF r \div cfg.BLOCK_M < Cdiv(q.Sq, cfg.BLOCK_M)
        THEN Fwd(q, r \div cfg.BLOCK_M, cfg)[r] ELSE Unwritten]

\* fp8_flash_attention of each file: quantize, launch, cast back.  On
\* "unstable" data the FP8 numerics go non-finite although the inputs are finite.
Output(rows, quantized, q) ==
    [rows |-> rows, dropout |-> FALSE, gqa |-> FALSE, finite |-> quantized /\ q.data # "unstable"]
fp8_flash_attention(q, cfg) == Output(Launched(_fp8_flash_attn_fwd_impl, q, cfg), _quantize(q.data), q)
hopper_flash_attention(q, cfg) == Output(Launched(hopper_fwd_impl, q, cfg), hopper_quantize(q.data), q)
ada_flash_attention(q, cfg) == Output(Launched(ada_fwd_impl, q, cfg), ada_quantize(q.data), q)

(***************************************************************************)
(* The AMX kernels (kernels/cpu): the bfloat16 and the int8 one run the    *)
(* same loop over square tiles; the int8 one quantizes each tile it reads. *)
(* A causal Q tile stops at the first K/V tile past its last row.  (A tile *)
(* wholly before the rows is not masked, where a mask would leave all.)    *)
(***************************************************************************)
process_q_tile(q, r, size) ==
    LET kv_tiles == q.Skv \div size
        q_tiles_seen == r \div size + 1
    IN Looped(q, r, size, IF q.causal /\ q_tiles_seen < kv_tiles THEN q_tiles_seen ELSE kv_tiles)

flash_attn_amx(q, size) ==
    [rows |-> [r \in Rows(q) |-> IF r \div size < q.Sq \div size
                                 THEN process_q_tile(q, r, size) ELSE Unwritten],
     dropout |-> FALSE, gqa |-> FALSE, finite |-> q.data # "nonfinite"]

(***************************************************************************)
(* The unfused FP8 op (attention/fp8_scaled_mm.py): two scaled matmuls     *)
(* around a softmax over the whole row of scores.                          *)
(***************************************************************************)
\* One scale per row, floored like the kernels' scale per head.
_rowwise_quantize(data) == _per_bh_scale(data) # "nonfinite"

\* The causal mask is triu(1) of the (Sq, Skv) scores.
scaled_mm_attention(q) ==
    LET scores(r) == [c \in Keys(q) |-> IF q.causal /\ c > r THEN NegInf ELSE Scaled(q, c)]
        p(r) == [c \in Keys(q) |-> Exp(scores(r)[c], Max({scores(r)[k] : k \in Keys(q)}))]
        row(r) == [acc |-> p(r), l |-> Total(p(r)), nan |-> FALSE]
    IN Output([r \in Rows(q) |-> row(r)], _rowwise_quantize(q.data), q)
==============================================================================
