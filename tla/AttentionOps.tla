---------------------------- MODULE AttentionOps ----------------------------
(***************************************************************************)
(* Which attention op serves a problem: the backends (repercep/backend),   *)
(* the attention ops and their registry (repercep/attention), and the      *)
(* routing of the two diffusers bridges.  Everything here is a function of *)
(* the host h and the problem q:                                           *)
(*   h.torch   the torch build and device: "rocm", "cuda", "cpu", "none"   *)
(*   h.arch    the GPU architecture                                        *)
(*   h.has     packages, kernels and CPU flags that are there              *)
(*   h.fp8, h.amx  REPERCEP_FP8_ATTENTION, REPERCEP_AMX_ATTENTION          *)
(*   h.rejects <<library, dtype, head dimension>> that a library refuses:  *)
(*             which those are is up to the installed release, and for the *)
(*             AMX kernels to the kernel's leave to use the tiles          *)
(*   q         lengths Sq, Skv, head dimension D, dtype, kind, device,     *)
(*             causal, scale, and the mask, dropout, GQA, LSE and          *)
(*             parallelism asked of diffusers                              *)
(* An op is the record of its name, whether supports() accepts q, and      *)
(* whether the call then runs or raises.  Lengths are scaled down: the     *)
(* thresholds are constants, their real values beside them.                *)
(***************************************************************************)
EXTENDS Integers, Sequences, SequencesExt

CONSTANTS
    MinSeqLen,        \* _MIN_SEQ_LEN of the Triton ops (128)
    BridgeMinSeqLen,  \* _FP8_MIN_SEQ_LEN, _AMX_MIN_SEQ_LEN (4096)
    MinDim,           \* _MIN_DIM of the scaled_mm op (16)
    MaxScores,        \* its budget for the scores, batch * heads * Sq * Skv
    AmxTile           \* rows of an AMX tile (32), a power of two

ASSUME OpsAssumption ==
    /\ {MinSeqLen, BridgeMinSeqLen, MinDim, MaxScores} \subseteq Nat \ {0}
    /\ MinSeqLen <= BridgeMinSeqLen /\ AmxTile \in {1, 2, 4}

SelfAttention(q) == q.Sq = q.Skv
Half(q) == q.dtype \in {"bf16", "fp16"}
FullOrCausal(q) == q.kind \in {"full", "causal"}
OnGpu(q) == q.device = "cuda"

\* The ops that are torch SDPA; the others call a library of their own.
SdpaOps == {"sdpa", "naive-sdpa", "amx-sdpa"}
Library(name) == IF name \in SdpaOps THEN "sdpa" ELSE name
Op(h, q, name, supports, runs) ==
    [name |-> name, supports |-> supports,
     runs |-> runs /\ <<Library(name), q.dtype, q.D>> \notin h.rejects]

(***************************************************************************)
(* The ops.  supports() asks of the shape, its kind and the dtype; runs is *)
(* what the wrapped function needs beyond that.                            *)
(***************************************************************************)
NaiveAttention(h, q) == Op(h, q, "naive-sdpa", TRUE, TRUE)

FlashDims == {64, 96, 128, 192, 256}
\* A flash wheel runs on a GPU and takes half precision.
Flash(h, q, name, there, dims) ==
    Op(h, q, name, there /\ Half(q) /\ q.D \in dims /\ FullOrCausal(q), there /\ Half(q) /\ OnGpu(q))
ROCmFlashAttention(h, q) == Flash(h, q, "rocm-ck-flash", "flash_attn" \in h.has, {64, 128, 256})
\* FA-3 first, then FA-2.
HopperFlashAttention(h, q) == Flash(h, q, "nvidia-flash", {"fa3", "flash_attn"} \cap h.has # {}, FlashDims)
FlashOps == {"rocm-ck-flash", "nvidia-flash"}

TritonDims == {32, 64, 128, 256}
TritonOps == {"fp8-triton-flash", "fp8-hopper-triton-flash", "fp8-ada-triton-flash"}
\* The architectures with the FP8 type a kernel is written for.
KernelArchs(name) ==
    CASE name = "fp8-triton-flash" -> {"gfx942"}
      [] name = "fp8-hopper-triton-flash" -> {"sm89", "sm90a"}
      [] name = "fp8-ada-triton-flash" -> {"sm89"}
\* The kernel asserts equal shapes and a compiled head dimension, and compiles
\* for a GPU with its FP8 type.  supports() asks neither for GPU nor for type.
TritonCross(h, q, name, there) ==
    Op(h, q, name, there /\ Half(q) /\ q.D \in TritonDims /\ FullOrCausal(q) /\ q.Sq >= MinSeqLen,
       there /\ q.D \in TritonDims /\ SelfAttention(q) /\ OnGpu(q) /\ h.arch \in KernelArchs(name))
Triton(h, q, name, there) ==
    Op(h, q, name,
       /\ there /\ Half(q) /\ q.D \in TritonDims /\ FullOrCausal(q)
       /\ q.Sq >= MinSeqLen /\ SelfAttention(q),
       there /\ q.D \in TritonDims /\ SelfAttention(q) /\ OnGpu(q) /\ h.arch \in KernelArchs(name))
FP8TritonAttention(h, q) == Triton(h, q, "fp8-triton-flash", "triton" \in h.has)
FP8HopperTritonAttention(h, q) == Triton(h, q, "fp8-hopper-triton-flash", "triton" \in h.has)
\* Only where the device is sm_89; no registry branch builds it.
FP8AdaTritonAttention(h, q) ==
    Triton(h, q, "fp8-ada-triton-flash", h.arch = "sm89" /\ "triton" \in h.has)

\* available asks for either scaled matmul; the call uses the grouped one, of
\* gfx942's FP8 type.
FP8ScaledMMAttention(h, q) ==
    Op(h, q, "fp8-scaled-mm",
       /\ {"scaled_mm", "grouped_mm"} \cap h.has # {} /\ FullOrCausal(q)
       /\ q.dtype \in {"bf16", "fp16", "fp8_e4m3", "fp8_e5m2"} /\ q.D \in FlashDims
       /\ \A s \in {q.Sq, q.Skv} : s >= MinDim /\ s % MinDim = 0
       /\ q.batch * q.heads * q.Sq * q.Skv <= MaxScores,
       "grouped_mm" \in h.has /\ OnGpu(q) /\ h.arch = "gfx942")

\* supports() takes FP8 tensors too; whether the module does is TE's to say.
TransformerEngineAttention(h, q) ==
    Op(h, q, "transformer-engine-fp8",
       /\ "te" \in h.has /\ q.dtype \in {"bf16", "fp16", "fp8_e4m3", "fp8_e5m2"}
       /\ q.D \in {64, 128} /\ FullOrCausal(q) /\ SelfAttention(q),
       OnGpu(q))

AMXSDPAAttention(h, q) ==
    Op(h, q, "amx-sdpa", q.dtype \in {"fp32", "fp16", "bf16", "int8"} /\ FullOrCausal(q), TRUE)
\* The C++ kernels check that the tensors are on the CPU, that the shapes match
\* and that S is a multiple of the tile.  The fp16 one then calls torch SDPA.
Amx(h, q, name, flag, dtype) ==
    LET there == {flag, "amx_native"} \subseteq h.has IN
    Op(h, q, name, there /\ q.dtype = dtype /\ q.D \in {64, 128} /\ FullOrCausal(q),
       there /\ ~OnGpu(q) /\ SelfAttention(q) /\ q.Sq % AmxTile = 0)
AMXFlashAttention(h, q) == Amx(h, q, "amx-bf16-flash", "amx_bf16", "bf16")
AMXFP16FlashAttention(h, q) == Amx(h, q, "amx-fp16-flash", "amx_fp16", "fp16")
AMXInt8FlashAttention(h, q) == Amx(h, q, "amx-int8-flash", "amx_int8", "bf16")
AmxOps == {"amx-bf16-flash", "amx-fp16-flash", "amx-int8-flash"}
IPEXFlashAttention(h, q) ==
    Op(h, q, "ipex-flash",
       /\ "ipex" \in h.has /\ q.dtype \in {"fp32", "fp16", "bf16"}
       /\ q.D \in {64, 80, 96, 128, 192, 256} /\ FullOrCausal(q),
       ~OnGpu(q))

Fp8Ops == TritonOps \cup {"fp8-scaled-mm", "transformer-engine-fp8"}

(***************************************************************************)
(* select_attention_op: the vendor's candidates in order, env-gated.       *)
(***************************************************************************)
On == {"1", "true", "on"}
Te == {"te", "transformer_engine"}
_FP8_ENABLED(h) == h.fp8 \in On \cup Te \cup {"triton", "scaled_mm"}
_AMX_ENABLED(h) == h.amx \in On \cup {"amx", "int8", "fp16", "ipex"}
When(cond, op) == IF cond THEN <<op>> ELSE <<>>

AmdCandidates(h, q) ==
    When(_FP8_ENABLED(h) /\ h.fp8 \notin Te \cup {"scaled_mm"}, FP8TritonAttention(h, q))
    \o When(_FP8_ENABLED(h) /\ h.fp8 \notin Te \cup {"triton"}, FP8ScaledMMAttention(h, q))
    \o <<ROCmFlashAttention(h, q)>>
NvidiaCandidates(h, q) ==
    When(_FP8_ENABLED(h) /\ h.fp8 \notin Te \cup {"scaled_mm"}, FP8HopperTritonAttention(h, q))
    \o When(_FP8_ENABLED(h) /\ h.fp8 \in On \cup Te, TransformerEngineAttention(h, q))
    \o <<HopperFlashAttention(h, q)>>
IntelCandidates(h, q) ==
    When(h.amx = "int8", AMXInt8FlashAttention(h, q))
    \o When(h.amx \in On \cup {"fp16"}, AMXFP16FlashAttention(h, q))
    \o When(_AMX_ENABLED(h) /\ h.amx \notin {"ipex", "int8", "fp16"}, AMXFlashAttention(h, q))
    \o When(_AMX_ENABLED(h) /\ h.amx \notin {"amx", "int8", "fp16"}, IPEXFlashAttention(h, q))
    \o <<AMXSDPAAttention(h, q)>>

FirstSupporting(ops) == ops[SelectInSeq(ops, LAMBDA op : op.supports)]

select_attention_op(vendor, h, q) ==
    LET candidates ==
            (CASE vendor = "amd" -> AmdCandidates(h, q)
               [] vendor = "nvidia" -> NvidiaCandidates(h, q)
               [] vendor = "intel" -> IntelCandidates(h, q)) \o <<NaiveAttention(h, q)>>
    IN FirstSupporting(candidates)

(***************************************************************************)
(* The backends, in the order select_backend tries them.                   *)
(***************************************************************************)
NoBackend == "none"
ROCmBackend(h) == [name |-> "rocm", vendor |-> "amd", is_available |-> h.torch = "rocm"]
CUDABackend(h) == [name |-> "cuda", vendor |-> "nvidia", is_available |-> h.torch = "cuda"]
CPUBackend(h) == [name |-> "cpu", vendor |-> "intel", is_available |-> h.torch # "none"]
_ALL_BACKENDS(h) == <<ROCmBackend(h), CUDABackend(h), CPUBackend(h)>>

\* The vendor of the backend that is pinned, or of the first available one;
\* NoBackend when select_backend raises.
select_backend(h, prefer) ==
    LET i == SelectInSeq(_ALL_BACKENDS(h),
                         LAMBDA b : b.is_available /\ prefer \in {"any", b.name})
    IN IF i = 0 THEN NoBackend ELSE _ALL_BACKENDS(h)[i].vendor

\* capabilities().attention_ops: what each backend says it may serve with.
rocm_capabilities(h) ==
    {"naive-sdpa"} \cup (IF "flash_attn" \in h.has THEN {"rocm-ck-flash"} ELSE {})
cuda_capabilities(h) ==
    {"naive-sdpa"}
    \cup (IF {"fa3", "flash_attn"} \cap h.has # {} THEN {"nvidia-flash"} ELSE {})
    \cup (IF "triton" \in h.has THEN {"fp8-hopper-triton-flash"} ELSE {})
    \cup (IF "te" \in h.has THEN {"transformer-engine-fp8"} ELSE {})
features(h) == h.has \cap {"amx_bf16", "amx_int8", "amx_fp16"}
\* Mutant: the int8 op is not listed.
cpu_capabilitiesNoInt8(h) ==
    {"naive-sdpa", "amx-sdpa"}
    \cup (IF {"amx_bf16", "amx_native"} \subseteq h.has THEN {"amx-bf16-flash"} ELSE {})
    \cup (IF {"amx_fp16", "amx_native"} \subseteq h.has THEN {"amx-fp16-flash"} ELSE {})
    \cup (IF {"amx_bf16", "ipex"} \subseteq h.has THEN {"ipex-flash"} ELSE {})
\* The AMX ops by CPU flag and native kernel; IPEX under the bfloat16 flag.
cpu_capabilities(h) ==
    LET native(flag, name) ==
            IF flag \in features(h) /\ "amx_native" \in h.has THEN {name} ELSE {}
    IN  {"naive-sdpa", "amx-sdpa"}
        \cup native("amx_bf16", "amx-bf16-flash") \cup native("amx_int8", "amx-int8-flash")
        \cup native("amx_fp16", "amx-fp16-flash")
        \cup (IF "amx_bf16" \in features(h) /\ "ipex" \in h.has THEN {"ipex-flash"} ELSE {})
capabilities(vendor, h) ==
    CASE vendor = "amd" -> rocm_capabilities(h)
      [] vendor = "nvidia" -> cuda_capabilities(h)
      [] vendor = "intel" -> cpu_capabilities(h)

(***************************************************************************)
(* The diffusers bridges: the op they run, torch SDPA among them, or       *)
(* Refused when they raise before any.                                     *)
(***************************************************************************)
Refused == [name |-> "none", supports |-> FALSE, runs |-> FALSE]
\* torch refuses an explicit mask beside is_causal.
Sdpa(h, q) == Op(h, q, "sdpa", TRUE, ~(q.mask /\ q.causal))
Plain(q) == ~q.mask /\ ~q.dropout /\ ~q.gqa

\* _native_fallback of the FP8 bridge: flash when it can, torch SDPA otherwise.
\* It does not ask supports(); a flash call that raises falls through to SDPA.
_native_fallback(h, q) ==
    LET fa == HopperFlashAttention(h, q)
    IN IF Plain(q) /\ Half(q) /\ OnGpu(q) /\ fa.runs THEN fa ELSE Sdpa(h, q)

_route_should_use_fp8(q) ==
    Half(q) /\ SelfAttention(q) /\ q.D \in TritonDims /\ q.Sq >= BridgeMinSeqLen
_route_should_use_amx(q) ==
    q.dtype = "bf16" /\ SelfAttention(q) /\ q.D \in {64, 128} /\ q.Sq >= BridgeMinSeqLen

\* The op the bridge keeps: the kernel of the torch build's vendor.
BridgeOp(h, q) == IF h.torch = "rocm" THEN FP8TritonAttention(h, q) ELSE FP8HopperTritonAttention(h, q)

\* Neither bridge asks on which device the tensors are.
_repercep_fp8_attention(h, q) ==
    CASE q.lse -> Refused
      [] ~q.lse /\ (\/ h.fp8 \in {"fa", "flash"} \/ q.parallel \/ ~Plain(q)
                    \/ ~_route_should_use_fp8(q) \/ "triton" \notin h.has) -> _native_fallback(h, q)
      [] OTHER -> BridgeOp(h, q)

\* The AMX bridge falls back to SDPA only.
_repercep_amx_attention(h, q) ==
    CASE q.lse -> Refused
      [] ~q.lse /\ (\/ q.parallel \/ ~Plain(q) \/ ~_route_should_use_amx(q)
                    \/ ~({"amx_bf16", "amx_native"} \subseteq h.has)) -> Sdpa(h, q)
      [] OTHER -> AMXFlashAttention(h, q)

\* The values of REPERCEP_FP8_ATTENTION the bridges take, and of the AMX one.
FP8_ENV_VALUES == On \cup {"triton", "scaled_mm", "fa", "flash"}
AMX_ENV_VALUES == On \cup {"amx"}
=============================================================================
