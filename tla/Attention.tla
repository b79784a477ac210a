----------------------------- MODULE Attention ------------------------------
(***************************************************************************)
(* Attention calls of several processes of one host.  A call comes by      *)
(* Backend.attention_op ("backend"), from a caller that builds the Ada op, *)
(* which no registry lists, when it supports the problem ("ada"), through  *)
(* diffusers' dispatcher ("dispatcher"), or from a Wan transformer whose   *)
(* processor may name a backend ("wan").  AttentionOps decides which op    *)
(* serves it and FlashKernel what a Triton op computes.                    *)
(*                                                                         *)
(* The processes share one thing, the autotuner's cache on disk            *)
(* (fp8_flash_attn.py and its siblings): a JSON file that a save replaces  *)
(* by renaming a temporary file over it, and the temporary file has one    *)
(* name for all of them.  A file is modelled by its inode, so that a       *)
(* process that still has the temporary file open writes into whatever     *)
(* name that inode has by then.  Each kernel has its own file; the         *)
(* processes of a host run one kernel.                                     *)
(***************************************************************************)
EXTENDS AttentionOps, FlashKernel

CONSTANTS
    Procs,     \* processes of the host
    Hosts,     \* hosts to choose from, each with its processes,
               \* and the problems and routes of their calls
    Fastest,   \* configurations a timing run may pick
    MaxCalls,  \* bound: calls of one process
    Inodes     \* bound: files that exist at once

ASSUME AttentionAssumption ==
    /\ MaxCalls \in Nat /\ Inodes \subseteq Nat \ {0}
    /\ Fastest \subseteq gfx942_configs \cup hopper_configs \cup ada_configs
    /\ \A h \in Hosts : /\ h.routes \subseteq {"backend", "ada", "dispatcher", "wan"}
                       /\ h.faulty \in BOOLEAN
                       /\ \A q \in h.problems :
                              IsProblem(q) /\ (q.device = "cuda" => h.torch \in {"cuda", "rocm"})

VARIABLES
    host,     \* the host, fixed
    active,   \* diffusers' active backend in each process
    wan,      \* the backend its Wan processors name, or "unset"
    call,     \* each process's call in progress
    last,     \* what its last call came to
    path,     \* the inode of the cache file, NoFile if there is none
    tmp,      \* the inode of the temporary file
    disk,     \* what each inode holds
    clash     \* history: two saves have overlapped

attentionVars == <<host, active, wan, call, last, path, tmp, disk, clash>>
fileVars == <<path, tmp, disk, clash>>

NoFile == 0
\* A file just opened for writing holds nothing; one that two processes wrote
\* may hold a mixture.  Neither parses.
NoEntries == [k \in {} |-> {}]
Empty == [kind |-> "empty", entries |-> NoEntries]
Torn == [kind |-> "torn", entries |-> NoEntries]
Json(entries) == [kind |-> "json", entries |-> entries]

\* No call in progress, after n calls.  op, cfg, out: the kernel, its
\* configuration and its result; cache, fd: the save of a tuning.
Idle(n) == [pc |-> "idle", calls |-> n, route |-> "none", q |-> <<>>, op |-> "none",
            cfg |-> <<>>, out |-> <<>>, cache |-> NoEntries, fd |-> NoFile]
AttentionInit ==
    /\ host \in Hosts
    /\ active = [p \in Procs |-> "native"] /\ wan = [p \in Procs |-> "unset"]
    /\ call = [p \in Procs |-> Idle(0)] /\ last = [p \in Procs |-> [outcome |-> "none"]]
    /\ path = NoFile /\ tmp = NoFile /\ disk = [i \in Inodes |-> Empty]
    /\ clash = FALSE

At(p, pc) == p \in host.procs /\ call[p].pc = pc
Loading(p) == At(p, "idle") /\ "dispatcher" \in host.routes

(***************************************************************************)
(* Engines activate the bridges when they load, in a process that runs     *)
(* diffusers pipelines.                                                    *)
(***************************************************************************)
\* CosmosEngine.load; the dispatcher keeps one active backend per process.
maybe_activate_always(p) ==
    /\ Loading(p) /\ active[p] # "repercep_fp8"
    /\ active' = [active EXCEPT ![p] = "repercep_fp8"]
    /\ UNCHANGED <<host, wan, call, last, fileVars>>
maybe_activate_from_env(p) ==
    /\ Loading(p) /\ host.fp8 \in FP8_ENV_VALUES /\ active[p] # "repercep_fp8"
    /\ active' = [active EXCEPT ![p] = "repercep_fp8"]
    /\ UNCHANGED <<host, wan, call, last, fileVars>>
amx_maybe_activate_from_env(p) ==
    /\ Loading(p) /\ host.amx \in AMX_ENV_VALUES /\ active[p] # "repercep_amx"
    /\ active' = [active EXCEPT ![p] = "repercep_amx"]
    /\ UNCHANGED <<host, wan, call, last, fileVars>>
\* WanEngine.load; nothing happens when diffusers has no such processor.
maybe_install_repercep_wan_attention(p) ==
    /\ Loading(p) /\ host.fp8 \in FP8_ENV_VALUES /\ "wan_processor" \in host.has
    /\ wan' = [wan EXCEPT ![p] = "repercep_fp8"]
    /\ UNCHANGED <<host, active, call, last, fileVars>>

(***************************************************************************)
(* A call.                                                                 *)
(***************************************************************************)
\* dispatch_attention_fn(backend): the processor's backend, else the active one.
dispatch_attention_fn(p, route, q) ==
    LET backend == IF route = "wan" /\ wan[p] # "unset" THEN wan[p] ELSE active[p]
    IN CASE backend = "repercep_fp8" -> _repercep_fp8_attention(host, q)
         [] backend = "repercep_amx" -> _repercep_amx_attention(host, q)
         [] OTHER -> Sdpa(host, q)

Bridges == {"dispatcher", "wan"}
Target(p, route, q) ==
    CASE route = "backend" ->
             (LET vendor == select_backend(host, host.prefer)
              IN IF vendor = NoBackend THEN Refused ELSE select_attention_op(vendor, host, q))
      [] route = "ada" -> FP8AdaTritonAttention(host, q)
      [] route \in Bridges -> dispatch_attention_fn(p, route, q)

\* What was asked, and what a call of an op tells of it: q, k, v, causal and
\* scale, and nothing of the kind, the mask, dropout or GQA.
Asked(q) == [rows |-> [r \in Rows(q) |-> Softmax(q, r)], dropout |-> q.dropout, gqa |-> q.gqa,
             finite |-> q.data # "nonfinite"]
Given(q) == [q EXCEPT !.mask = FALSE, !.dropout = FALSE, !.gqa = FALSE,
                      !.kind = IF q.causal THEN "causal" ELSE "full"]

\* flash_attn_func aligns the causal mask with the last key: row r sees the
\* keys up to r + Skv - Sq.  A row that sees none comes back as zeros.
flash_attn_func(q) ==
    LET seen(r) == {c \in Keys(q) : q.causal => c <= r + q.Skv - q.Sq}
    IN [Asked(q) EXCEPT !.rows = [r \in Rows(q) |->
            IF seen(r) = {} THEN Unwritten ELSE SoftmaxOver(q, seen(r))]]

\* What an op that is no Triton kernel returns.  TransformerEngine, IPEX and
\* the AMX fp16 scaffold have SDPA's signature and meaning.
Result(op, q) ==
    CASE op = "sdpa" -> Asked(q)
      [] op \in FlashOps -> flash_attn_func(Given(q))
      [] op = "fp8-scaled-mm" -> scaled_mm_attention(q)
      [] op \in {"amx-bf16-flash", "amx-int8-flash"} -> flash_attn_amx(q, AmxTile)
      [] OTHER -> Asked(Given(q))

Return(p, outcome, route, q, op, result) ==
    last' = [last EXCEPT ![p] = [outcome |-> outcome, route |-> route, q |-> q,
                                 op |-> op, result |-> result]]
Raise(p, route, q, op) == Return(p, "raised", route, q, op, <<>>)
\* The op runs, or raises.
Serve(p, route, q, op) ==
    IF op.runs THEN Return(p, "ok", route, q, op.name, Result(op.name, q))
    ELSE Raise(p, route, q, op.name)

\* A bridge looks at what its kernel computed, and serves the call again by its
\* fallback when that is not finite.
Deliver(p, route, q, name, out) ==
    IF route \in Bridges /\ name \in TritonOps \cup AmxOps /\ ~out.finite
    THEN Serve(p, route, q, IF name \in TritonOps THEN _native_fallback(host, q) ELSE Sdpa(host, q))
    ELSE Return(p, "ok", route, q, name, out)

\* The route is taken; an op that is no Triton kernel finishes the call.  (A
\* Triton kernel that does not run raises at its launch, before anything that
\* the processes share has changed.)
Call(p, route, q) ==
    LET op == Target(p, route, q)
        calls == call[p].calls + 1
    IN
    /\ At(p, "idle") /\ call[p].calls < MaxCalls
    /\ route \in {"backend", "ada"} => Plain(q) /\ ~q.lse /\ ~q.parallel
    /\ route = "ada" => FP8AdaTritonAttention(host, q).supports
    /\ route \in Bridges => FullOrCausal(q)   \* diffusers has no other kind
    /\ IF op.runs /\ op.name \in TritonOps
       THEN /\ call' = [call EXCEPT ![p] =
                   [Idle(calls) EXCEPT !.pc = "resolve", !.route = route, !.q = q, !.op = op.name]]
            /\ UNCHANGED last
       ELSE /\ call' = [call EXCEPT ![p] = Idle(calls)]
            /\ IF op.runs THEN Deliver(p, route, q, op.name, Result(op.name, q))
               ELSE Raise(p, route, q, op.name)
    /\ UNCHANGED <<host, active, wan, fileVars>>

(***************************************************************************)
(* fp8_flash_attention: the configuration, the launch, the record of a     *)
(* tuning.                                                                 *)
(***************************************************************************)
\* A file that is missing or does not parse counts as empty.
_cache_load == IF path = NoFile THEN NoEntries ELSE disk[path].entries
_cache_key(q) == <<q.batch, q.heads, q.Sq, q.Skv, q.D, q.causal>>

Fallback(op) ==
    CASE op = "fp8-triton-flash" -> gfx942_fallback
      [] op = "fp8-hopper-triton-flash" -> hopper_fallback
      [] op = "fp8-ada-triton-flash" -> ada_fallback
AutotuneConfigs(op) ==
    CASE op = "fp8-triton-flash" -> gfx942_configs
      [] op = "fp8-hopper-triton-flash" -> hopper_configs
      [] op = "fp8-ada-triton-flash" -> ada_configs
KernelResult(op, q, cfg) ==
    CASE op = "fp8-triton-flash" -> fp8_flash_attention(q, cfg)
      [] op = "fp8-hopper-triton-flash" -> hopper_flash_attention(q, cfg)
      [] op = "fp8-ada-triton-flash" -> ada_flash_attention(q, cfg)

\* The configuration on file for this shape, if there is one.
_resolve_config(q) == {_cache_load[k] : k \in {_cache_key(q)} \cap DOMAIN _cache_load}

\* REPERCEP_FP8_DISABLE_AUTOTUNE: the fallback.  Else the file, or a tuning.
Resolve(p) ==
    /\ At(p, "resolve")
    /\ LET found == IF host.notune THEN {Fallback(call[p].op)} ELSE _resolve_config(call[p].q)
       IN call' = [call EXCEPT ![p] =
                      IF found = {} THEN [@ EXCEPT !.pc = "tune"]
                      ELSE [@ EXCEPT !.pc = "launch", !.cfg = CHOOSE c \in found : TRUE]]
    /\ UNCHANGED <<host, active, wan, last, fileVars>>

\* The fixed-configuration launch.
Launch(p) ==
    /\ At(p, "launch")
    /\ call' = [call EXCEPT ![p] =
                   [@ EXCEPT !.pc = "finish",
                             !.out = KernelResult(call[p].op, call[p].q, call[p].cfg)]]
    /\ UNCHANGED <<host, active, wan, last, fileVars>>
\* The autotuned launch; an old Triton does not tell the winner.
Tune(p, winner) ==
    /\ At(p, "tune") /\ winner \in AutotuneConfigs(call[p].op)
    /\ call' = [call EXCEPT ![p] =
                   [@ EXCEPT !.pc = IF "best_config" \in host.has THEN "load" ELSE "finish",
                             !.cfg = winner,
                             !.out = KernelResult(call[p].op, call[p].q, winner)]]
    /\ UNCHANGED <<host, active, wan, last, fileVars>>

Saving == {p \in Procs : call[p].pc \in {"open", "write", "replace"}}
\* The entries with the configuration that c's tuning found.
Recorded(entries, c) ==
    [k \in {_cache_key(c.q)} \cup DOMAIN entries |->
        IF k = _cache_key(c.q) THEN c.cfg ELSE entries[k]]
\* _record_config reads the cache ...
RecordLoadNothing(p) ==
    /\ At(p, "load")
    /\ call' = [call EXCEPT ![p] =
                   [@ EXCEPT !.pc = "open", !.cache = Recorded(NoEntries, call[p])]]
    /\ clash' = (clash \/ Saving # {})
    /\ UNCHANGED <<host, active, wan, last, path, tmp, disk>>
RecordLoad(p) ==
    /\ At(p, "load")
    /\ call' = [call EXCEPT ![p] =
                   [@ EXCEPT !.pc = "open", !.cache = Recorded(_cache_load, call[p])]]
    /\ clash' = (clash \/ Saving # {})
    /\ UNCHANGED <<host, active, wan, last, path, tmp, disk>>
\* ... _cache_save truncates the temporary file or creates it ...
Unused == {i \in Inodes \ {path, tmp} : \A r \in Procs : call[r].fd # i}
RecordOpen(p) ==
    /\ At(p, "open") /\ (tmp # NoFile \/ Unused # {})
    /\ LET fd == IF tmp # NoFile THEN tmp ELSE Min(Unused) IN
       /\ call' = [call EXCEPT ![p] = [@ EXCEPT !.pc = "write", !.fd = fd]]
       /\ tmp' = fd /\ disk' = [disk EXCEPT ![fd] = Empty]
    /\ UNCHANGED <<host, active, wan, last, path, clash>>
\* ... writes it from offset 0 over what another process may have written ...
Overwrites(old, new) ==
    LET size(file) == Cardinality(DOMAIN file.entries) IN
    CASE old.kind = "empty" \/ (old.kind = "json" /\ size(new) > size(old)) -> {new}
      [] old.kind = "json" /\ size(new) < size(old) -> {Torn}
      [] OTHER -> {new, Torn}
RecordWrite(p) ==
    /\ At(p, "write")
    /\ \E content \in Overwrites(disk[call[p].fd], Json(call[p].cache)) :
           disk' = [disk EXCEPT ![call[p].fd] = content]
    /\ call' = [call EXCEPT ![p] = [@ EXCEPT !.pc = "replace"]]
    /\ UNCHANGED <<host, active, wan, last, path, tmp, clash>>
\* ... and renames it.  When another process has renamed it already the rename
\* raises FileNotFoundError, and nothing on the way up catches it.
RecordReplace(p) ==
    /\ At(p, "replace")
    /\ IF tmp # NoFile
       THEN /\ path' = tmp /\ tmp' = NoFile
            /\ call' = [call EXCEPT ![p] = [@ EXCEPT !.pc = "finish", !.fd = NoFile]]
            /\ UNCHANGED last
       ELSE /\ call' = [call EXCEPT ![p] = Idle(@.calls)]
            /\ Raise(p, call[p].route, call[p].q, call[p].op)
            /\ UNCHANGED <<path, tmp>>
    /\ UNCHANGED <<host, active, wan, disk, clash>>

\* On a host whose disk is full or whose cache directory is read-only, mkdir,
\* open, the write or the rename raises OSError, which nothing on the way up
\* catches either: the finished call is lost.  What was written stays.
RecordRaises(p) ==
    /\ host.faulty /\ \E pc \in {"open", "write", "replace"} : At(p, pc)
    /\ \/ UNCHANGED disk
       \/ At(p, "write") /\ disk' = [disk EXCEPT ![call[p].fd] = Torn]
    /\ call' = [call EXCEPT ![p] = Idle(@.calls)]
    /\ Raise(p, call[p].route, call[p].q, call[p].op)
    /\ UNCHANGED <<host, active, wan, path, tmp, clash>>

\* The kernel's output is returned, or served again.
Finish(p) ==
    /\ At(p, "finish")
    /\ call' = [call EXCEPT ![p] = Idle(@.calls)]
    /\ Deliver(p, call[p].route, call[p].q, call[p].op, call[p].out)
    /\ UNCHANGED <<host, active, wan, fileVars>>

\* The process dies and starts anew; the files stay as they are.
Crash(p) ==
    /\ p \in host.procs /\ call[p].pc # "idle"
    /\ call' = [call EXCEPT ![p] = Idle(@.calls)]
    /\ active' = [active EXCEPT ![p] = "native"] /\ wan' = [wan EXCEPT ![p] = "unset"]
    /\ last' = [last EXCEPT ![p] = [outcome |-> "none"]]
    /\ UNCHANGED <<host, fileVars>>

AttentionNext == \E p \in Procs :
    \/ maybe_activate_from_env(p) \/ amx_maybe_activate_from_env(p)
    \/ maybe_install_repercep_wan_attention(p)
    \/ \E route \in host.routes, q \in host.problems : Call(p, route, q)
    \/ Resolve(p) \/ Launch(p)
    \/ \E winner \in Fastest : Tune(p, winner)
    \/ RecordLoad(p) \/ RecordOpen(p) \/ RecordWrite(p) \/ RecordReplace(p)
    \/ RecordRaises(p)
    \/ Finish(p) \/ Crash(p)

AttentionSpec == AttentionInit /\ [][AttentionNext]_attentionVars

(***************************************************************************)
(* Properties                                                              *)
(***************************************************************************)
\* A result that is returned for finite inputs is the attention that was asked
\* for, whichever op the registry or a bridge chose and whichever tiles the
\* autotuner picked: every row attends the keys its masks leave with the softmax
\* weights of the scale asked for; masks, dropout and GQA never reach an op that
\* drops them; and a bridge never returns FP8 numbers that overflowed.  Three
\* departures are known: an FP8 result of the registry may have overflowed; the
\* naive op serves neighborhood attention as full attention; and a flash op
\* aligns the causal mask of unequal lengths with the last key.
ResultIsTheAttentionAsked ==
    \A p \in Procs : last[p].outcome = "ok" /\ last[p].q.data # "nonfinite" =>
        LET q == last[p].q
            op == last[p].op
        IN  \/ last[p].result = Asked(q)
            \/ /\ last[p].route \notin Bridges /\ op \in Fp8Ops
               /\ last[p].result = [Asked(q) EXCEPT !.finite = FALSE]
            \/ /\ op = "naive-sdpa" /\ q.kind = "neighborhood"
               /\ last[p].result = Asked(Given(q))
            \/ /\ op \in FlashOps /\ q.causal /\ q.Sq # q.Skv
               /\ last[p].result = flash_attn_func(q)

\* The calls that raise are the ones known to: no backend, and the LSE a bridge
\* does not return; what the library an op wraps refuses, and torch a mask
\* beside is_causal; tensors on the other device than an op's kernel runs on,
\* and a GPU without its FP8 type; scaled_mm without the grouped matmul; lengths
\* an AMX kernel rejects; and a finished tuning whose save met a disk that
\* fails, or overlapped another process's.
KnownToRaise(route, q, op) ==
    \/ op = "none" /\ route = "backend" /\ select_backend(host, host.prefer) = NoBackend
    \/ op = "none" /\ route \in Bridges /\ q.lse
    \/ <<Library(op), q.dtype, q.D>> \in host.rejects
    \/ op = "sdpa" /\ q.mask /\ q.causal
    \/ op \in FlashOps \cup Fp8Ops /\ ~OnGpu(q)
    \/ op \in AmxOps \cup {"ipex-flash"} /\ OnGpu(q)
    \/ op \in TritonOps /\ host.arch \notin KernelArchs(op)
    \/ op = "fp8-scaled-mm" /\ (host.arch # "gfx942" \/ "grouped_mm" \notin host.has)
    \/ op \in AmxOps /\ (~SelfAttention(q) \/ q.Sq % AmxTile # 0)
    \/ op \in TritonOps /\ "best_config" \in host.has /\ ~host.notune /\ (clash \/ host.faulty)
RaisedCallsAreKnown ==
    \A p \in Procs : last[p].outcome = "raised" => KnownToRaise(last[p].route, last[p].q, last[p].op)

\* FP8 is opt-in: unless REPERCEP_FP8_ATTENTION asks for it, no call of any
\* process by any route of the runtime is computed by an FP8 op.
Fp8IsOptIn ==
    \A p \in Procs : last[p].outcome = "ok" /\ last[p].op \in Fp8Ops /\ last[p].route # "ada" =>
        host.fp8 \in On \cup Te \cup {"triton", "scaled_mm"}

\* What capabilities() declares is what serves: a call that comes through a
\* backend is run by an op the backend lists, on every kind of host and under
\* every setting of the two variables.  Two opt-ins are served by ops that are
\* not listed: FP8 on ROCm, and IPEX on a CPU without AMX.
ServedOpIsDeclared ==
    \A p \in Procs : last[p].outcome = "ok" /\ last[p].route = "backend" =>
        LET vendor == select_backend(host, host.prefer) IN
        \/ last[p].op \in capabilities(vendor, host)
        \/ vendor = "amd" /\ last[p].op \in Fp8Ops /\ _FP8_ENABLED(host)
        \/ last[p].op = "ipex-flash" /\ _AMX_ENABLED(host) /\ "amx_bf16" \notin features(host)

\* A tuning once saved is never lost, whatever crashes: as long as no two saves
\* overlap, a shape in the cache file stays there with its configuration or a
\* newer one ("one autotune per shape per host, then free forever").
TunedShapesStayTuned ==
    [][~clash' => DOMAIN _cache_load \subseteq DOMAIN _cache_load']_attentionVars
=============================================================================
