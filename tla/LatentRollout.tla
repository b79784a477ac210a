---------------------------- MODULE LatentRollout ----------------------------
(***************************************************************************)
(* The V-JEPA 2-AC engine (models/vjepa2_ac.py): a rollout advances a      *)
(* window of frames one predicted frame at a time, either by a forward     *)
(* over the whole window or from a KV cache kept per session; the planner  *)
(* rolls candidate action sequences out from a shared state.               *)
(*                                                                         *)
(* Frames are terms: a seed frame, or what the predictor was given for it. *)
(* Two predictions are the same number exactly when they are the same      *)
(* term.  A K/V entry is the sequence of frames its hidden states depend   *)
(* on, itself last: beyond the first layer a frame has seen every frame    *)
(* that was cached before it, also the ones evicted since.                 *)
(*                                                                         *)
(* The host keeps every state it was given and may continue from any of    *)
(* them.  The calls of one session follow each other; those of different   *)
(* sessions run on different threads.                                      *)
(***************************************************************************)
EXTENDS Integers, Sequences, SequencesExt, FiniteSets

CONSTANTS
    Sessions,       \* the session ids reset() draws
    Actions,        \* the actions a caller or a candidate sequence takes
    Configs,        \* the VJepa2ACConfig values and predictors considered
    EncodedFrames,  \* frames the encoder makes of the seed clip
    MaxStates,      \* bound: WorldStates a host keeps of one session
    MaxHorizon,     \* bound: the horizon of a plan
    MaxCandidates   \* bound: candidates one plan scores

ConfigType ==
    [context_frames : Nat \ {0}, reset_context_frames : Nat,
     kv_evict_policy : {"reinit", "slide"}, kv_sink_frames : Nat,
     use_kv_cache : BOOLEAN, plan_batched : BOOLEAN, plan_batched_kv : BOOLEAN,
     plan_warm_start : BOOLEAN, supports_kv_cache : BOOLEAN,
     supports_batch : BOOLEAN, bfloat16 : BOOLEAN]

ASSUME RolloutAssumption ==
    /\ Configs \subseteq ConfigType
    /\ EncodedFrames \in Nat \ {0}
    /\ MaxStates \in Nat /\ MaxHorizon \in Nat /\ MaxCandidates \in Nat

VARIABLES
    config,       \* the engine's configuration and what its predictor supports
    kv_cache,     \* VJepa2ACEngine._kv_cache
    plan_mean,    \* VJepa2ACEngine._plan_mean: the horizon it is for, 0 for none
    states,       \* the contexts the host has been given, of each session
    engine_call,  \* the engine call of each session
    sdpa,         \* F.scaled_dot_product_attention: the patches in effect
    done          \* history: the last rollout each session completed

rolloutVars == <<config, kv_cache, plan_mean, states, engine_call, sdpa, done>>

(***************************************************************************)
(* Windows and the predictor                                               *)
(***************************************************************************)
LastFrames(s, n) == IF Len(s) <= n THEN s ELSE SubSeq(s, Len(s) - n + 1, Len(s))

\* torch.cat of the context and the new block, capped to the window.
Window(ctx, frame) == LastFrames(Append(ctx, frame), config.context_frames)

\* reset_context_frames = 0 stands for None (both are falsy).
SeedContext ==
    LET keep == IF config.reset_context_frames = 0 THEN config.context_frames
                ELSE config.reset_context_frames
        cap == IF keep < config.context_frames THEN keep ELSE config.context_frames
    IN  LastFrames([i \in 1 .. EncodedFrames |-> [seed |-> i]], cap)

\* _encode_zero_action_prefix: every frame but the last, with zero actions.
PrefixKV(ctx) == [i \in 1 .. Len(ctx) - 1 |-> SubSeq(ctx, 1, i)]

\* _ac_rotate_augmented: raw keys get the rotation of their place in the window.
Rotated(layer_kv) == [i \in DOMAIN layer_kv |-> [pos |-> i - 1, raw |-> layer_kv[i]]]

\* The next frame, from the entries attended to, the trailing frame (rotated
\* for the place after them) and the action at its position.
Predict(layer_kv, frame, action) ==
    [kv |-> Rotated(layer_kv), of |-> frame, by |-> action]

\* The adapter's full forward: past frames with zero actions.
FullForward(ctx, action) == Predict(PrefixKV(ctx), Last(ctx), action)

(***************************************************************************)
(* The adapter's cache: processed frames and at most one pending frame     *)
(***************************************************************************)
InitCache(ctx) == [layer_kv |-> PrefixKV(ctx), pending |-> <<Last(ctx)>>]

\* _advance_pending: the pending frame against the cached prefix.
Advance(cache, action) == Predict(cache.layer_kv, cache.pending[1], action)

\* The second pass of step_cached: its zero-action K/V become durable.
Commit(cache) ==
    LET seen == IF cache.layer_kv = <<>> THEN <<>> ELSE Last(cache.layer_kv)
    IN  [layer_kv |-> Append(cache.layer_kv, Append(seen, cache.pending[1])),
         pending |-> <<>>]

AppendFrame(cache, frame) == [cache EXCEPT !.pending = <<frame>>]

\* Mutant: nothing is dropped.
EvictNothing(cache, sink_frames) == cache

Evict(cache, sink_frames) ==
    [cache EXCEPT !.layer_kv = SubSeq(@, 1, sink_frames)
                               \o SubSeq(@, sink_frames + 2, Len(@))]

(***************************************************************************)
(* One step of a rollout                                                   *)
(***************************************************************************)
NoEntry == [none |-> TRUE]
Entry(cache, ctx) == [cache |-> cache, last_context |-> ctx]

CacheCapable == config.use_kv_cache /\ config.supports_kv_cache
WindowFull(ctx) == Len(ctx) >= config.context_frames

\* Mutant: any entry of the session is taken for the context at hand.
InSyncAlways(s, ctx) == kv_cache[s] # NoEntry

\* _same_tensor of the incoming context and the one the cache is for.
InSync(s, ctx) == kv_cache[s] # NoEntry /\ kv_cache[s].last_context = ctx

\* A full window has no exact next cache: only a growth-phase cache that is
\* still in sync is used once more.
CachedPath(s, ctx) ==
    CacheCapable /\ (config.kv_evict_policy = "slide" \/ ~WindowFull(ctx) \/ InSync(s, ctx))

CacheFor(s, ctx) == IF InSync(s, ctx) THEN kv_cache[s].cache ELSE InitCache(ctx)

NextFrame(s, ctx, action) ==
    IF CachedPath(s, ctx) THEN Advance(CacheFor(s, ctx), action) ELSE FullForward(ctx, action)

\* _sync_kv_cache: drop the cache or extend it, and slide it with the window.
SyncedEntry(s, ctx, frame) ==
    LET cache == AppendFrame(Commit(CacheFor(s, ctx)), frame)
    IN  IF WindowFull(ctx) /\ config.kv_evict_policy = "reinit" THEN NoEntry
        ELSE Entry(IF WindowFull(ctx) THEN Evict(cache, config.kv_sink_frames) ELSE cache,
                   Window(ctx, frame))

\* evict() refuses to eat into the sink frames.
EvictRaises(s, ctx) ==
    /\ CachedPath(s, ctx) /\ WindowFull(ctx) /\ config.kv_evict_policy = "slide"
    /\ config.kv_sink_frames >= Len(Commit(CacheFor(s, ctx)).layer_kv)

EntryAfter(s, ctx, frame) ==
    IF CachedPath(s, ctx) THEN SyncedEntry(s, ctx, frame)
    ELSE IF CacheCapable THEN NoEntry ELSE kv_cache[s]

(***************************************************************************)
(* Candidate energies without the session's cache                          *)
(***************************************************************************)
\* _rollout_energy_batched: a full forward for every candidate and time step.
RolledOut(ctx, seq) ==
    LET window[t \in 0 .. Len(seq)] ==
            IF t = 0 THEN ctx ELSE Window(window[t - 1], FullForward(window[t - 1], seq[t]))
    IN  window[Len(seq)]

\* Mutant: the bound is on the window before the rollout, not after it.
BatchedCachedFitsStart(ctx, seq) == Len(ctx) <= config.context_frames

\* The whole horizon must stay in the growing window.
BatchedCachedFits(ctx, seq) == Len(ctx) + Len(seq) <= config.context_frames

\* _rollout_energy_batched_cached: one shared prefix, then one frame a step.
RolledOutCached(ctx, seq) ==
    LET cache[t \in 0 .. Len(seq)] ==
            IF t = 0 THEN InitCache(ctx)
            ELSE AppendFrame(Commit(cache[t - 1]), Advance(cache[t - 1], seq[t]))
    IN  cache[Len(seq)].pending[1]

Batched == config.plan_batched /\ config.supports_batch

Terminal(ctx, seq) ==
    IF /\ config.plan_batched_kv /\ config.use_kv_cache /\ config.supports_kv_cache
       /\ BatchedCachedFits(ctx, seq)
    THEN RolledOutCached(ctx, seq) ELSE Last(RolledOut(ctx, seq))

(***************************************************************************)
(* Engine calls                                                            *)
(***************************************************************************)
\* base, seq: the rollout in progress; ctx, todo: how far it is; candidates:
\* scored so far; saved: what the guard restores.
IdleCall == [pc |-> "idle", op |-> "none", base |-> <<>>, seq |-> <<>>, ctx |-> <<>>,
             todo |-> <<>>, candidates |-> 0, saved |-> <<>>, failed |-> FALSE]
Closed == [IdleCall EXCEPT !.pc = "closed"]
NoRollout == [base |-> <<>>, seq |-> <<>>, terminal |-> [seed |-> 0]]

RolloutInit ==
    /\ config \in Configs
    /\ kv_cache = [s \in Sessions |-> NoEntry]
    /\ plan_mean = [s \in Sessions |-> 0]
    /\ states = [s \in Sessions |-> {}]
    /\ engine_call = [s \in Sessions |-> Closed]
    /\ sdpa = <<>>
    /\ done = [s \in Sessions |-> NoRollout]

CallAt(s, pc) == engine_call[s].pc = pc

\* reset(): an id is used once.
Reset(s) ==
    /\ CallAt(s, "closed") /\ states[s] = {}
    /\ states' = [states EXCEPT ![s] = {SeedContext}]
    /\ engine_call' = [engine_call EXCEPT ![s] = IdleCall]
    /\ UNCHANGED <<config, kv_cache, plan_mean, sdpa, done>>

Start(s, op, ctx, seq) ==
    engine_call' = [engine_call EXCEPT ![s] =
        [pc |-> "enter", op |-> op, base |-> ctx, seq |-> seq, ctx |-> ctx, todo |-> seq,
         candidates |-> 0, saved |-> <<>>, failed |-> FALSE]]

StepCall(s, ctx, action) ==
    /\ CallAt(s, "idle") /\ Cardinality(states[s]) < MaxStates
    /\ Start(s, "step", ctx, <<action>>)
    /\ UNCHANGED <<config, kv_cache, plan_mean, states, sdpa, done>>

\* _plan_sequence: the candidates are drawn around the warm-start mean; every
\* sequence over Actions is considered.
PlanCall(s, ctx, seq) ==
    /\ CallAt(s, "idle")
    /\ Start(s, "plan", ctx, seq)
    /\ UNCHANGED <<config, kv_cache, plan_mean, states, sdpa, done>>

\* _sdpa_guard around a forward: in bfloat16 the module-global function is
\* replaced and put back, whatever the forward does.
GuardEnter(s) ==
    /\ CallAt(s, "enter")
    /\ engine_call' = [engine_call EXCEPT ![s].pc = "forward", ![s].saved = sdpa]
    /\ sdpa' = IF config.bfloat16 THEN <<s>> \o sdpa ELSE sdpa
    /\ UNCHANGED <<config, kv_cache, plan_mean, states, done>>

\* A forward raises for its own reasons, and in bfloat16 when it meets the
\* unpatched function (q and k in float32, v in bfloat16).
Forward(s) ==
    /\ CallAt(s, "forward")
    /\ \E failed \in BOOLEAN :
          /\ config.bfloat16 /\ sdpa = <<>> => failed
          /\ engine_call' = [engine_call EXCEPT ![s].pc = "exit", ![s].failed = failed]
    /\ UNCHANGED <<config, kv_cache, plan_mean, states, sdpa, done>>

GuardExit(s) ==
    /\ CallAt(s, "exit")
    /\ engine_call' = [engine_call EXCEPT ![s].pc = "apply"]
    /\ sdpa' = IF config.bfloat16 THEN engine_call[s].saved ELSE sdpa
    /\ UNCHANGED <<config, kv_cache, plan_mean, states, done>>

\* An exception of a forward or of evict() leaves the call; the session is
\* usable.  A full window without a matching cache has lost its entry before.
CallRaises(s) ==
    LET c == engine_call[s] IN
    /\ CallAt(s, "apply")
    /\ c.failed \/ (~(c.op = "plan" /\ Batched) /\ EvictRaises(s, c.ctx))
    /\ kv_cache' = IF CacheCapable /\ ~CachedPath(s, c.ctx) /\ ~(c.op = "plan" /\ Batched)
                   THEN [kv_cache EXCEPT ![s] = NoEntry] ELSE kv_cache
    /\ engine_call' = [engine_call EXCEPT ![s] = IdleCall]
    /\ UNCHANGED <<config, plan_mean, states, sdpa, done>>

\* What a completed rollout of c ending in frame leads to: a step's new state,
\* the next candidate of a plan, or the plan's solution.
Complete(s, ctx, frame) ==
    LET c == engine_call[s] IN
    /\ done' = [done EXCEPT ![s] = [base |-> c.base, seq |-> c.seq, terminal |-> frame]]
    /\ \/ /\ c.op = "step"
          /\ states' = [states EXCEPT ![s] = @ \cup {ctx}]
          /\ engine_call' = [engine_call EXCEPT ![s] = IdleCall]
          /\ UNCHANGED plan_mean
       \/ /\ c.op = "plan" /\ c.candidates + 1 < MaxCandidates
          /\ \E seq \in [1 .. Len(c.seq) -> Actions] :
                engine_call' = [engine_call EXCEPT ![s] =
                    [c EXCEPT !.pc = "enter", !.seq = seq, !.todo = seq,
                              !.ctx = c.base, !.candidates = @ + 1]]
          /\ UNCHANGED <<states, plan_mean>>
       \/ /\ c.op = "plan"
          /\ plan_mean' = IF config.plan_warm_start
                          THEN [plan_mean EXCEPT ![s] = Len(c.seq)] ELSE plan_mean
          /\ engine_call' = [engine_call EXCEPT ![s] = IdleCall]
          /\ UNCHANGED states

\* step(), from its caller or from _rollout_energy.
ApplyStep(s) ==
    LET c == engine_call[s]
        frame == NextFrame(s, c.ctx, Head(c.todo))
        ctx == Window(c.ctx, frame)
    IN  /\ CallAt(s, "apply") /\ ~c.failed
        /\ ~(c.op = "plan" /\ Batched)
        /\ ~EvictRaises(s, c.ctx)
        /\ kv_cache' = [kv_cache EXCEPT ![s] = EntryAfter(s, c.ctx, frame)]
        /\ \/ /\ Len(c.todo) = 1
              /\ Complete(s, ctx, frame)
           \/ /\ Len(c.todo) > 1
              /\ engine_call' = [engine_call EXCEPT ![s] =
                     [c EXCEPT !.pc = "enter", !.ctx = ctx, !.todo = Tail(@)]]
              /\ UNCHANGED <<states, plan_mean, done>>
        /\ UNCHANGED <<config, sdpa>>

\* The batched scorers neither read nor write the session's cache.
ApplyBatched(s) ==
    LET c == engine_call[s] IN
    /\ CallAt(s, "apply") /\ ~c.failed
    /\ c.op = "plan" /\ Batched
    /\ Complete(s, c.base, Terminal(c.base, c.seq))
    /\ UNCHANGED <<config, kv_cache, sdpa>>

Release(s) ==
    /\ CallAt(s, "idle")
    /\ kv_cache' = [kv_cache EXCEPT ![s] = NoEntry]
    /\ plan_mean' = [plan_mean EXCEPT ![s] = 0]
    /\ engine_call' = [engine_call EXCEPT ![s] = Closed]
    /\ UNCHANGED <<config, states, sdpa, done>>

RolloutNext == \E s \in Sessions :
    \/ Reset(s) \/ Release(s)
    \/ \E ctx \in states[s], action \in Actions : StepCall(s, ctx, action)
    \/ \E ctx \in states[s], h \in 1 .. MaxHorizon :
          \E seq \in [1 .. h -> Actions] : PlanCall(s, ctx, seq)
    \/ GuardEnter(s) \/ Forward(s) \/ GuardExit(s)
    \/ CallRaises(s) \/ ApplyStep(s) \/ ApplyBatched(s)

RolloutSpec == RolloutInit /\ [][RolloutNext]_rolloutVars

(***************************************************************************)
(* Properties                                                              *)
(***************************************************************************)
\* A session's cache is what init_cache would compute from the context it is
\* filed under, however steps, branches, plans and exceptions came before
\* (_CacheEntry: "never a wrong answer"); only "slide" trades that away, and
\* only at a full window.
CacheIsRecomputation == \A s \in Sessions : kv_cache[s] # NoEntry =>
    \/ kv_cache[s].cache = InitCache(kv_cache[s].last_context)
    \/ config.kv_evict_policy = "slide" /\ WindowFull(kv_cache[s].last_context)

\* Whatever path a step or a candidate took (cached, full, batched, batched
\* with a shared prefix), its frame is the one full forwards over the capped
\* window give, unless "slide" predicted from a full window.
RolloutsAreExact == \A s \in Sessions : done[s].base # <<>> =>
    \/ done[s].terminal = Last(RolledOut(done[s].base, done[s].seq))
    \/ /\ config.kv_evict_policy = "slide" /\ CacheCapable
       /\ Len(done[s].base) + Len(done[s].seq) > config.context_frames

\* A cache holds one entry for each frame of its context, the last pending:
\* it neither outgrows the window nor falls behind it, whatever the policy, and
\* it does not outlive its session (release(): "leaks one GPU KV-cache entry
\* per session forever").
CacheSpansWindow == \A s \in Sessions : kv_cache[s] # NoEntry =>
    /\ ~ CallAt(s, "closed")
    /\ Len(kv_cache[s].cache.layer_kv) + Len(kv_cache[s].cache.pending)
           = Len(kv_cache[s].last_context)
    /\ Len(kv_cache[s].cache.pending) = 1
    /\ Len(kv_cache[s].last_context) <= config.context_frames
=============================================================================
