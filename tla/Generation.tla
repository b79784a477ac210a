------------------------------ MODULE Generation ------------------------------
(***************************************************************************)
(* Clip generation: the lazily loaded engines CosmosEngine                 *)
(* (models/cosmos.py), WanEngine (models/wan.py) and StubEngine            *)
(* (runtime/stub_engine.py), and the denoising loop with step caching      *)
(* (runtime/denoise.py).                                                   *)
(*                                                                         *)
(* generate() is called by the v2 driver's thread and by one threadpool    *)
(* thread per v1 request (serving/app.py), with no lock: the pipeline, its *)
(* scheduler, its transformer and the guardrail are shared.  A step of a   *)
(* caller is what it does between two accesses to that shared state.       *)
(* Tensors are abstracted: a noise prediction is the loop step it was      *)
(* computed at, the input's relative L1 change a small number.             *)
(***************************************************************************)
EXTENDS Integers, FiniteSets

CONSTANTS
    Callers,     \* threads that call generate()
    Configs,     \* engine configurations to choose from
    FrameSizes,  \* num_frames of a request
    MaxDrift,    \* bound: relative L1 change of one step
    MaxRequests  \* bound: requests of one caller

\* CosmosConfig, WanConfig, with the request's num_inference_steps and the
\* callers that are in use.
ConfigType ==
    [engine : {"cosmos", "wan", "stub"}, callers : SUBSET Callers, guardrail : BOOLEAN,
     compile : BOOLEAN, ceiling : Nat, native : BOOLEAN, mode : {"none", "fixed", "adaptive"},
     skipEvery : Nat, warmup : Nat, threshold : Nat, floor : Nat, steps : Nat \ {0}]

ASSUME GenerationAssumption ==
    /\ Configs \subseteq ConfigType
    /\ FrameSizes \subseteq Nat /\ MaxDrift \in Nat /\ MaxRequests \in Nat
    /\ IsFiniteSet(Callers)

VARIABLES
    config,      \* the engine's configuration
    pipe,        \* _pipe: NoPipe or the number of the build it came from
    builds,      \* builds so far
    compiled,    \* builds whose transformer is the compiled one
    uncompiled,  \* _uncompiled_transformer: the build it came from
    guard,       \* _guardrail is there
    scheduler,   \* the step index of each build's scheduler
    caller       \* each caller's locals

vars == <<config, pipe, builds, compiled, uncompiled, guard, scheduler, caller>>

NoPipe == 0
NoStep == -1
\* _step_index is None
Unset == -1000

\* cached, age: the step the cached prediction is from and how old the one in
\* use is; used: the scheduler index each of the three calls of this step saw;
\* the last three are history: a generation shared the scheduler with another,
\* the guardrail was there when the request came, and it checked the request.
Idle == [pc |-> "idle", requests |-> 0, frames |-> 0, mine |-> NoPipe, step |-> 0,
         cached |-> NoStep, age |-> 0, since |-> 0, acc |-> 0, used |-> 0,
         overlapped |-> FALSE, promised |-> FALSE, text |-> FALSE, video |-> FALSE]

Init ==
    /\ config \in Configs
    /\ pipe = NoPipe /\ builds = 0 /\ uncompiled = NoPipe
    /\ compiled = {} /\ guard = FALSE
    /\ scheduler = [b \in 1 .. Cardinality(Callers) * MaxRequests |-> Unset]
    /\ caller = [c \in Callers |-> Idle]

At(c, pc) == caller[c].pc = pc
Goto(c, pc) == caller' = [caller EXCEPT ![c].pc = pc]
\* The generator ends, or raises: the locals go.
Gone(c) == caller' = [caller EXCEPT ![c] = [Idle EXCEPT !.requests = caller[c].requests]]
engineVars == <<config, pipe, builds, compiled, uncompiled, guard>>

\* A v1 response or the driver takes the first frame of generate(request).
Request(c, frames) ==
    /\ c \in config.callers /\ At(c, "idle") /\ caller[c].requests < MaxRequests
    /\ caller' = [caller EXCEPT ![c].pc = IF config.engine = "stub" THEN "yield" ELSE "load",
                      ![c].frames = frames, ![c].requests = @ + 1, ![c].promised = guard]
    /\ UNCHANGED <<engineVars, scheduler>>

(***************************************************************************)
(* load()                                                                  *)
(***************************************************************************)
Loaded == IF config.engine = "wan" THEN "call" ELSE "text"

Load(c) ==
    /\ At(c, "load")
    /\ Goto(c, IF pipe # NoPipe THEN Loaded ELSE "build")
    /\ UNCHANGED <<engineVars, scheduler>>

\* from_pretrained, and torch.compile of the transformer.
BuildCosmos(c) ==
    /\ config.engine = "cosmos" /\ At(c, "build")
    /\ builds' = builds + 1
    /\ compiled' = IF config.compile THEN compiled \cup {builds'} ELSE compiled
    /\ uncompiled' = IF config.compile THEN builds' ELSE uncompiled
    /\ caller' = [caller EXCEPT ![c].pc = "assign", ![c].mine = builds']
    /\ UNCHANGED <<config, pipe, guard, scheduler>>

\* Wan compiles both experts and keeps no way back.
BuildWan(c) ==
    /\ config.engine = "wan" /\ At(c, "build")
    /\ builds' = builds + 1
    /\ compiled' = IF config.compile THEN compiled \cup {builds'} ELSE compiled
    /\ caller' = [caller EXCEPT ![c].pc = "assign", ![c].mine = builds']
    /\ UNCHANGED <<config, pipe, uncompiled, guard, scheduler>>

\* _pipe is assigned before the guardrail is loaded.
Assign(c) ==
    /\ At(c, "assign")
    /\ pipe' = caller[c].mine
    /\ Goto(c, IF config.engine = "cosmos" /\ config.guardrail THEN "guardrail" ELSE Loaded)
    /\ UNCHANGED <<config, builds, compiled, uncompiled, guard, scheduler>>

LoadGuardrail(c) ==
    /\ At(c, "guardrail")
    /\ guard' = TRUE
    /\ Goto(c, "text")
    /\ UNCHANGED <<config, pipe, builds, compiled, uncompiled, scheduler>>

\* Assets, package or weights missing: the request fails, _pipe stays.
LoadGuardrailRaises(c) ==
    /\ At(c, "guardrail")
    /\ Gone(c)
    /\ UNCHANGED <<engineVars, scheduler>>

(***************************************************************************)
(* generate()                                                              *)
(***************************************************************************)
CheckText(c) ==
    /\ At(c, "text")
    /\ \/ caller' = [caller EXCEPT ![c].pc = "gate", ![c].text = guard]
       \/ guard /\ Gone(c)
    /\ UNCHANGED <<engineVars, scheduler>>

\* Mutant: the gate opens one frame late.
_gate_late(c) ==
    /\ At(c, "gate")
    /\ compiled' = IF uncompiled # NoPipe /\ config.ceiling > 0 /\ caller[c].frames > config.ceiling + 1
                   THEN compiled \ {pipe} ELSE compiled
    /\ Goto(c, "start")
    /\ UNCHANGED <<config, pipe, builds, uncompiled, guard, scheduler>>

\* Above the ceiling the pipeline gets an uncompiled transformer, for good.
_gate_compile_if_needed(c) ==
    /\ At(c, "gate")
    /\ compiled' = IF uncompiled # NoPipe /\ config.ceiling > 0 /\ caller[c].frames > config.ceiling
                   THEN compiled \ {pipe} ELSE compiled
    /\ Goto(c, "start")
    /\ UNCHANGED <<config, pipe, builds, uncompiled, guard, scheduler>>

InLoop(c) == caller[c].pc \in {"decide", "first", "rewind", "second"}
Sharing(c) == {d \in Callers \ {c} : InLoop(d) /\ caller[d].mine = pipe}

\* The prompts are encoded, the scheduler starts over, the latents are drawn.
SetTimesteps(b) == scheduler' = [scheduler EXCEPT ![b] = Unset]

\* denoise_cosmos_video on self._pipe, which is read again.
Start(c) ==
    /\ At(c, "start")
    /\ SetTimesteps(pipe)
    /\ caller' = [d \in Callers |->
           IF d = c THEN [caller[c] EXCEPT !.pc = "decide", !.mine = pipe, !.step = 0,
                                           !.overlapped = Sharing(c) # {}]
           ELSE [caller[d] EXCEPT !.overlapped = @ \/ d \in Sharing(c)]]
    /\ UNCHANGED engineVars

(***************************************************************************)
(* One iteration of the denoising loop                                     *)
(***************************************************************************)
\* generate(): the native loop gets the configuration's cache settings; the
\* diffusers pipeline's own loop caches nothing.
cache == IF config.native THEN [mode |-> config.mode, skipEvery |-> config.skipEvery]
         ELSE [mode |-> "none", skipEvery |-> 0]

\* A cadence without a mode is the fixed mode.
effective_mode == IF cache.mode = "none" /\ cache.skipEvery >= 2 THEN "fixed" ELSE cache.mode

fixed_skip(l) ==
    /\ effective_mode = "fixed" /\ config.skipEvery >= 2
    /\ l.step >= config.warmup /\ l.cached # NoStep
    /\ (l.step - config.warmup) % config.skipEvery # 0

\* Neither warmup, nor the last step, nor without a prediction, nor at the
\* floor: the gate decides.
gate_decides(l) ==
    /\ effective_mode = "adaptive"
    /\ l.step >= config.warmup /\ l.step # config.steps - 1 /\ l.cached # NoStep
    /\ ~(config.floor > 0 /\ l.since >= config.floor)

\* A scheduler whose index is unset takes it from the timestep.
index(c) == LET i == scheduler[caller[c].mine] IN IF i = Unset THEN caller[c].step ELSE i

\* A full forward: its prediction is cached, the adaptive bookkeeping restarts.
Forward(c) ==
    [caller[c] EXCEPT !.pc = "first", !.used = index(c), !.age = 0, !.cached = caller[c].step,
                      !.acc = IF effective_mode = "adaptive" THEN 0 ELSE @,
                      !.since = IF effective_mode = "adaptive" THEN 0 ELSE @]

\* Mutant: skipped steps are not counted towards the floor.
ReuseUncounted(c, rel_l1) ==
    [caller[c] EXCEPT !.pc = "first", !.used = index(c), !.age = caller[c].step - caller[c].cached,
                      !.acc = @ + rel_l1]

\* The cached prediction is used again.
Reuse(c, rel_l1) ==
    [caller[c] EXCEPT !.pc = "first", !.used = index(c), !.age = caller[c].step - caller[c].cached,
                      !.acc = @ + rel_l1, !.since = @ + 1]

\* scale_model_input, then a full forward or the cached prediction.
Decide(c, rel_l1) ==
    LET l == caller[c]
        skip == fixed_skip(l) \/ (gate_decides(l) /\ l.acc + rel_l1 < config.threshold)
    IN
    /\ At(c, "decide") /\ l.step < config.steps
    /\ gate_decides(l) \/ rel_l1 = 0
    /\ caller' = [caller EXCEPT ![c] = IF skip THEN Reuse(c, rel_l1) ELSE Forward(c)]
    /\ scheduler' = [scheduler EXCEPT ![l.mine] = index(c)]
    /\ UNCHANGED engineVars

\* scheduler.step: it moves the index; at the end of the sigmas it raises.
SchedulerStep(c, next) ==
    /\ IF index(c) >= config.steps
       THEN Gone(c) /\ UNCHANGED scheduler
       ELSE /\ scheduler' = [scheduler EXCEPT ![caller[c].mine] = index(c) + 1]
            /\ caller' = [caller EXCEPT ![c] = [next EXCEPT !.used = index(c)]]
    /\ UNCHANGED engineVars

\* The call for the predicted sample, guided or not.
FirstStep(c) == At(c, "first") /\ SchedulerStep(c, [caller[c] EXCEPT !.pc = "rewind"])

\* Mutant: the index stays where the first call left it.
RewindForgotten(c) ==
    /\ At(c, "rewind")
    /\ Goto(c, "second")
    /\ UNCHANGED <<engineVars, scheduler>>

\* _step_index -= 1; on an index another caller has unset it raises.
Rewind(c) ==
    /\ At(c, "rewind")
    /\ IF scheduler[caller[c].mine] = Unset
       THEN Gone(c) /\ UNCHANGED scheduler
       ELSE Goto(c, "second") /\ scheduler' = [scheduler EXCEPT ![caller[c].mine] = @ - 1]
    /\ UNCHANGED engineVars

\* The call that advances the latents.
SecondStep(c) ==
    At(c, "second") /\ SchedulerStep(c, [caller[c] EXCEPT !.pc = "decide", !.step = @ + 1])

(***************************************************************************)
(* The clip is delivered                                                   *)
(***************************************************************************)
Decode(c) ==
    /\ At(c, "decide") /\ caller[c].step = config.steps
    /\ Goto(c, "video")
    /\ UNCHANGED <<engineVars, scheduler>>

\* Mutant: the clip is returned as it is.
CheckVideoNever(c) ==
    /\ At(c, "video")
    /\ Goto(c, "yield")
    /\ UNCHANGED <<engineVars, scheduler>>

\* Face blur, or a rejection, when a guardrail is there.
CheckVideo(c) ==
    /\ At(c, "video")
    /\ \/ caller' = [caller EXCEPT ![c].pc = "yield", ![c].video = guard]
       \/ guard /\ Gone(c)
    /\ UNCHANGED <<engineVars, scheduler>>

\* Wan calls its diffusers pipeline, unguarded and ungated.
CallWan(c) ==
    /\ At(c, "call")
    /\ Goto(c, "yield")
    /\ UNCHANGED <<engineVars, scheduler>>

\* The frames are yielded, to the end or until the client leaves.
Yield(c) ==
    /\ At(c, "yield")
    /\ Gone(c)
    /\ UNCHANGED <<engineVars, scheduler>>

\* Building, encoding or a forward raises.
Raises(c) ==
    /\ caller[c].pc \in {"build", "call", "start", "decide", "first", "second"}
    /\ Gone(c)
    /\ UNCHANGED <<engineVars, scheduler>>

Next == \E c \in Callers :
    \/ \E frames \in FrameSizes : Request(c, frames)
    \/ Load(c) \/ BuildCosmos(c) \/ BuildWan(c) \/ Assign(c)
    \/ LoadGuardrail(c) \/ LoadGuardrailRaises(c)
    \/ CheckText(c) \/ _gate_compile_if_needed(c) \/ Start(c)
    \/ \E rel_l1 \in 0 .. MaxDrift : Decide(c, rel_l1)
    \/ FirstStep(c) \/ Rewind(c) \/ SecondStep(c)
    \/ Decode(c) \/ CheckVideo(c) \/ CallWan(c) \/ Yield(c) \/ Raises(c)

Spec == Init /\ [][Next]_vars

(***************************************************************************)
(* Properties                                                              *)
(***************************************************************************)
\* How stale a noise prediction may be (cache_skip_every,
\* cache_force_full_every): with a cadence N it is at most N - 1 steps old, with
\* a floor N > 0 at most N, without caching it is the step's own; the last step
\* of an adaptive run is never a cached one.
StalenessIsBounded == \A c \in Callers :
    At(c, "first") =>
        /\ effective_mode = "none" => caller[c].age = 0
        /\ effective_mode = "fixed" => caller[c].age < (IF config.skipEvery >= 2 THEN config.skipEvery ELSE 1)
        /\ effective_mode = "adaptive" =>
              /\ config.floor > 0 => caller[c].age <= config.floor
              /\ caller[c].step = config.steps - 1 => caller[c].age = 0

\* The two scheduler calls and the rewind of an iteration keep the scheduler's
\* index with the loop: a generation that shared the scheduler with no other
\* takes every sigma of step i from index i and ends on the last one.
SchedulerFollowsTheLoop == \A c \in Callers :
    InLoop(c) /\ ~caller[c].overlapped =>
        /\ caller[c].pc \in {"first", "rewind", "second"} => caller[c].used = caller[c].step
        /\ At(c, "decide") /\ caller[c].step > 0 => scheduler[caller[c].mine] = caller[c].step

\* The ceiling of the compile gate (compile_max_frames): no forward above it
\* runs the compiled transformer, whatever requests came before or run beside
\* it, as long as the pipeline was built once.
CompiledWithinCeiling == \A c \in Callers :
    /\ config.engine = "cosmos" /\ config.ceiling > 0 /\ builds = 1
    /\ InLoop(c) /\ caller[c].mine \in compiled
    => caller[c].frames <= config.ceiling

\* Once the guardrail is there, a request that comes delivers no frame it has
\* not checked, text and video (CosmosEngine.generate).
GuardedOnceLoaded == \A c \in Callers :
    At(c, "yield") /\ caller[c].promised => caller[c].text /\ caller[c].video
=============================================================================
