# A TLA+ model of the Repercep runtime

Repercep serves world models: a FastAPI gateway takes requests, a Rust router
and a Rust scheduler hand them to one engine thread, and frames stream back.
Beside that path it proxies LLM traffic with per-customer keys, quotas and a
usage ledger, and keeps interactive sessions over websockets. This directory
holds TLA+ modules of the parts with interleavings, failures and bookkeeping,
the TLC configurations that check them on small instances, and TLAPS proofs for
all instances. Paths below are relative to the repository root (`src/`).

## 1. Inventory

| component | state it keeps | operations | what is hard |
|---|---|---|---|
| Scheduler, `crates/repercep-scheduler` | three priority buckets, `known`, skip-set `cancelled`, shutdown flag, a `Notify` | `submit`, `next`, `next_blocking(timeout)`, `cancel`, `shutdown` | check-then-await races, a wakeup given to a future that is dropped, lazily skipped cancels |
| Router, `crates/repercep-router` | `requests` map (state, sender, receiver, last index), shutdown flag | `accept` (insert, submit, roll back), `push_frame` (validate, send, finish), `subscribe`, stream, `cancel`, `shutdown` | three-phase push without a lock held, rollback while others look, senders that keep a stream open |
| Serving v2, `serving/app.py`, `serving/driver.py` | staged payloads, driver thread, push coroutines, lifespan | POST stream, cancel, driver loop, `_push` with 30 s timeout, `stop` | three threads, disconnects, late pushes, shutdown in every stage |
| Latent cache, `crates/repercep-cache`, `runtime/latent_cache.py` | page map, next id | `allocate`, `touch`, `unpin`, `release_request`, `stats` | eviction order, pinned pages, ids that outlive their page |
| Keys and ledger, `serving/tenancy.py`, `serving/usage.py` | SQLite tables | `create`, `revoke`, `authenticate`, `record`, `tokens_since`, `summary`, the CLI's key and usage commands | an operator in another process, quota check long before the bill |
| LLM proxy and metering, `serving/llm_proxy.py`, `serving/metering.py` | the response being metered | `_proxy_post_stream`, `feed`, `finish` | bytes cut anywhere, disconnect anywhere, `finish` twice |
| Interactive sessions, `serving/app.py`, `models/dreamzero*.py`, `models/lingbot_va*.py` | `active_sessions`, engine and pipeline session tables, the action head | websocket loop, `reset`, `step`, `release`, swap in / out | engine calls of different sessions on different threads, lazy `load`, exceptions between two tables |
| V-JEPA2-AC, `models/vjepa2_ac.py` | per-session KV cache, warm-start mean, a patched global function | `reset`, `step`, `plan` by three scorers, `release` | cache reuse while planning branches, eviction at a full window, forwards that raise |
| policy engines, `models/lingbot_va*.py`, `dreamzero*.py`, `vla.py`, `cosmos3.py` | frame clock, parked proposal, KV entries of predicted and executed frames | `load`, `reset`, `step` (ground, advance, predict), `plan`, `release` | a raise between two of those, planning before the first step |
| generation engines, `models/cosmos.py`, `models/wan.py`, `runtime/stub_engine.py` | the pipeline, its compiled and uncompiled transformer, the guardrail | lazy `load`, compile gate, `generate` | two threads in `load` and `generate` with no lock |
| Denoising loop, `runtime/denoise.py` | cached prediction, accumulator, the scheduler's index | step caching in three modes | boundaries of warmup, cadence, last step; one scheduler for all |
| attention, `attention/`, `backend/`, `kernels/triton_kernels/`, `kernels/cpu/` | op registries, diffusers' active backend, the autotune cache file | choosing an op, the bridges, the tile loops, tuning and saving | an op that accepts what its kernel rejects, partial tiles, two processes and one file |
| Python fallbacks, `runtime/router.py`, `runtime/scheduler.py` | as the Rust ones | as the Rust ones | asyncio queues used from another thread |
| HIP kernels, quantization, probing, bench, scripts | weights, devices | numerics and I/O | outside model checking |

Calls between them: the HTTP handler stages a payload in `_SchedulerAdapter`
and calls `router.accept`, which calls `scheduler.submit` through the adapter;
the driver thread blocks in `scheduler.next_blocking`, iterates the engine and
sends each frame back with `run_coroutine_threadsafe(router.push_frame)`; the
handler drains the router's stream into the response. The gateway's auth
dependency guards every route; the proxy reports each call to a sink in
`app.py` that writes the ledger the quota check reads.

`PROJECT.json` lists every component with its status and every hazard with the
line where it bites and the properties aimed at it.

## 2. Modules

| module | models | state and actions |
|---|---|---|
| `PriorityQueue` | what a scheduler promises | `pending`, `taken`, `withdrawn`; Submit, Take (the most urgent, then the oldest), Withdraw |
| `Scheduler` | `lib.rs` of the scheduler crate | the buckets, the `Notify` (permit and per-waiter wakeups) and one program counter per caller and consumer; one action per section between lock, atomic and await |
| `Router` | `lib.rs` of the router crate | entries, channels with their senders, and for each thread the call it is in; `push_frame` is validate / send / finish, `accept` is insert / submit / rollback |
| `Serving` | `app.py` v2 path, `driver.py`, the binding `PyRouter::accept` | instances of `Router` and `PriorityQueue`, plus handlers, driver, push tasks, lifespan. The loop, the driver thread and the tokio tasks interleave; a cancel with the scheduler's lock taken is two steps |
| `LatentCache` | the cache crate | `pages`, `next_id`; one action per method |
| `Gateway` | `tenancy.py`, `usage.py`, auth in `app.py`, `llm_proxy.py` | key table, ledger, month, calls in flight; authenticating, checking the quota, sending, streaming, closing are separate steps |
| `Metering` | `metering.py` and `metered()` | a response as abstract bytes, the `ResponseMeter`, what was forwarded |
| `WorldSession` | websocket handler, DreamZero engine and pipeline | slots, both session tables, the builds of the pipeline, the action head; one action per step of an engine call |
| `LatentRollout` | `vjepa2_ac.py` | contexts as sequences of frame terms, the KV cache as what its entries depend on; a step or a candidate is guard / forward / apply |
| `ActionChunks` | the four policy engines | clock, parked proposal, blocks in the named cache, DreamZero's head; one action per part of a call that can raise |
| `Generation` | `cosmos.py`, `wan.py`, `stub_engine.py`, `denoise.py` | the shared pipeline, guardrail and scheduler index, each caller's locals; a step is what a thread does between two accesses to shared state |
| `FlashKernel` | the tile loop and tuning grids of the Triton kernels, the AMX loop, the unfused FP8 op | operators only: online softmax in exact powers of two, against `Softmax`, with scale, kind and masks |
| `AttentionOps` | ops, registries, backends, capabilities | operators only: functions of a host and a problem |
| `Attention` | attention calls of processes on one host | composes the two above; activation, resolve, launch, tune, and the save of the cache file by inode |
| `MC*` | | TLC instances; the symmetry sets are interchangeable names |
| `SchedulerProofs`, `RouterProofs`, `ServingProofs`, `WorldSessionProofs`, `ActionChunksProofs`, `GenerationProofs` | | inductive invariants, theorems and their proofs, each for the module it is named after |
| `GatewayProofs`, `EngineProofs` | | the same for `Gateway` and `Metering`, and for `LatentCache`, `LatentRollout` and `Attention` |

External parts are modelled from their use and marked so in the map: tokio's
`Notify` and `mpsc`, asyncio's task scheduling, the upstream's bytes. Definitions
named after a bug (`...Twice`, `...Forgotten`) with a "Mutant" comment are not
part of any specification: each is a plausible mistake that the named property
must catch.

History variables: `accepted`, `delivered`, `revoked` (Scheduler), `refused`,
`lost`, `revoked_at` (Gateway), `unfinished` (Serving), `used`, `ran` (WorldSession), `done`
(LatentRollout), `steps`, `infers`, `torn`, `broken` (ActionChunks), `overlapped`,
`promised`, `text`, `video` (Generation) and `clash` (Attention) record the past
for the properties and guard nothing.

## 3. Runs

All pass.

* `scheduler` (capacity 2): `len()` is what is outstanding, no lost wakeup,
  shutdown wakes all, every behaviour is one of `PriorityQueue` under the mapping
  `pending <- outstanding`, and every request is served or cancelled. Each
  behaviour has one of four casts (`MCScheduler!Casts`): three requests of two
  priorities, so that the queue is full and a cancelled request lies between two
  live ones; two callers; two consumers, for a wakeup given to a future that is
  then dropped; and two of each over one request.
* `router` (1 id accepted twice, 3 threads, depth 0 rounded up to 1, frames 0
  and 1): order of streams, truthful end of stream, and finished streams end.
  Requests share nothing in the router but the map and the flag, so one id that
  can be rolled back and accepted again carries the races; three threads are an
  accept or cancel, a push and a subscribe.
* `serving_safety` (2 requests, 2 push tasks, 1 or 2 frames, capacity 1) and
  `serving_live` (1 request): the end-to-end path with disconnects, cancels,
  engine failures, push timeouts, shutdown, and an accept that fails before the
  adapter is called, in it, or with no `RouterError`. Each frame is final or not as
  the engine's own total has it, and the engine stops when it likes, so a stream
  may end without a final frame and with or without the marker.
  `DriverPushJustified` discharges the assumption `DriverPush` under which
  `router` is checked. `EveryResponseEnds` names the exceptions: a request
  stranded by the shutdown, and the two ends of section 5 that the driver does
  not close.
* `latent_cache` (3 pages, 2 requests, 4 allocations, frames -1..1, 2 steps).
* `gateway` (1 key, quota 1, 2 concurrent calls, 3 calls in all, 2 months, every
  combination of key store, shared token and ledger configured or not).
* `metering` (every stream of up to 3 lines of 7 kinds with or without its last
  newline, every body around a limit of 2 bytes; every chunking, every point of
  giving up). Three lines are a suppressed event, a line after it, an empty line.
* `world_session` (2 connections, 1 or 2 slots, 2 messages, engine loaded or not).
* `latent_rollout` (1 session, 2 actions, windows of 3 and of 1 frame, 12
  configurations, 3 states to branch from, plans of 2 candidates and horizon 2):
  the cache equals what recomputation would give, every path predicts the frame
  full forwards predict, the cache spans the window and dies with its session.
  Three states and a window of three are a branch that returns to an older state
  and a step beyond the full window. Sessions share only the attention guard.
* `action_chunks` (1 session, chunks of 2 frames with 2 actions each, executed
  chunks of 0 to 4 rows, 5 calls, each engine): the KV entries are what was
  executed and, behind it, whole predicted chunks; the two forwards that ground the
  first step are two actions, and either may raise; a parked proposal
  is the present state's, planning moves nothing.
* `generation` (2 callers with 2 requests each on short loops; one caller on 7
  steps in every cache mode with cadence and floor 0..3 and warmup 0..2): bounded
  staleness, the scheduler's index with the loop, the compile ceiling, everything
  checked once the guardrail is there.
* `attention` (31 kinds of host, 25 problems on GPU or CPU tensors by four routes;
  two tuning processes, 2 calls each, 4 inodes): results are the attention asked
  for, exactly the known kinds of call raise, FP8 only on request, what is served
  is declared, and a tuned shape stays tuned unless two saves overlapped. The
  problems differ from a plain one in a feature at a time: kind (neighborhood
  among them), mask, scale, dtype (FP8 tensors among them), device, unequal lengths
  with and without causality, finiteness. The hosts differ in GPU, packages, CPU
  flags and settings; some have a library that refuses a dtype, one a disk that
  fails. Lengths 2 to 5 with tiles of 1, 2 and 4 give whole and partial tiles; the
  length thresholds are scaled to lie inside that range.

`CHECK_DEADLOCK FALSE` is set where the system may rest: all requests or calls
made, the server stopped, every connection closed. The type invariants are the
base of the proofs.

### Fairness

Weak fairness of a started call's next step (threads and tokio tasks run), of a
consumer's loop (the driver calls `next_blocking` in a loop), of the idle timer
and of engine calls (they end: they return or raise). Strong fairness is assumed
in `Serving` only, of a handler's and of a push coroutine's next step on the
event loop: each is disabled while another runs, and asyncio runs its ready
queue first in, first out. No fairness is assumed of clients, cancels, timeouts,
failures or shutdown, except that `world_session` lets an idle timer fire once a
client's bounded messages are used up: a client that keeps sending, even invalid
messages, keeps its slot in the code too.

## 4. Proofs

Every theorem holds for all values of the constants that satisfy the module's
named assumption. Each module proves an inductive invariant (`Inv` or the
conjunction named below; TLC evaluated each on the run's instance before it was
proved) and takes the theorems from it.

`SchedulerProofs`. `SchedulerTypeCorrect`, with lemmas on what `PopNext` leaves
of the buckets; relative to it `SchedulerNoLostWakeup` and
`SchedulerShutdownWakesAll`. The wakeup argument is that a pushed request is
followed by a `submit_notify` owed by its caller, a permit, or a woken task, and
that a task only blocks after it found the buckets empty while armed.
`SchedulerQueueInvariant`, `SchedulerLenIsOutstanding` and
`SchedulerImplementsPriorityQueue` assume `ReuseIds = FALSE` in the statement: an
id submitted twice shares one skip-set entry and `len()` is then wrong in the
code too. Their invariant says that the buckets' live entries are exactly what was
accepted, not delivered and not revoked, that the skip-set is exactly the revoked
entries still in a bucket, and that each bucket is in the order of submission. The last theorem is
the whole safety refinement: initial states map to initial states, each step to
one of `PriorityQueue` or a stutter.

`RouterProofs`. `RouterTypeCorrect` for any callers. `StreamsAreWellFormed` and
`EndOfStreamIsTheEnd` under `DriverPush`: their `RouterInvariant` says that an
entry has its Sender exactly while it is live, that a thread inside `accept`
owns the entry it inserted, that pushes of one id do not overlap, and that
`last_frame_index` is never behind the channel, since `push_frame` records the
index before it sends.

`ServingProofs`. `PayloadsAreConsumed`: whatever refuses a request, no payload,
router entry or queue place is left of it; its invariant follows the accept through
the loop's call, so that what was inserted is rolled back before the handler
answers. `DriverAwaitsItsPushes` is the
assumption `DriverPush` for the server's own driver: after a push that timed out
the driver leaves the request for good, and the scheduler hands a request out
once. `ServingDrivesTheRouter` then shows that every step of the server is one of
the router with `DriverPush`, so the theorems of `RouterProofs`, instantiated
with `DriverPush` true, hold of it (`RouterIsAssumed` discharges `RouterAssumption`): `ClientsSeeTheEnd` and
`ClientsStreamsAreOrdered` say of the server's own streams what `RouterProofs`
says of the router's. Assumed: finitely many ids, task names distinct from the
threads' and from the driver's places.

`EngineProofs`, latent cache. Inductive are `TypeOK` (every id in the map is below
`next_id`) and the capacity bound; cardinalities come from FiniteSetTheorems.
`CacheTypeCorrect`, `CacheCapacity` and the action properties
`CachePinnedSurvives`, `CacheIdsAreStable`, `CachePastFramesGoFirst`.

`EngineProofs`, rollouts: `CacheIsAlwaysRecomputation`, `RolloutsAreAlwaysExact`,
`CacheAlwaysSpansWindow`. `RolloutInv` says that a session's cache is what
`InitCache` makes of the context it was filed under, and that each call's window
is the slid window after the actions taken so far, exactly. The recursion over
the horizon is a function that is shown to exist and to be unique; what holds at
every length is shown from a least length at which it would fail. No bound on
windows, horizons, candidates or sessions (`RolloutAssumption`).

`EngineProofs`, attention: `Fp8IsAlwaysOptIn`, `ServedOpIsAlwaysDeclared`,
`RaisedCallsAreAlwaysKnown`, `TunedShapesAlwaysStayTuned`. `AttentionInv` says of
each process which op its route can have chosen for the call it is in, that the
kernel of a call in progress runs on its host and that a save in progress is on a
host that tunes, so that what can raise later is the fallback or the save; and of
the files that, as long as no two saves have overlapped, a process that saves is the
only one, its temporary file is not the cache file, and it holds every shape on
file. For every host, problem and number of processes (`AttentionAssumption`).
`ResultsAreAlwaysTheAttentionAsked` adds `ResultInv`: a kernel has in hand, and the
cache file holds, only tiles of the grids, and what a call in progress has computed
is the softmax it was asked for. The kernels' part is `LoopRuns`: after n tiles a
row's maximum, sum and accumulator are those of the softmax over the keys of these
tiles, and the keys a tile has past the end add nothing; `AllRows` then says that
every row is stored by one program, for all lengths, scores and tiles of the
grids. The same lemma carries the AMX loop (`LoopedIs`, `AmxRows`): stopping at the
diagonal leaves out only keys a causal row does not see, and a length that is a
multiple of the tile leaves none unread. `Fits` says which op may serve which
problem by which route, and `Answers` what may be returned for it. The rescaling
is exact because powers of two divide; that powers, sums
over sets and the loop exist as functions is shown as for the rollouts. Assumed of a
problem (`IsProblem`): lengths of at least one, scaled scores in `0 .. MaxScore`,
and that the causal flag and the causal kind go together; of an AMX tile, that it
is 1, 2 or 4 (32 in the code).

`GatewayProofs`. `GatewayTypeCorrect`, `CallsAreCountedOnce`,
`NothingNewAfterRevocation`, from an invariant that a call's number is in one
place and that whoever was let in before a revocation has an older number.
`CallsAccounted` and `OvershootIsBounded` are about sums over the ledger. The
folding operator is a recursive function on the subsets of the row numbers; the
module shows that this function exists and is unique, and from it what one element
more adds, that a part's sum is no larger than the whole's and that counting apart
sets counts their union, each by a smallest set at which it could fail. The
invoice follows from the first invariant; the overshoot has its own, `Billing`:
a call carries its key's quota, no more tokens are counted since a later month,
and once this month's quota is used up the rows beyond it and the calls that had
passed the check are together fewer than the calls worked on at a time.
Assumed: a finite number of calls at a time, at least one, and at least one month.

`GatewayProofs`, metering: `LinesAreForwarded`, `BillIsWhatWasReported` and
`MeterTypeCorrect`, from `MeterKeepsUp`: the buffer is the bytes after the last
newline, `drop_next_blank` is set exactly when the last line that ended was a
hidden usage event, the counts are those of the lines ended so far, and what was
forwarded selects the bytes of the shown ones. Lines are described without
recursion, by where they start and which newline ends them, so that the bytes of
a chunk can be added one at a time: the function in `Fed`, like that of
`FlattenSeq` in the response, is shown to exist. No bound on the lines, the body
or the chunks (`MeteringAssumption`).

`WorldSessionProofs`. `SlotsAlwaysCounted`, `ResidentStateOwned` and
`OneSlotIsolates`. The invariant says of each place of a handler which tables
hold its session and what its attributes contain; builds are bounded because only
a handler that found no pipeline builds one, and with one slot at most one handler
is between `swap_in` and `swap_out`.

`ActionChunksProofs`. `PlanAnswersForTheState`, `PlanningIsIdempotent` and
`OneCachedChunkPerStep`, from an invariant that counts chunks predicted, steps,
DreamZero's head and the VLA's cache against each other at every place of a call.
`CacheAlwaysMatchesTheClock` has its own, in two parts for each place of a call.
`Committed` counts what was executed: one entry of actions once the clock has
moved, and of frame 0 one more for each grounding that raised between its forwards.
`Tiled` says how far the predicted video entries reach, and that they neither
overlap nor leave a frame out. `clear_pred_cache` leaves exactly the executed
entries, by which the second part starts anew.

`GenerationProofs`. `CachedPredictionsAreFresh` (the age of the cached prediction
is the steps since a multiple of the cadence, or since the floor's last forward),
`IndexFollowsTheLoop`, `NoCompiledForwardAbove` (builds can be numbered by the
requests that made them, and a gate that shut stays shut) and
`PromisedChecksAreMade`. Assumed: finitely many callers.

Only model-checked:

* Liveness and every use of fairness (`EveryRequestServed`, `FinishedStreamsEnd`,
  `EveryResponseEnds`, `SilentClientsAreFreed`): out of the prover's reach.

## 5. Where code and text differ

Statements of the repository that the models show the code does not keep; the
runs check what does hold.

* `serving/app.py:356`: the lifespan marks "the router shutting down so any
  in-flight subscribers see end-of-stream cleanly". `Router::shutdown` only sets
  the flag: a queued request keeps its sender and its response stays open; so
  does the running one when the 5 s join timed out before the driver's cancel.
  (`EveryResponseEnds` without `Stranded` is violated.)
* `serving/app.py:303`: "overshoot its quota by at most one call". Every call in
  flight when the quota is reached adds its tokens (`OvershootIsInFlightOnly` is
  the bound that holds).
* `dreamzero_pipeline.py:21`: "one resident model serves N sessions without
  cross-talk". Two threads interleave between `_swap_in`, the forward and
  `_swap_out`; with one slot it holds (`OneSlotIsIsolated`).
* `cosmos.py:54`: with `enable_guardrail` the guardrail runs "around generation
  (text + video)". `load()` publishes the pipeline first (line 197): a request
  that comes while the guardrail loads, or after it failed to load, is unchecked
  (`GuardedOnceLoaded` is what holds).
* `vjepa2_ac.py:1129`: the SDPA guard is "scoped to a single forward; serving is
  single-threaded per engine"; `app.py:596` runs sessions on threadpool threads,
  so a forward can run unpatched and fail, and the patch can outlive both.
* `cosmos.py:236`: the gate swaps the transformer "for this request"; it stays
  swapped. `cache_force_full_every` "every N steps" gives one every N + 1.
* `cuda.py:75-79`: on Ampere and Ada "the FP8 Triton kernel disqualifying itself".
  `supports()` asks for neither architecture nor device, so on Ampere the op is
  chosen and its launch raises (in `KnownToRaise`), and on Ada it runs.
* `attention/protocol.py:32`: `supports()` is "True if this op can correctly run the
  given problem shape and dtype". `NaiveAttention.supports` is always true and the last candidate, so
  neighborhood attention is served as full attention (`ResultIsTheAttentionAsked`
  names the case).
* `driver.py:286-288`: the marker is there "so the subscriber closes cleanly" when
  the last frame was not final. It is not pushed for an engine that yields no frame
  or stops after exactly `num_frames` frames of a total it put higher: no frame is
  final, nothing is cancelled and the response stays open (`EveryResponseEnds`
  without `unfinished` is violated).
* `repercep-router/src/lib.rs:594`: a payload that does not serialise "surfaces as a
  RouterError rather than a TypeError". What `json.dumps` raises goes through `?` as
  it is; `app.py:463` catches only `RouterError`, so the staged payload stays with
  the adapter (`NoPayloadLeak` names the case). One that serde_json refuses does
  become a `RouterError`.
* `repercep-router/src/lib.rs:87`: "Terminal states do not transition further". A
  cancel between the send of the final frame and the last phase of `push_frame`
  is overwritten: `Cancelled` becomes `Complete` (line 412).

Behaviour no text contradicts, worth knowing:

* Serving: a disconnect interrupts `body_iter` with `CancelledError` or
  `GeneratorExit`, which `except Exception` (`app.py:481`) does not see, and the
  driver runs the request for nobody. A cancel by the driver between accept and
  subscribe turns into a 500.
* Router and scheduler: a refused frame (`Backpressure`) has already recorded its
  index, so sending it again is `OutOfOrder`; cancelled requests stay in the
  buckets until popped over; router entries are never removed. `submit()` may push
  after a shutdown that it did not see (lib.rs:218), and an id submitted twice
  shares one skip-set entry (lib.rs:229; the server never does).
* The fallback router's cancel puts its end marker into an `asyncio.Queue` from
  the driver thread (`router.py:133`), which need not wake the loop.
* Gateway: a key store or ledger whose read raises answers 500 and bills nothing
  (`Arrive`, `CheckQuota`). Quota refusals cover `/v1/usage` and cancel too, the websocket route
  checks the key but not the quota; a chained sink that raises drops the
  gateway's row (`llm_proxy.py:112`). An injected usage event without its last
  newline is forwarded to the client.
* Sessions: `load()` is check-then-build, and a second build replaces the first,
  whose session then fails on its next step; a reset whose `encode_observation`
  raises leaves the pipeline's entry behind (`dreamzero.py:338`,
  `lingbot_va.py:224`); the slot is freed before the release (`app.py:602`). In
  V-JEPA2-AC a second thread can see the encoder before `_tokens_per_frame`.
* Policy engines: LingBot-VA's first step pushes the action frames from 0 while
  the clock moves by one; an `infer_chunk` that raises after the clock moved leaves
  a stale proposal and a gap; the one row that `plan()` returns makes a first step
  raise after `clear_pred_cache`. A grounding that raises between its video and its
  action forward leaves frame 0 in the cache with the clock at 0, and the step that
  is tried again commits it once more (`torn`). DreamZero's `plan()` before the first step
  advances the head by a block. A VLA step retried after a failed decode caches
  the executed chunk twice.
* Generation: overlapping generations move each other's scheduler index; two
  builds that race can run the compiled transformer above the ceiling. A copy of
  `nltk_data` that dies half-way (`cosmos.py:371`) is taken for complete later.
* Attention: overlapping saves lose entries, tear the file, or raise
  `FileNotFoundError` out of an attention call, as a full disk or a read-only cache
  directory raise `OSError`: only `AttributeError` and `KeyError` are caught
  (`fp8_flash_attn.py:598`), and the finished call is lost. A flash op aligns the
  causal mask of unequal lengths with the last key where SDPA aligns it with the
  first. TransformerEngine's and the scaled_mm op's `supports()` take FP8 tensors.
  Neither bridge asks for the device: CPU tensors reach a Triton kernel and, on a
  host with AMX, GPU tensors the AMX one, which raises. The AMX ops' `supports()` tests
  neither self-attention nor a multiple of 32 that the native kernel insists on;
  the scaled_mm op counts as available with `_scaled_mm` alone and then calls
  `_scaled_grouped_mm`; ROCm's capabilities list no FP8 op and IPEX is served
  without being listed on CPUs without AMX; the ROCm backend's `attention_op`
  always asks for MI300X; nothing calls the AMX bridge's `maybe_activate_from_env`,
  registers the Ada op or calls `quantize.py`.

## 6. Abstractions and bounds

Payloads, prompts and pixels are dropped; a frame is its index and whether it is
final. Locks held across no await make their section one step. A credential is
its kind; time is the month number; tokens are small naturals; an SSE payload is
its kind and two bytes, a body its length. Bounds are constants named `Max...`.
`QueueDepth = 0` is the caller's argument, which the code rounds up to 1.

A forward of V-JEPA2-AC is a term of the frames and actions it was given, so two
predictions are equal exactly when they were computed from the same things. A
latent or action chunk is the frames it stands for, a noise prediction the step it
was computed at, the change of an input a small number. Attention scores are small
integers and `exp` a power of two, so the softmax is exact; quantisation error is
not modelled, only whether a result is finite; on inputs that are not finite nothing
is claimed of a result (the int8 AMX kernel turns a NaN into a number). A scale is
a small factor on the score, of which 1 stands for the default. What flash wheels,
IPEX, TransformerEngine and SDPA do is external: they compute the attention of the
tensors, the causal flag and the scale they are given, on a device of theirs. Which
dtypes and head dimensions an installed release refuses is a field of the host
(`rejects`), so no property depends on it. That a disk fails is another (`faulty`).
A Triton kernel that cannot be launched raises in the step of the call; nothing
shared has changed by then. The AMX fp16 op calls SDPA, as its scaffold does. What a
row gets whose masks leave it no key is left open.

## 7. Plan for the proofs

Every safety invariant and action property that a run checks is a theorem; the
liveness properties stay with TLC.

## 8. Not modelled

* Floating point: the HIP kernel, and what the AMX kernels do inside a tile (their
  arguments and loop are modelled), quantisation, tokenisation, action
  normalisation, encoders and decoders.
* The sampling of the V-JEPA2-AC planner: which candidates CEM draws is any choice.
* The Python fallback router. It is used only when the Rust extension is missing;
  its race is described above.
* Device probing, argument parsing, environment settings, asset downloads: I/O.
* Benchmarks, profiling and scripts: not part of the running system.
