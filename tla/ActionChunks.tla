----------------------------- MODULE ActionChunks -----------------------------
(***************************************************************************)
(* The chunk loop of the four policy engines: LingBot-VA                   *)
(* (models/lingbot_va.py, models/lingbot_va_pipeline.py), DreamZero        *)
(* (models/dreamzero.py, models/dreamzero_pipeline.py), the token VLA      *)
(* (models/vla.py) and Cosmos 3 (models/cosmos3.py).  A step grounds the   *)
(* session in the executed action chunk, advances its clock and predicts   *)
(* the next chunk; plan() returns the proposed actions of the current one. *)
(*                                                                         *)
(* Sessions share no state here (their interleaving is in WorldSession), a *)
(* session's calls follow each other, and any part of a call may raise; a  *)
(* host that uses the engine as a library goes on after an exception.      *)
(* Latents and actions are abstracted to the frames they stand for.        *)
(***************************************************************************)
EXTENDS Integers, Sequences, FiniteSets

CONSTANTS
    Sessions,        \* session ids
    FrameChunkSize,  \* frame_chunk_size (LingBot-VA), num_frame_per_block (DreamZero)
    ActionPerFrame,  \* action_per_frame
    MaxRows,         \* bound: rows of an executed action chunk
    MaxCalls         \* bound: step() and plan() calls of one session

ASSUME ChunkAssumption ==
    /\ FrameChunkSize \in Nat \ {0}
    /\ ActionPerFrame \in Nat \ {0}
    /\ MaxRows \in Nat /\ MaxCalls \in Nat

VARIABLES
    engine,   \* which engine is served
    loaded,   \* its _pipeline is there, injected or built
    session,  \* _Session of each id, and the call it is in
    cache,    \* the KV cache of that name (LingBot-VA, VLA)
    head      \* DreamZero: the blocks in the session's saved head state

vars == <<engine, loaded, session, cache, head>>

NoProposal == -1

\* clock: frame_st_id, current_start_frame or (VLA, Cosmos 3) the step_index of
\* the state the host holds; pending: the clock value the
\* parked proposal was made at; steps, infers: history of completed steps and
\* of infer_chunk calls that returned; torn: history of groundings that raised
\* with the video committed; broken: an infer_chunk raised.
Fresh == [pc |-> "none", clock |-> 0, pending |-> NoProposal, rows |-> 0,
          calls |-> 0, steps |-> 0, infers |-> 0, torn |-> 0, broken |-> FALSE]

Init ==
    /\ engine \in {"lingbot_va", "dreamzero", "vla", "cosmos3"}
    /\ loaded \in BOOLEAN
    /\ session = [s \in Sessions |-> Fresh]
    /\ cache = [s \in Sessions |-> <<>>]
    /\ head = [s \in Sessions |-> 0]

At(s, pc) == session[s].pc = pc
Goto(s, pc) == session' = [session EXCEPT ![s].pc = pc]

\* What a forward with update_cache leaves in the named cache: a block of
\* frames of one stream, predicted (update_cache=1) or executed (2).
Block(stream, start, frames, predicted) ==
    [stream |-> stream, start |-> start, frames |-> frames, predicted |-> predicted]

(***************************************************************************)
(* Opening a session                                                       *)
(***************************************************************************)
\* load() assigns _pipeline when the whole pipeline has been built: research
\* package, checkpoint, tokenizer, statistics.
Built(name) == engine = name /\ ~loaded /\ loaded' = TRUE /\ UNCHANGED <<engine, session, cache, head>>

BuildLingBot == Built("lingbot_va")
BuildDreamZero == Built("dreamzero")

\* What raises on the way leaves no pipeline, and a reset that fails; Cosmos
\* 3's load() does nothing else (its pipeline is injected).
LoadRaises(s) ==
    /\ engine # "vla" /\ ~loaded /\ At(s, "none")
    /\ Goto(s, "lost")
    /\ UNCHANGED <<engine, loaded, cache, head>>

\* The VLA's build_pipeline raises until the port has landed.
LoadVLARaises(s) ==
    /\ engine = "vla" /\ ~loaded /\ At(s, "none")
    /\ Goto(s, "lost")
    /\ UNCHANGED <<engine, loaded, cache, head>>

\* pipeline.reset: an empty cache under the session's name, prompt embeddings,
\* the streaming-VAE state.
ResetLingBot(s) ==
    /\ engine = "lingbot_va" /\ loaded /\ At(s, "none")
    /\ cache' = [cache EXCEPT ![s] = <<>>]
    /\ Goto(s, "encode")
    /\ UNCHANGED <<engine, loaded, head>>

\* encode_observation: one latent frame of the seed images.
EncodeLingBot(s) ==
    /\ engine = "lingbot_va" /\ At(s, "encode")
    /\ Goto(s, "idle")
    /\ UNCHANGED <<engine, loaded, cache, head>>

\* No uri or a missing camera file: the engine keeps no session, the pipeline
\* keeps its entry.
EncodeRaises(s) ==
    /\ At(s, "encode")
    /\ Goto(s, "lost")
    /\ UNCHANGED <<engine, loaded, cache, head>>

\* pipeline.reset: every saved attribute absent, the head's own clock at 0.
ResetDreamZero(s) ==
    /\ engine = "dreamzero" /\ loaded /\ At(s, "none")
    /\ head' = [head EXCEPT ![s] = 0]
    /\ Goto(s, "encode")
    /\ UNCHANGED <<engine, loaded, cache>>

\* DreamZero has no separate encoder: the seed observation is a first block.
EncodeDreamZero(s) ==
    /\ engine = "dreamzero" /\ At(s, "encode")
    /\ head' = [head EXCEPT ![s] = 1]
    /\ Goto(s, "idle")
    /\ UNCHANGED <<engine, loaded, cache>>

\* The VLA's KV cache starts from the prompt and the encoded observation.
ResetVLA(s) ==
    /\ engine = "vla" /\ loaded /\ At(s, "none")
    /\ cache' = [cache EXCEPT ![s] = <<>>]
    /\ Goto(s, "encode")
    /\ UNCHANGED <<engine, loaded, head>>

EncodeVLA(s) ==
    /\ engine = "vla" /\ At(s, "encode")
    /\ Goto(s, "idle")
    /\ UNCHANGED <<engine, loaded, cache, head>>

\* Cosmos 3 keeps nothing: the canvas goes into the host's state.
ResetCosmos3(s) ==
    /\ engine = "cosmos3" /\ loaded /\ At(s, "none")
    /\ Goto(s, "idle")
    /\ UNCHANGED <<engine, loaded, cache, head>>

(***************************************************************************)
(* step()                                                                  *)
(***************************************************************************)
StepCall(s, rows) ==
    /\ At(s, "idle") /\ session[s].calls < MaxCalls
    /\ session' = [session EXCEPT ![s].pc = "recondition", ![s].rows = rows, ![s].calls = @ + 1]
    /\ UNCHANGED <<engine, loaded, cache, head>>

\* A call that raises before anything has changed.
Refused(s, name) ==
    /\ engine = name /\ session[s].calls < MaxCalls
    /\ session' = [session EXCEPT ![s].calls = @ + 1]
    /\ UNCHANGED <<engine, loaded, cache, head>>

\* A ragged chunk (_parse_action_chunk), or a state whose session is unknown
\* or released (_session_for).
RefusedLingBot(s) == session[s].pc \in {"idle", "closed"} /\ Refused(s, "lingbot_va")
RefusedDreamZero(s) == session[s].pc \in {"idle", "closed"} /\ Refused(s, "dreamzero")
RefusedVLA(s) == session[s].pc \in {"idle", "closed"} /\ Refused(s, "vla")
\* Cosmos 3 keeps no sessions: a ragged chunk, or a plan without the action
\* statistics, whose policy call leaves nothing behind.
RefusedCosmos3(s) == At(s, "idle") /\ Refused(s, "cosmos3")

Consume(s, frames) ==
    session' = [session EXCEPT ![s].pc = "video", ![s].rows = 0, ![s].clock = @ + frames]

\* clear_pred_cache: what was executed stays, in its order.
Executed(q) ==
    LET kept == {i \in DOMAIN q : ~q[i].predicted}
    IN  [n \in 1 .. Cardinality(kept) |->
            q[CHOOSE i \in kept : Cardinality({j \in kept : j <= i}) = n]]

\* Mutant: the predicted entries stay when reality is pushed.
GroundVideoKeepingPredictions(s) ==
    /\ engine = "lingbot_va" /\ At(s, "recondition") /\ session[s].clock = 0
    /\ session[s].rows >= ActionPerFrame /\ session[s].rows % ActionPerFrame = 0
    /\ cache' = [cache EXCEPT ![s] = Append(@, Block("video", 0, 1, FALSE))]
    /\ Goto(s, "ground")
    /\ UNCHANGED <<engine, loaded, head>>

\* _recondition without an observation grounds the first chunk:
\* clear_pred_cache, the executed actions reshaped, and the first
\* update_cache=2 pass, of the seed latent,
GroundVideo(s) ==
    /\ engine = "lingbot_va" /\ At(s, "recondition") /\ session[s].clock = 0
    /\ session[s].rows >= ActionPerFrame /\ session[s].rows % ActionPerFrame = 0
    /\ cache' = [cache EXCEPT ![s] = Append(Executed(@), Block("video", 0, 1, FALSE))]
    /\ Goto(s, "ground")
    /\ UNCHANGED <<engine, loaded, head>>

\* ... then the second, of the executed actions; the clock moves when the call
\* has returned.
GroundAction(s) ==
    /\ engine = "lingbot_va" /\ At(s, "ground")
    /\ cache' = [cache EXCEPT ![s] =
                    Append(@, Block("action", 0, session[s].rows \div ActionPerFrame, FALSE))]
    /\ Consume(s, 1)
    /\ UNCHANGED <<engine, loaded, head>>

\* The reshape or the first forward raises after clear_pred_cache.
GroundVideoRaises(s) ==
    /\ engine = "lingbot_va" /\ At(s, "recondition") /\ session[s].clock = 0
    /\ cache' = [cache EXCEPT ![s] = Executed(@)]
    /\ session' = [session EXCEPT ![s].pc = "idle", ![s].rows = 0]
    /\ UNCHANGED <<engine, loaded, head>>

\* The second forward raises: the video is committed, the actions are not and
\* the clock has not moved.
GroundActionRaises(s) ==
    /\ engine = "lingbot_va" /\ At(s, "ground")
    /\ session' = [session EXCEPT ![s].pc = "idle", ![s].rows = 0, ![s].torn = @ + 1]
    /\ UNCHANGED <<engine, loaded, cache, head>>

\* Imagination: the predicted chunk stands for reality; only the clock moves.
ImagineLingBot(s) ==
    /\ engine = "lingbot_va" /\ At(s, "recondition") /\ session[s].clock # 0
    /\ Consume(s, FrameChunkSize)
    /\ UNCHANGED <<engine, loaded, cache, head>>

\* append_executed: the executed chunk enters the VLA's KV cache; the host's
\* step_index moves when the step returns.
AppendExecuted(s) ==
    /\ engine = "vla" /\ At(s, "recondition")
    /\ cache' = [cache EXCEPT ![s] = Append(@, Block("action", session[s].clock, 1, FALSE))]
    /\ session' = [session EXCEPT ![s].pc = "video", ![s].rows = 0]
    /\ UNCHANGED <<engine, loaded, head>>

\* DreamZero's recondition only clears pending_latent_video.
ReconditionDreamZero(s) ==
    /\ engine = "dreamzero" /\ At(s, "recondition")
    /\ Consume(s, FrameChunkSize)
    /\ UNCHANGED <<engine, loaded, cache, head>>

(***************************************************************************)
(* infer_chunk, from step() or plan()                                      *)
(***************************************************************************)
\* The video denoise loop; its last forward caches the predicted latents.
VideoLoop(s) ==
    /\ engine = "lingbot_va" /\ session[s].pc \in {"video", "plan_video"}
    /\ cache' = [cache EXCEPT ![s] =
                    Append(@, Block("video", session[s].clock, FrameChunkSize, TRUE))]
    /\ Goto(s, IF At(s, "video") THEN "action" ELSE "plan_action")
    /\ UNCHANGED <<engine, loaded, head>>

\* Mutant: a proposal that is already parked is kept.
ParkOnce(s) ==
    session' = [session EXCEPT ![s].pc = "idle", ![s].infers = @ + 1,
        ![s].pending = IF @ = NoProposal THEN session[s].clock ELSE @,
        ![s].steps = IF session[s].pc \in {"video", "action"} THEN @ + 1 ELSE @]

\* The call returns with its proposal parked.
Park(s) ==
    session' = [session EXCEPT ![s].pc = "idle", ![s].infers = @ + 1,
        ![s].pending = session[s].clock,
        ![s].steps = IF session[s].pc \in {"video", "action"} THEN @ + 1 ELSE @]

\* The action denoise loop and the denormalized proposal.
ActionLoop(s) ==
    /\ engine = "lingbot_va" /\ session[s].pc \in {"action", "plan_action"}
    /\ cache' = [cache EXCEPT ![s] =
                    Append(@, Block("action", session[s].clock, FrameChunkSize, TRUE))]
    /\ Park(s)
    /\ UNCHANGED <<engine, loaded, head>>

\* One joint loop on the swapped-in head, which moves on by a block.
JointLoop(s) ==
    /\ engine = "dreamzero" /\ session[s].pc \in {"video", "plan_video"}
    /\ head' = [head EXCEPT ![s] = @ + 1]
    /\ Park(s)
    /\ UNCHANGED <<engine, loaded, cache>>

\* The greedy decode of the next chunk; the step returns its new state.
DecodeVLA(s) ==
    /\ engine = "vla" /\ At(s, "video")
    /\ session' = [session EXCEPT ![s].pc = "idle", ![s].clock = @ + 1,
                       ![s].pending = session[s].clock + 1, ![s].infers = @ + 1, ![s].steps = @ + 1]
    /\ UNCHANGED <<engine, loaded, cache, head>>

\* Cosmos 3: one stateless call; the last frame is the next conditioning.
StepCosmos3(s) ==
    /\ engine = "cosmos3" /\ At(s, "recondition")
    /\ session' = [session EXCEPT ![s].pc = "idle", ![s].rows = 0, ![s].clock = @ + 1,
                       ![s].infers = @ + 1, ![s].steps = @ + 1]
    /\ UNCHANGED <<engine, loaded, cache, head>>

\* ... or it returns no frames, or raises: the host keeps the state it had.
StepCosmos3Raises(s) ==
    /\ engine = "cosmos3" /\ At(s, "recondition")
    /\ session' = [session EXCEPT ![s].pc = "idle", ![s].rows = 0]
    /\ UNCHANGED <<engine, loaded, cache, head>>

\* A forward raises: what was cached and counted before it stays.
InferRaises(s) ==
    /\ session[s].pc \in {"video", "action", "plan_video", "plan_action"}
    /\ session' = [session EXCEPT ![s].pc = "idle", ![s].broken = TRUE]
    /\ UNCHANGED <<engine, loaded, cache, head>>

(***************************************************************************)
(* plan() and release()                                                    *)
(***************************************************************************)
\* Mutant: plan() predicts a chunk whether or not one is parked.
PlanAlways(s) ==
    /\ engine \in {"lingbot_va", "dreamzero"} /\ At(s, "idle") /\ session[s].calls < MaxCalls
    /\ session' = [session EXCEPT ![s].pc = "plan_video", ![s].calls = @ + 1]
    /\ UNCHANGED <<engine, loaded, cache, head>>

\* A parked proposal is returned as it is; without one a chunk is predicted.
Plan(s) ==
    /\ engine \in {"lingbot_va", "dreamzero"} /\ At(s, "idle") /\ session[s].calls < MaxCalls
    /\ session[s].pending = NoProposal
    /\ session' = [session EXCEPT ![s].pc = "plan_video", ![s].calls = @ + 1]
    /\ UNCHANGED <<engine, loaded, cache, head>>

\* The VLA decodes its candidates, batched or one by one, on the prefix in the
\* cache, and parks the cheapest.
PlanVLA(s) ==
    /\ engine = "vla" /\ At(s, "idle") /\ session[s].calls < MaxCalls
    /\ session' = [session EXCEPT ![s].calls = @ + 1, ![s].pending = session[s].clock]
    /\ UNCHANGED <<engine, loaded, cache, head>>

\* Cosmos 3 makes a policy call and parks nothing.
PlanCosmos3(s) ==
    /\ engine = "cosmos3" /\ At(s, "idle") /\ session[s].calls < MaxCalls
    /\ session' = [session EXCEPT ![s].calls = @ + 1]
    /\ UNCHANGED <<engine, loaded, cache, head>>

Release(s) ==
    /\ At(s, "idle")
    /\ session' = [session EXCEPT ![s] = [Fresh EXCEPT !.pc = "closed"]]
    /\ cache' = [cache EXCEPT ![s] = <<>>]
    /\ head' = [head EXCEPT ![s] = 0]
    /\ UNCHANGED <<engine, loaded>>

Next ==
    \/ BuildLingBot \/ BuildDreamZero
    \/ \E s \in Sessions :
        \/ LoadRaises(s) \/ LoadVLARaises(s) \/ ResetLingBot(s) \/ EncodeLingBot(s) \/ EncodeRaises(s)
        \/ ResetDreamZero(s) \/ EncodeDreamZero(s) \/ ResetVLA(s) \/ EncodeVLA(s)
        \/ ResetCosmos3(s)
        \/ \E rows \in 0 .. MaxRows : StepCall(s, rows)
        \/ RefusedLingBot(s) \/ RefusedDreamZero(s) \/ RefusedVLA(s) \/ RefusedCosmos3(s)
        \/ GroundVideo(s) \/ GroundAction(s) \/ GroundVideoRaises(s) \/ GroundActionRaises(s)
        \/ ImagineLingBot(s)
        \/ ReconditionDreamZero(s) \/ AppendExecuted(s)
        \/ VideoLoop(s) \/ ActionLoop(s) \/ JointLoop(s) \/ DecodeVLA(s)
        \/ StepCosmos3(s) \/ StepCosmos3Raises(s) \/ InferRaises(s)
        \/ Plan(s) \/ PlanVLA(s) \/ PlanCosmos3(s) \/ Release(s)

Spec == Init /\ [][Next]_vars

(***************************************************************************)
(* Properties                                                              *)
(***************************************************************************)
Frames(b) == b.start .. b.start + b.frames - 1
Entries(s, stream, predicted) ==
    {i \in DOMAIN cache[s] : cache[s][i].stream = stream /\ cache[s][i].predicted = predicted}

\* The executed frames: frame 0, once a step has grounded it.
Grounded(s) == IF session[s].clock = 0 THEN 0 ELSE 1

\* The predicted video entries stand for the frames behind the executed ones
\* up to the end of a chunk, none twice and none missing.
TilesTheFrames(s) ==
    LET ahead == Entries(s, "video", TRUE)
        covered == UNION {Frames(cache[s][i]) : i \in ahead}
        reach == session[s].clock + FrameChunkSize - 1
    IN  /\ \A i, j \in ahead : i # j => Frames(cache[s][i]) \cap Frames(cache[s][j]) = {}
        /\ covered \in {Grounded(s) .. session[s].clock - 1, Grounded(s) .. reach}
        /\ session[s].steps > 0 => covered = Grounded(s) .. reach

\* What was executed is committed when the clock moves, the actions once, the
\* seed latent of frame 0 once and once more for each grounding that raised
\* between its two forwards.
CommitsWhatRan(s) ==
    /\ Cardinality(Entries(s, "action", FALSE)) = Grounded(s)
    /\ Cardinality(Entries(s, "video", FALSE)) = Grounded(s) + session[s].torn
    /\ \A i \in Entries(s, "video", FALSE) : Frames(cache[s][i]) = {0}

\* The VLA: an executed chunk in the cache for every step the host has seen.
OneChunkPerStep == \A s \in Sessions :
    engine = "vla" /\ At(s, "idle") /\ ~session[s].broken => Len(cache[s]) = session[s].clock

\* The clock and the KV cache agree (frame_st_id, recondition,
\* append_executed): between calls the cache of a LingBot-VA session holds what
\* was executed up to its clock and, behind it, the predicted frames of whole
\* chunks, and a VLA session has cached one executed chunk per step the host has
\* seen, whatever mixture of plans, steps, refused steps and groundings that
\* raised came before, unless an infer_chunk has raised half-way through a step.
\* (A grounding that raises between its two forwards leaves frame 0 in the cache
\* with the clock at 0, and the step that is tried again commits it again.)
CacheMatchesTheClock ==
    /\ \A s \in Sessions : engine = "lingbot_va" /\ At(s, "idle") /\ ~session[s].broken =>
            TilesTheFrames(s) /\ CommitsWhatRan(s)
    /\ OneChunkPerStep

\* plan() answers for the state it is asked about: a parked proposal was made
\* at the session's present clock ("the chunk proposed for the current
\* state"), unless an infer_chunk has raised after the clock had moved.
ProposalIsCurrent == \A s \in Sessions :
    At(s, "idle") /\ ~session[s].broken /\ session[s].pending # NoProposal =>
        session[s].pending = session[s].clock

\* Planning does not move the world: besides one chunk per step, at most one
\* more was predicted, before the first step, however often plan() was called.
\* (The VLA plans afresh each time.)
\* In DreamZero it is also the drift between the head and the engine's clock.
OneProposalPerState == \A s \in Sessions :
    engine # "vla" /\ At(s, "idle") /\ ~session[s].broken =>
        /\ session[s].infers - session[s].steps \in {0, 1}
        /\ engine = "dreamzero" =>
              /\ head[s] = 1 + session[s].infers
              /\ session[s].clock = FrameChunkSize * session[s].steps
=============================================================================
