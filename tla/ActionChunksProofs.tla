-------------------------- MODULE ActionChunksProofs ---------------------------
(***************************************************************************)
(* Machine-checked facts about ActionChunks, for every set of sessions,    *)
(* every chunk size and every bound.                                       *)
(***************************************************************************)
EXTENDS ActionChunks, SequenceTheorems, FiniteSetTheorems, TLAPS

(***************************************************************************)
(* The inductive invariant                                                 *)
(***************************************************************************)
\* The places of a session that is not open, of every engine's calls, of those
\* with a separate prediction and of LingBot-VA's second loop.
Shut == {"none", "encode", "lost", "closed"}
Predicting == {"video", "plan_video"}
SecondLoop == {"action", "plan_action"}
Pcs == Shut \cup {"idle", "recondition", "ground"} \cup Predicting \cup SecondLoop
Engines == {"lingbot_va", "dreamzero", "vla", "cosmos3"}

SessionType ==
    [pc : Pcs, clock : Nat, pending : Int, rows : Nat, calls : Nat, steps : Nat, infers : Nat,
     torn : Nat, broken : BOOLEAN]
Blocks == [stream : {"video", "action"}, start : Nat, frames : Nat, predicted : BOOLEAN]

Types ==
    /\ engine \in Engines
    /\ session \in [Sessions -> SessionType]
    /\ DOMAIN cache = Sessions /\ cache = [s \in Sessions |-> cache[s]]
    /\ head \in [Sessions -> Nat]

\* Which calls each engine has; what is not open has no history.
Places(l) ==
    /\ l.pc \in SecondLoop \cup {"ground"} => engine = "lingbot_va"
    /\ l.pc \in Predicting => engine # "cosmos3"
    /\ l.pc = "plan_video" => engine # "vla"
    /\ l.pc \in Shut => /\ l.clock = 0 /\ l.steps = 0 /\ l.infers = 0
                        /\ l.pending = NoProposal /\ ~ l.broken /\ l.torn = 0
    /\ engine = "cosmos3" => l.pending = NoProposal

\* Between the calls and until the clock moves, what is parked was made at the
\* clock.
Current(l) ==
    l.pc \in {"idle", "recondition", "ground"} /\ ~ l.broken => l.pending \in {NoProposal, l.clock}

\* A chunk is predicted by every step, and by a plan that finds none parked:
\* that is only before the first.
Counted(l) ==
    engine # "vla" =>
        /\ l.infers - l.steps \in {0, 1}
        /\ l.pending = NoProposal \/ l.pc \in {"plan_video", "plan_action"} => l.infers = l.steps

\* DreamZero's head is a block ahead of the chunks predicted; its clock moves a
\* chunk before the step has counted it.
HeadCounted(l, h) ==
    engine = "dreamzero" =>
        /\ l.pc \notin Shut => h = 1 + l.infers
        /\ ~ l.broken /\ l.pc \in Pcs \ {"video"} => l.clock = FrameChunkSize * l.steps
        /\ ~ l.broken /\ l.pc = "video" => l.clock = FrameChunkSize * l.steps + FrameChunkSize

\* The VLA caches the executed chunk a forward before the host's clock moves.
CacheCounted(l, q) ==
    engine = "vla" =>
        /\ q \in Seq(Blocks)
        /\ l.pc \in {"encode", "idle", "recondition"} /\ ~ l.broken => Len(q) = l.clock
        /\ l.pc = "video" /\ ~ l.broken => Len(q) = l.clock + 1

Own(l, h, q) == Places(l) /\ Current(l) /\ Counted(l) /\ HeadCounted(l, h) /\ CacheCounted(l, q)

Inv == Types /\ \A s \in Sessions : Own(session[s], head[s], cache[s])

(***************************************************************************)
(* A step of one session                                                   *)
(***************************************************************************)
LEMMA SessionTypes ==
    ASSUME Inv, NEW s \in Sessions
    PROVE  /\ session[s] \in SessionType /\ head[s] \in Nat /\ engine \in Engines
           /\ Own(session[s], head[s], cache[s])
           /\ session[s].clock \in Nat /\ session[s].pending \in Int /\ session[s].rows \in Nat
           /\ session[s].calls \in Nat /\ session[s].steps \in Nat /\ session[s].infers \in Nat
           /\ session[s].torn \in Nat
BY DEF Inv, Types, SessionType

\* What a step leaves alone it sets to what it was.
LEMMA Unmoved ==
    ASSUME Inv, NEW s \in Sessions
    PROVE  head = [head EXCEPT ![s] = head[s]] /\ cache = [cache EXCEPT ![s] = cache[s]]
BY DEF Inv, Types

\* A step of one session keeps the invariant when what it leaves of that session does.
LEMMA SessionStep ==
    ASSUME Inv, NEW s \in Sessions, NEW l \in SessionType, NEW h \in Nat, NEW q,
           session' = [session EXCEPT ![s] = l], head' = [head EXCEPT ![s] = h],
           cache' = [cache EXCEPT ![s] = q], engine' = engine,
           Own(l, h, q)
    PROVE  Inv'
<1>1. Types'
  <2>1. session' \in [Sessions -> SessionType] /\ head' \in [Sessions -> Nat] /\ engine' \in Engines
    BY DEF Inv, Types
  <2>2. DOMAIN cache' = Sessions /\ cache' = [t \in Sessions |-> cache'[t]]
    BY DEF Inv, Types
  <2>3. QED  BY <2>1, <2>2 DEF Types
<1>2. ASSUME NEW t \in Sessions
      PROVE  Own(session[t], head[t], cache[t])'
  <2>1. CASE t = s
    <3>1. session'[t] = l /\ head'[t] = h /\ cache'[t] = q
      BY <2>1 DEF Inv, Types
    <3>2. QED  BY <3>1 DEF Own, Places, Current, Counted, HeadCounted, CacheCounted
  <2>2. CASE t # s
    <3>1. session'[t] = session[t] /\ head'[t] = head[t] /\ cache'[t] = cache[t]
      BY <2>2 DEF Inv, Types
    <3>2. Own(session[t], head[t], cache[t])
      BY DEF Inv
    <3>3. QED  BY <3>1, <3>2 DEF Own, Places, Current, Counted, HeadCounted, CacheCounted
  <2>3. QED  BY <2>1, <2>2
<1>3. QED  BY <1>1, <1>2 DEF Inv

\* A session that only goes on to another place.
WentOn(l, k, pc) ==
    /\ l.pc = pc /\ l.clock = k.clock /\ l.pending = k.pending
    /\ l.steps = k.steps /\ l.infers = k.infers /\ l.torn = k.torn /\ l.broken = k.broken

\* So does a step that only moves the session's program counter, the head and the cache.
LEMMA GotoKeeps ==
    ASSUME Inv, NEW s \in Sessions, NEW pc \in Pcs, NEW h \in Nat, NEW q, Goto(s, pc),
           head' = [head EXCEPT ![s] = h], cache' = [cache EXCEPT ![s] = q], engine' = engine,
           \A l \in SessionType : WentOn(l, session[s], pc) => Own(l, h, q)
    PROVE  Inv'
<1> DEFINE l == [session[s] EXCEPT !.pc = pc]
<1>1. session[s] \in SessionType
  BY SessionTypes
<1>2. l \in SessionType /\ WentOn(l, session[s], pc)
  BY <1>1 DEF SessionType, WentOn
<1>3. session' = [session EXCEPT ![s] = l]
  BY DEF Goto
<1> HIDE DEF l
<1>4. QED  BY <1>2, <1>3, SessionStep

(***************************************************************************)
(* Opening a session                                                       *)
(***************************************************************************)
LEMMA BuiltKeeps ==
    ASSUME Inv, BuildLingBot \/ BuildDreamZero
    PROVE  Inv'
<1>1. UNCHANGED <<engine, session, cache, head>>
  BY DEF BuildLingBot, BuildDreamZero, Built
<1>2. QED  BY <1>1 DEF Inv, Types, Own, Places, Current, Counted, HeadCounted, CacheCounted

\* A session that is lost on the way keeps no history.
LEMMA LostKeeps ==
    ASSUME Inv, NEW s \in Sessions, LoadRaises(s) \/ LoadVLARaises(s) \/ EncodeRaises(s)
    PROVE  Inv'
<1>1. /\ session[s].pc \in Shut /\ Goto(s, "lost") /\ engine' = engine
      /\ head' = head /\ cache' = cache
  BY DEF LoadRaises, LoadVLARaises, EncodeRaises, At, Shut
<1>2. Own(session[s], head[s], cache[s]) /\ head[s] \in Nat /\ "lost" \in Pcs
  BY SessionTypes DEF Pcs, Shut
<1>3. \A l \in SessionType : WentOn(l, session[s], "lost") => Own(l, head[s], cache[s])
  BY <1>1, <1>2
     DEF WentOn, Own, Places, Current, Counted, HeadCounted, CacheCounted, Shut, SecondLoop, Predicting, Pcs
<1>4. QED  BY <1>1, <1>2, <1>3, Unmoved, GotoKeeps

\* reset() starts a session afresh.
LEMMA ResetKeeps ==
    ASSUME Inv, NEW s \in Sessions,
           ResetLingBot(s) \/ ResetDreamZero(s) \/ ResetVLA(s) \/ ResetCosmos3(s)
    PROVE  Inv'
<1>1. /\ session[s].pc = "none" /\ engine' = engine /\ Own(session[s], head[s], cache[s])
      /\ head[s] \in Nat /\ 0 \in Nat /\ engine \in Engines
  BY SessionTypes DEF ResetLingBot, ResetDreamZero, ResetVLA, ResetCosmos3, At
<1>2. /\ session[s].clock = 0 /\ session[s].steps = 0 /\ session[s].infers = 0
      /\ session[s].pending = NoProposal /\ ~ session[s].broken /\ session[s].torn = 0
  BY <1>1 DEF Own, Places, Shut
<1>3. <<>> \in Seq(Blocks) /\ Len(<<>>) = 0
  BY EmptySeq
<1>4. CASE ResetLingBot(s)
  <2>1. engine = "lingbot_va" /\ Goto(s, "encode") /\ cache' = [cache EXCEPT ![s] = <<>>] /\ head' = head
    BY <1>4 DEF ResetLingBot
  <2>2. \A l \in SessionType : WentOn(l, session[s], "encode") => Own(l, head[s], <<>>)
    BY <1>1, <1>2, <2>1
       DEF WentOn, Own, Places, Current, Counted, HeadCounted, CacheCounted, Shut, SecondLoop, Predicting, Pcs
  <2>3. "encode" \in Pcs
    BY DEF Pcs, Shut
  <2>4. QED  BY <1>1, <2>1, <2>2, <2>3, Unmoved, GotoKeeps
<1>5. CASE ResetDreamZero(s)
  <2>1. engine = "dreamzero" /\ Goto(s, "encode") /\ head' = [head EXCEPT ![s] = 0] /\ cache' = cache
    BY <1>5 DEF ResetDreamZero
  <2>2. FrameChunkSize * 0 = 0
    BY ChunkAssumption
  <2>3. \A l \in SessionType : WentOn(l, session[s], "encode") => Own(l, 0, cache[s])
    BY <1>1, <1>2, <2>1, <2>2
       DEF WentOn, Own, Places, Current, Counted, HeadCounted, CacheCounted, Shut, SecondLoop, Predicting, Pcs
  <2>4. "encode" \in Pcs
    BY DEF Pcs, Shut
  <2>5. QED  BY <1>1, <2>1, <2>3, <2>4, Unmoved, GotoKeeps
<1>6. CASE ResetVLA(s)
  <2>1. engine = "vla" /\ Goto(s, "encode") /\ cache' = [cache EXCEPT ![s] = <<>>] /\ head' = head
    BY <1>6 DEF ResetVLA
  <2>2. \A l \in SessionType : WentOn(l, session[s], "encode") => Own(l, head[s], <<>>)
    BY <1>1, <1>2, <1>3, <2>1
       DEF WentOn, Own, Places, Current, Counted, HeadCounted, CacheCounted, Shut, SecondLoop, Predicting, Pcs
  <2>3. "encode" \in Pcs
    BY DEF Pcs, Shut
  <2>4. QED  BY <1>1, <2>1, <2>2, <2>3, Unmoved, GotoKeeps
<1>7. CASE ResetCosmos3(s)
  <2>1. engine = "cosmos3" /\ Goto(s, "idle") /\ cache' = cache /\ head' = head
    BY <1>7 DEF ResetCosmos3
  <2>2. \A l \in SessionType : WentOn(l, session[s], "idle") => Own(l, head[s], cache[s])
    BY <1>1, <1>2, <2>1
       DEF WentOn, Own, Places, Current, Counted, HeadCounted, CacheCounted, Shut, SecondLoop, Predicting, Pcs
  <2>3. "idle" \in Pcs
    BY DEF Pcs, Shut
  <2>4. QED  BY <1>1, <2>1, <2>2, <2>3, Unmoved, GotoKeeps
<1>8. QED  BY <1>4, <1>5, <1>6, <1>7

\* DreamZero's seed observation is the head's first block.
LEMMA EncodeKeeps ==
    ASSUME Inv, NEW s \in Sessions, EncodeLingBot(s) \/ EncodeVLA(s) \/ EncodeDreamZero(s)
    PROVE  Inv'
<1>1. /\ session[s].pc = "encode" /\ engine' = engine /\ Own(session[s], head[s], cache[s])
      /\ head[s] \in Nat /\ 1 \in Nat /\ Goto(s, "idle") /\ cache' = cache
  BY SessionTypes DEF EncodeLingBot, EncodeVLA, EncodeDreamZero, At
<1>2. /\ session[s].clock = 0 /\ session[s].steps = 0 /\ session[s].infers = 0
      /\ session[s].pending = NoProposal /\ ~ session[s].broken /\ session[s].torn = 0
  BY <1>1 DEF Own, Places, Shut
<1>3. CASE EncodeLingBot(s) \/ EncodeVLA(s)
  <2>1. engine \in {"lingbot_va", "vla"} /\ head' = head
    BY <1>3 DEF EncodeLingBot, EncodeVLA
  <2>2. \A l \in SessionType : WentOn(l, session[s], "idle") => Own(l, head[s], cache[s])
    BY <1>1, <1>2, <2>1
       DEF WentOn, Own, Places, Current, Counted, HeadCounted, CacheCounted, Shut, SecondLoop, Predicting, Pcs
  <2>3. "idle" \in Pcs
    BY DEF Pcs, Shut
  <2>4. QED  BY <1>1, <2>1, <2>2, <2>3, Unmoved, GotoKeeps
<1>4. CASE EncodeDreamZero(s)
  <2>1. engine = "dreamzero" /\ head' = [head EXCEPT ![s] = 1]
    BY <1>4 DEF EncodeDreamZero
  <2>2. FrameChunkSize * 0 = 0
    BY ChunkAssumption
  <2>3. \A l \in SessionType : WentOn(l, session[s], "idle") => Own(l, 1, cache[s])
    BY <1>1, <1>2, <2>1, <2>2
       DEF WentOn, Own, Places, Current, Counted, HeadCounted, CacheCounted, Shut, SecondLoop, Predicting, Pcs
  <2>4. "idle" \in Pcs
    BY DEF Pcs, Shut
  <2>5. QED  BY <1>1, <2>1, <2>3, <2>4, Unmoved, GotoKeeps
<1>5. QED  BY <1>3, <1>4

(***************************************************************************)
(* step()                                                                  *)
(***************************************************************************)
LEMMA StepCallKeeps ==
    ASSUME Inv, NEW s \in Sessions, NEW rows \in 0 .. MaxRows, StepCall(s, rows)
    PROVE  Inv'
<1>1. /\ session[s] \in SessionType /\ head[s] \in Nat /\ engine \in Engines /\ engine' = engine
      /\ Own(session[s], head[s], cache[s])
      /\ session[s].clock \in Nat /\ session[s].pending \in Int /\ session[s].rows \in Nat
      /\ session[s].calls \in Nat /\ session[s].steps \in Nat /\ session[s].infers \in Nat
      /\ session[s].pc = "idle"
  BY SessionTypes DEF StepCall, At
<1>2. PICK n \in Nat : n = session[s].calls + 1
  BY <1>1
<1>3. PICK r \in Nat : r = rows
  BY <1>1, ChunkAssumption
<1> DEFINE l == [session[s] EXCEPT !.pc = "recondition", !.rows = r, !.calls = n]
<1>4. session' = [session EXCEPT ![s] = l] /\ head' = head /\ cache' = cache
  BY <1>1, <1>2, <1>3 DEF StepCall, At
<1>5. /\ l \in SessionType /\ l.pc = "recondition" /\ l.clock = session[s].clock /\ l.pending = session[s].pending
      /\ l.steps = session[s].steps /\ l.infers = session[s].infers /\ l.broken = session[s].broken
      /\ l.torn = session[s].torn
  BY <1>1 DEF SessionType, Pcs, Shut, Predicting, SecondLoop
<1> HIDE DEF l
<1>6. Own(l, head[s], cache[s])
  BY <1>1, <1>2, <1>3, <1>5
     DEF Own, Places, Current, Counted, HeadCounted, CacheCounted, Shut, SecondLoop, Predicting, Pcs
<1>7. QED  BY <1>1, <1>4, <1>5, <1>6, Unmoved, SessionStep

\* A refused call only counts.
LEMMA RefusedKeeps ==
    ASSUME Inv, NEW s \in Sessions, RefusedLingBot(s) \/ RefusedDreamZero(s) \/ RefusedVLA(s) \/ RefusedCosmos3(s)
    PROVE  Inv'
<1>1. /\ session[s] \in SessionType /\ head[s] \in Nat /\ engine \in Engines /\ engine' = engine
      /\ Own(session[s], head[s], cache[s])
      /\ session[s].clock \in Nat /\ session[s].pending \in Int /\ session[s].rows \in Nat
      /\ session[s].calls \in Nat /\ session[s].steps \in Nat /\ session[s].infers \in Nat
      /\ session[s].pc \in {"idle", "closed"}
  BY SessionTypes DEF RefusedLingBot, RefusedDreamZero, RefusedVLA, RefusedCosmos3, Refused, At
<1>2. PICK n \in Nat : n = session[s].calls + 1
  BY <1>1
<1> DEFINE l == [session[s] EXCEPT !.calls = n]
<1>3. session' = [session EXCEPT ![s] = l] /\ head' = head /\ cache' = cache
  BY <1>1, <1>2 DEF RefusedLingBot, RefusedDreamZero, RefusedVLA, RefusedCosmos3, Refused, At
<1>4. /\ l \in SessionType /\ l.pc = session[s].pc /\ l.clock = session[s].clock /\ l.pending = session[s].pending
      /\ l.steps = session[s].steps /\ l.infers = session[s].infers /\ l.broken = session[s].broken
      /\ l.torn = session[s].torn
  BY <1>1 DEF SessionType, Pcs, Shut, Predicting, SecondLoop
<1> HIDE DEF l
<1>5. Own(l, head[s], cache[s])
  BY <1>1, <1>2, <1>4
     DEF Own, Places, Current, Counted, HeadCounted, CacheCounted, Shut, SecondLoop, Predicting, Pcs
<1>6. QED  BY <1>1, <1>3, <1>4, <1>5, Unmoved, SessionStep

\* The seed latent is committed; the clock has not moved.
LEMMA GroundVideoKeeps ==
    ASSUME Inv, NEW s \in Sessions, GroundVideo(s)
    PROVE  Inv'
<1>1. /\ engine = "lingbot_va" /\ engine' = engine /\ head' = head /\ session[s].pc = "recondition"
      /\ Own(session[s], head[s], cache[s]) /\ head[s] \in Nat
  BY SessionTypes DEF GroundVideo, At
<1>2. PICK q : cache' = [cache EXCEPT ![s] = q]
  BY DEF GroundVideo
<1>3. Goto(s, "ground") /\ "ground" \in Pcs
  BY DEF GroundVideo, Pcs
<1>4. \A l \in SessionType : WentOn(l, session[s], "ground") => Own(l, head[s], q)
  BY <1>1
     DEF WentOn, Own, Places, Current, Counted, HeadCounted, CacheCounted, Shut, SecondLoop, Predicting, Pcs
<1>5. QED  BY <1>1, <1>2, <1>3, <1>4, Unmoved, GotoKeeps

\* The clock moves: what is parked is of the past until the call returns.
LEMMA GroundActionKeeps ==
    ASSUME Inv, NEW s \in Sessions, GroundAction(s)
    PROVE  Inv'
<1>1. /\ session[s] \in SessionType /\ head[s] \in Nat /\ engine \in Engines /\ engine' = engine
      /\ Own(session[s], head[s], cache[s])
      /\ session[s].clock \in Nat /\ session[s].pending \in Int /\ session[s].rows \in Nat
      /\ session[s].calls \in Nat /\ session[s].steps \in Nat /\ session[s].infers \in Nat
      /\ session[s].pc = "ground" /\ engine = "lingbot_va"
  BY SessionTypes DEF GroundAction, Consume, At
<1>2. PICK k \in Nat : k = session[s].clock + 1
  BY <1>1
<1>3. PICK z \in Nat : z = 0
  BY <1>1
<1> DEFINE l == [session[s] EXCEPT !.pc = "video", !.rows = z, !.clock = k]
<1>4. session' = [session EXCEPT ![s] = l] /\ head' = head
  BY <1>1, <1>2, <1>3 DEF GroundAction, Consume, At
<1>5. /\ l \in SessionType /\ l.pc = "video" /\ l.clock = k /\ l.pending = session[s].pending
      /\ l.steps = session[s].steps /\ l.infers = session[s].infers /\ l.broken = session[s].broken
      /\ l.torn = session[s].torn
  BY <1>1 DEF SessionType, Pcs, Shut, Predicting, SecondLoop
<1> HIDE DEF l
<1>6. PICK q : cache' = [cache EXCEPT ![s] = q]
  BY DEF GroundAction
<1>7. Own(l, head[s], q)
  BY <1>1, <1>2, <1>3, <1>5, <1>6
     DEF Own, Places, Current, Counted, HeadCounted, CacheCounted, Shut, SecondLoop, Predicting, Pcs
<1>8. QED  BY <1>1, <1>4, <1>5, <1>6, <1>7, Unmoved, SessionStep

\* Imagination, and DreamZero's recondition.
LEMMA ImagineKeeps ==
    ASSUME Inv, NEW s \in Sessions, ImagineLingBot(s) \/ ReconditionDreamZero(s)
    PROVE  Inv'
<1>1. /\ session[s] \in SessionType /\ head[s] \in Nat /\ engine \in Engines /\ engine' = engine
      /\ Own(session[s], head[s], cache[s])
      /\ session[s].clock \in Nat /\ session[s].pending \in Int /\ session[s].rows \in Nat
      /\ session[s].calls \in Nat /\ session[s].steps \in Nat /\ session[s].infers \in Nat
      /\ session[s].pc = "recondition" /\ engine \in {"lingbot_va", "dreamzero"}
  BY SessionTypes DEF ImagineLingBot, ReconditionDreamZero, Consume, At
<1>2. PICK k \in Nat : k = session[s].clock + FrameChunkSize
  BY <1>1, ChunkAssumption
<1>3. PICK z \in Nat : z = 0
  BY <1>1
<1> DEFINE l == [session[s] EXCEPT !.pc = "video", !.rows = z, !.clock = k]
<1>4. session' = [session EXCEPT ![s] = l] /\ head' = head /\ cache' = cache
  BY <1>1, <1>2, <1>3 DEF ImagineLingBot, ReconditionDreamZero, Consume, At
<1>5. /\ l \in SessionType /\ l.pc = "video" /\ l.clock = k /\ l.pending = session[s].pending
      /\ l.steps = session[s].steps /\ l.infers = session[s].infers /\ l.broken = session[s].broken
      /\ l.torn = session[s].torn
  BY <1>1 DEF SessionType, Pcs, Shut, Predicting, SecondLoop
<1> HIDE DEF l
<1>6. Own(l, head[s], cache[s])
  BY <1>1, <1>2, <1>3, <1>5
     DEF Own, Places, Current, Counted, HeadCounted, CacheCounted, Shut, SecondLoop, Predicting, Pcs
<1>7. QED  BY <1>1, <1>4, <1>5, <1>6, Unmoved, SessionStep

\* The grounding raises: the clock has not moved.
LEMMA StepRaisesKeeps ==
    ASSUME Inv, NEW s \in Sessions, GroundVideoRaises(s) \/ GroundActionRaises(s) \/ StepCosmos3Raises(s)
    PROVE  Inv'
<1>1. /\ session[s] \in SessionType /\ head[s] \in Nat /\ engine \in Engines /\ engine' = engine
      /\ Own(session[s], head[s], cache[s])
      /\ session[s].clock \in Nat /\ session[s].pending \in Int /\ session[s].rows \in Nat
      /\ session[s].calls \in Nat /\ session[s].steps \in Nat /\ session[s].infers \in Nat
      /\ session[s].pc \in {"recondition", "ground"} /\ engine \in {"lingbot_va", "cosmos3"}
  BY SessionTypes DEF GroundVideoRaises, GroundActionRaises, StepCosmos3Raises, At
<1>2. PICK z \in Nat : z = 0
  BY <1>1
<1>3. PICK n \in Nat : n = IF session[s].pc = "ground" THEN session[s].torn + 1 ELSE session[s].torn
  BY <1>1, SessionTypes
<1> DEFINE l == [session[s] EXCEPT !.pc = "idle", !.rows = z, !.torn = n]
<1>4. session' = [session EXCEPT ![s] = l] /\ head' = head
  <2>1. CASE session[s].pc = "ground"
    BY <1>2, <1>3, <2>1 DEF GroundVideoRaises, GroundActionRaises, StepCosmos3Raises, At
  <2>2. CASE session[s].pc = "recondition"
    <3>1. l = [session[s] EXCEPT !.pc = "idle", !.rows = 0]
      BY <1>1, <1>2, <1>3, <2>2, SessionTypes DEF SessionType
    <3>2. QED  BY <2>2, <3>1 DEF GroundVideoRaises, GroundActionRaises, StepCosmos3Raises, At
  <2>3. QED  BY <1>1, <2>1, <2>2
<1>5. /\ l \in SessionType /\ l.pc = "idle" /\ l.clock = session[s].clock /\ l.pending = session[s].pending
      /\ l.steps = session[s].steps /\ l.infers = session[s].infers /\ l.broken = session[s].broken
      /\ l.torn = n
  BY <1>1 DEF SessionType, Pcs, Shut, Predicting, SecondLoop
<1> HIDE DEF l
<1>6. (\E q : cache' = [cache EXCEPT ![s] = q]) \/ cache' = cache
  BY DEF GroundVideoRaises, GroundActionRaises, StepCosmos3Raises
<1>7. PICK q : cache' = [cache EXCEPT ![s] = q]
  BY <1>6, Unmoved
<1>8. Own(l, head[s], q)
  BY <1>1, <1>2, <1>5, <1>6, <1>7
     DEF Own, Places, Current, Counted, HeadCounted, CacheCounted, Shut, SecondLoop, Predicting, Pcs
<1>9. QED  BY <1>1, <1>4, <1>5, <1>7, <1>8, Unmoved, SessionStep

\* The VLA caches the chunk before the clock moves.
LEMMA AppendKeeps ==
    ASSUME Inv, NEW s \in Sessions, AppendExecuted(s)
    PROVE  Inv'
<1>1. /\ session[s] \in SessionType /\ head[s] \in Nat /\ engine \in Engines /\ engine' = engine
      /\ Own(session[s], head[s], cache[s])
      /\ session[s].clock \in Nat /\ session[s].pending \in Int /\ session[s].rows \in Nat
      /\ session[s].calls \in Nat /\ session[s].steps \in Nat /\ session[s].infers \in Nat
      /\ session[s].pc = "recondition" /\ engine = "vla"
  BY SessionTypes DEF AppendExecuted, At
<1>2. PICK z \in Nat : z = 0
  BY <1>1
<1> DEFINE l == [session[s] EXCEPT !.pc = "video", !.rows = z]
<1>3. session' = [session EXCEPT ![s] = l] /\ head' = head
  BY <1>1, <1>2 DEF AppendExecuted, At
<1>4. /\ l \in SessionType /\ l.pc = "video" /\ l.clock = session[s].clock /\ l.pending = session[s].pending
      /\ l.steps = session[s].steps /\ l.infers = session[s].infers /\ l.broken = session[s].broken
      /\ l.torn = session[s].torn
  BY <1>1 DEF SessionType, Pcs, Shut, Predicting, SecondLoop
<1> HIDE DEF l
<1>5. PICK b \in Blocks : b = Block("action", session[s].clock, 1, FALSE)
  BY <1>1 DEF Block, Blocks
<1>6. cache[s] \in Seq(Blocks) /\ Len(cache[s]) \in Nat
  BY <1>1, LenProperties DEF Own, CacheCounted
<1>7. PICK q : q = Append(cache[s], b)
  OBVIOUS
<1>8. q \in Seq(Blocks) /\ Len(q) = Len(cache[s]) + 1
  BY <1>6, <1>7, AppendProperties
<1>9. cache' = [cache EXCEPT ![s] = q]
  BY <1>5, <1>7 DEF AppendExecuted
<1>10. Own(l, head[s], q)
  BY <1>1, <1>2, <1>4, <1>5, <1>6, <1>7, <1>8, <1>9
     DEF Own, Places, Current, Counted, HeadCounted, CacheCounted, Shut, SecondLoop, Predicting, Pcs
<1>11. QED  BY <1>1, <1>3, <1>4, <1>5, <1>6, <1>7, <1>8, <1>9, <1>10, Unmoved, SessionStep

\* The first loop caches its predictions; the call goes on to the second.
LEMMA VideoLoopKeeps ==
    ASSUME Inv, NEW s \in Sessions, VideoLoop(s)
    PROVE  Inv'
<1>1. /\ engine = "lingbot_va" /\ engine' = engine /\ head' = head /\ session[s].pc \in Predicting
      /\ Own(session[s], head[s], cache[s]) /\ head[s] \in Nat
  BY SessionTypes DEF VideoLoop, Predicting
<1>2. PICK pc \in SecondLoop : pc = IF session[s].pc = "video" THEN "action" ELSE "plan_action"
  BY DEF SecondLoop
<1>3. PICK q : cache' = [cache EXCEPT ![s] = q]
  BY DEF VideoLoop
<1>4. Goto(s, pc) /\ pc \in Pcs
  BY <1>2 DEF VideoLoop, At, Pcs
<1>5. pc = "plan_action" => session[s].pc = "plan_video"
  BY <1>1, <1>2 DEF Predicting
<1>6. \A l \in SessionType : WentOn(l, session[s], pc) => Own(l, head[s], q)
  BY <1>1, <1>2, <1>5
     DEF WentOn, Own, Places, Current, Counted, HeadCounted, CacheCounted, Shut, SecondLoop, Predicting, Pcs
<1>7. QED  BY <1>1, <1>3, <1>4, <1>6, Unmoved, GotoKeeps

\* The second loop returns with its chunk parked, made at the clock.
LEMMA ActionLoopKeeps ==
    ASSUME Inv, NEW s \in Sessions, ActionLoop(s)
    PROVE  Inv'
<1>1. /\ session[s] \in SessionType /\ head[s] \in Nat /\ engine \in Engines /\ engine' = engine
      /\ Own(session[s], head[s], cache[s])
      /\ session[s].clock \in Nat /\ session[s].pending \in Int /\ session[s].rows \in Nat
      /\ session[s].calls \in Nat /\ session[s].steps \in Nat /\ session[s].infers \in Nat
      /\ session[s].pc \in SecondLoop /\ engine = "lingbot_va"
  BY SessionTypes DEF ActionLoop, Park, SecondLoop, At
<1>2. PICK n \in Nat : n = session[s].infers + 1
  BY <1>1
<1>3. PICK c \in Int : c = session[s].clock
  BY <1>1
<1>4. PICK k \in Nat : k = IF session[s].pc \in {"video", "action"} THEN session[s].steps + 1 ELSE session[s].steps
  BY <1>1
<1> DEFINE l == [session[s] EXCEPT !.pc = "idle", !.infers = n, !.pending = c, !.steps = k]
<1>5. session' = [session EXCEPT ![s] = l] /\ head' = head
  BY <1>1, <1>2, <1>3, <1>4 DEF ActionLoop, Park, SecondLoop, At
<1>6. /\ l \in SessionType /\ l.pc = "idle" /\ l.clock = session[s].clock /\ l.pending = c
      /\ l.steps = k /\ l.infers = n /\ l.broken = session[s].broken
      /\ l.torn = session[s].torn
  BY <1>1 DEF SessionType, Pcs, Shut, Predicting, SecondLoop
<1> HIDE DEF l
<1>7. PICK q : cache' = [cache EXCEPT ![s] = q]
  BY DEF ActionLoop
<1>8. Own(l, head[s], q)
  <2>1. Places(l) /\ Current(l)
    BY <1>1, <1>3, <1>6 DEF Own, Places, Current, Shut, SecondLoop, Predicting
  <2>2. Counted(l)
    BY <1>1, <1>2, <1>3, <1>4, <1>6 DEF Own, Counted, SecondLoop, NoProposal
  <2>3. HeadCounted(l, head[s]) /\ CacheCounted(l, q)
    BY <1>1 DEF HeadCounted, CacheCounted
  <2>4. QED  BY <2>1, <2>2, <2>3 DEF Own
<1>9. QED  BY <1>1, <1>5, <1>6, <1>7, <1>8, Unmoved, SessionStep

\* A chunk more is FrameChunkSize frames more.
LEMMA AnotherChunk ==
    ASSUME NEW n \in Nat
    PROVE  FrameChunkSize * (n + 1) = FrameChunkSize * n + FrameChunkSize
BY ChunkAssumption

\* The head moves on with the chunk it predicts.
LEMMA JointLoopKeeps ==
    ASSUME Inv, NEW s \in Sessions, JointLoop(s)
    PROVE  Inv'
<1>1. /\ session[s] \in SessionType /\ head[s] \in Nat /\ engine \in Engines /\ engine' = engine
      /\ Own(session[s], head[s], cache[s])
      /\ session[s].clock \in Nat /\ session[s].pending \in Int /\ session[s].rows \in Nat
      /\ session[s].calls \in Nat /\ session[s].steps \in Nat /\ session[s].infers \in Nat
      /\ session[s].pc \in Predicting /\ engine = "dreamzero"
  BY SessionTypes DEF JointLoop, Park, Predicting, At
<1>2. PICK n \in Nat : n = session[s].infers + 1
  BY <1>1
<1>3. PICK c \in Int : c = session[s].clock
  BY <1>1
<1>4. PICK k \in Nat : k = IF session[s].pc \in {"video", "action"} THEN session[s].steps + 1 ELSE session[s].steps
  BY <1>1
<1>5. PICK h \in Nat : h = head[s] + 1
  BY <1>1
<1> DEFINE l == [session[s] EXCEPT !.pc = "idle", !.infers = n, !.pending = c, !.steps = k]
<1>6. session' = [session EXCEPT ![s] = l] /\ head' = [head EXCEPT ![s] = h] /\ cache' = cache
  BY <1>1, <1>2, <1>3, <1>4, <1>5 DEF JointLoop, Park, Predicting, At
<1>7. /\ l \in SessionType /\ l.pc = "idle" /\ l.clock = session[s].clock /\ l.pending = c
      /\ l.steps = k /\ l.infers = n /\ l.broken = session[s].broken
      /\ l.torn = session[s].torn
  BY <1>1 DEF SessionType, Pcs, Shut, Predicting, SecondLoop
<1> HIDE DEF l
<1>8. FrameChunkSize * (session[s].steps + 1) = FrameChunkSize * session[s].steps + FrameChunkSize
  BY <1>1, AnotherChunk
<1>9. PICK g : g = FrameChunkSize * session[s].steps
  OBVIOUS
<1>10. PICK g1 : g1 = FrameChunkSize * (session[s].steps + 1)
  OBVIOUS
<1>11. Own(l, h, cache[s])
  <2>1. Places(l) /\ Current(l)
    BY <1>1, <1>3, <1>7 DEF Own, Places, Current, Shut, SecondLoop, Predicting
  <2>2. Counted(l)
    <3>1. Counted(session[s]) /\ engine # "vla"
      BY <1>1 DEF Own
    <3>2. n - k \in {0, 1}
      BY <1>1, <1>2, <1>4, <3>1 DEF Counted, Predicting
    <3>3. l.pending # NoProposal /\ l.pc \notin {"plan_video", "plan_action"}
      BY <1>1, <1>3, <1>7 DEF NoProposal
    <3>4. QED  BY <1>7, <3>2, <3>3 DEF Counted
  <2>3. HeadCounted(l, h)
    BY <1>1, <1>2, <1>4, <1>5, <1>7, <1>8, <1>9, <1>10
       DEF Own, HeadCounted, Shut, SecondLoop, Predicting, Pcs
  <2>4. CacheCounted(l, cache[s])
    BY <1>1 DEF CacheCounted
  <2>5. QED  BY <2>1, <2>2, <2>3, <2>4 DEF Own
<1>12. QED  BY <1>1, <1>6, <1>7, <1>8, <1>9, <1>10, <1>11, Unmoved, SessionStep

\* The new state of the VLA and its chunk come together.
LEMMA DecodeKeeps ==
    ASSUME Inv, NEW s \in Sessions, DecodeVLA(s)
    PROVE  Inv'
<1>1. /\ session[s] \in SessionType /\ head[s] \in Nat /\ engine \in Engines /\ engine' = engine
      /\ Own(session[s], head[s], cache[s])
      /\ session[s].clock \in Nat /\ session[s].pending \in Int /\ session[s].rows \in Nat
      /\ session[s].calls \in Nat /\ session[s].steps \in Nat /\ session[s].infers \in Nat
      /\ session[s].pc = "video" /\ engine = "vla"
  BY SessionTypes DEF DecodeVLA, At
<1>2. PICK n \in Nat : n = session[s].infers + 1
  BY <1>1
<1>3. PICK c \in Nat : c = session[s].clock + 1
  BY <1>1
<1>4. PICK d \in Int : d = session[s].clock + 1
  BY <1>1
<1>5. PICK k \in Nat : k = session[s].steps + 1
  BY <1>1
<1> DEFINE l == [session[s] EXCEPT !.pc = "idle", !.clock = c, !.pending = d, !.infers = n, !.steps = k]
<1>6. session' = [session EXCEPT ![s] = l] /\ head' = head /\ cache' = cache
  BY <1>1, <1>2, <1>3, <1>4, <1>5 DEF DecodeVLA, At
<1>7. /\ l \in SessionType /\ l.pc = "idle" /\ l.clock = c /\ l.pending = d
      /\ l.steps = k /\ l.infers = n /\ l.broken = session[s].broken
      /\ l.torn = session[s].torn
  BY <1>1 DEF SessionType, Pcs, Shut, Predicting, SecondLoop
<1> HIDE DEF l
<1>8. Own(l, head[s], cache[s])
  BY <1>1, <1>2, <1>3, <1>4, <1>5, <1>7
     DEF Own, Places, Current, Counted, HeadCounted, CacheCounted, Shut, SecondLoop, Predicting, Pcs, NoProposal
<1>9. QED  BY <1>1, <1>6, <1>7, <1>8, Unmoved, SessionStep

\* A step of Cosmos 3 is one call, and one chunk.
LEMMA Cosmos3Keeps ==
    ASSUME Inv, NEW s \in Sessions, StepCosmos3(s)
    PROVE  Inv'
<1>1. /\ session[s] \in SessionType /\ head[s] \in Nat /\ engine \in Engines /\ engine' = engine
      /\ Own(session[s], head[s], cache[s])
      /\ session[s].clock \in Nat /\ session[s].pending \in Int /\ session[s].rows \in Nat
      /\ session[s].calls \in Nat /\ session[s].steps \in Nat /\ session[s].infers \in Nat
      /\ session[s].pc = "recondition" /\ engine = "cosmos3"
  BY SessionTypes DEF StepCosmos3, At
<1>2. PICK n \in Nat : n = session[s].infers + 1
  BY <1>1
<1>3. PICK c \in Nat : c = session[s].clock + 1
  BY <1>1
<1>4. PICK k \in Nat : k = session[s].steps + 1
  BY <1>1
<1>5. PICK z \in Nat : z = 0
  BY <1>1
<1> DEFINE l == [session[s] EXCEPT !.pc = "idle", !.rows = z, !.clock = c, !.infers = n, !.steps = k]
<1>6. session' = [session EXCEPT ![s] = l] /\ head' = head /\ cache' = cache
  BY <1>1, <1>2, <1>3, <1>4, <1>5 DEF StepCosmos3, At
<1>7. /\ l \in SessionType /\ l.pc = "idle" /\ l.clock = c /\ l.pending = session[s].pending
      /\ l.steps = k /\ l.infers = n /\ l.broken = session[s].broken
      /\ l.torn = session[s].torn
  BY <1>1 DEF SessionType, Pcs, Shut, Predicting, SecondLoop
<1> HIDE DEF l
<1>8. Own(l, head[s], cache[s])
  BY <1>1, <1>2, <1>3, <1>4, <1>5, <1>7
     DEF Own, Places, Current, Counted, HeadCounted, CacheCounted, Shut, SecondLoop, Predicting, Pcs, NoProposal
<1>9. QED  BY <1>1, <1>6, <1>7, <1>8, Unmoved, SessionStep

\* A call that raises half-way leaves a session that says so.
LEMMA RaisedKeeps ==
    ASSUME Inv, NEW s \in Sessions, InferRaises(s)
    PROVE  Inv'
<1>1. /\ session[s] \in SessionType /\ head[s] \in Nat /\ engine \in Engines /\ engine' = engine
      /\ Own(session[s], head[s], cache[s])
      /\ session[s].clock \in Nat /\ session[s].pending \in Int /\ session[s].rows \in Nat
      /\ session[s].calls \in Nat /\ session[s].steps \in Nat /\ session[s].infers \in Nat
      /\ session[s].pc \in Predicting \cup SecondLoop
  BY SessionTypes DEF InferRaises, Predicting, SecondLoop
<1>2. PICK t \in BOOLEAN : t = TRUE
  BY <1>1
<1> DEFINE l == [session[s] EXCEPT !.pc = "idle", !.broken = t]
<1>3. session' = [session EXCEPT ![s] = l] /\ head' = head /\ cache' = cache
  BY <1>1, <1>2 DEF InferRaises, Predicting, SecondLoop
<1>4. /\ l \in SessionType /\ l.pc = "idle" /\ l.clock = session[s].clock /\ l.pending = session[s].pending
      /\ l.steps = session[s].steps /\ l.infers = session[s].infers /\ l.broken = t
  BY <1>1 DEF SessionType, Pcs, Shut, Predicting, SecondLoop
<1> HIDE DEF l
<1>5. Own(l, head[s], cache[s])
  BY <1>1, <1>2, <1>4
     DEF Own, Places, Current, Counted, HeadCounted, CacheCounted, Shut, SecondLoop, Predicting, Pcs, NoProposal
<1>6. QED  BY <1>1, <1>3, <1>4, <1>5, Unmoved, SessionStep

\* Where none is parked as many chunks were predicted as steps taken.
LEMMA PlanKeeps ==
    ASSUME Inv, NEW s \in Sessions, Plan(s)
    PROVE  Inv'
<1>1. /\ session[s] \in SessionType /\ head[s] \in Nat /\ engine \in Engines /\ engine' = engine
      /\ Own(session[s], head[s], cache[s])
      /\ session[s].clock \in Nat /\ session[s].pending \in Int /\ session[s].rows \in Nat
      /\ session[s].calls \in Nat /\ session[s].steps \in Nat /\ session[s].infers \in Nat
      /\ session[s].pc = "idle" /\ engine \in {"lingbot_va", "dreamzero"} /\ session[s].pending = NoProposal
  BY SessionTypes DEF Plan, At
<1>2. PICK n \in Nat : n = session[s].calls + 1
  BY <1>1
<1> DEFINE l == [session[s] EXCEPT !.pc = "plan_video", !.calls = n]
<1>3. session' = [session EXCEPT ![s] = l] /\ head' = head /\ cache' = cache
  BY <1>1, <1>2 DEF Plan, At
<1>4. /\ l \in SessionType /\ l.pc = "plan_video" /\ l.clock = session[s].clock /\ l.pending = session[s].pending
      /\ l.steps = session[s].steps /\ l.infers = session[s].infers /\ l.broken = session[s].broken
      /\ l.torn = session[s].torn
  BY <1>1 DEF SessionType, Pcs, Shut, Predicting, SecondLoop
<1> HIDE DEF l
<1>5. Own(l, head[s], cache[s])
  BY <1>1, <1>2, <1>4
     DEF Own, Places, Current, Counted, HeadCounted, CacheCounted, Shut, SecondLoop, Predicting, Pcs, NoProposal
<1>6. QED  BY <1>1, <1>3, <1>4, <1>5, Unmoved, SessionStep

\* The VLA parks at the clock of the state it is asked about.
LEMMA PlanVLAKeeps ==
    ASSUME Inv, NEW s \in Sessions, PlanVLA(s)
    PROVE  Inv'
<1>1. /\ session[s] \in SessionType /\ head[s] \in Nat /\ engine \in Engines /\ engine' = engine
      /\ Own(session[s], head[s], cache[s])
      /\ session[s].clock \in Nat /\ session[s].pending \in Int /\ session[s].rows \in Nat
      /\ session[s].calls \in Nat /\ session[s].steps \in Nat /\ session[s].infers \in Nat
      /\ session[s].pc = "idle" /\ engine = "vla"
  BY SessionTypes DEF PlanVLA, At
<1>2. PICK n \in Nat : n = session[s].calls + 1
  BY <1>1
<1>3. PICK c \in Int : c = session[s].clock
  BY <1>1
<1> DEFINE l == [session[s] EXCEPT !.calls = n, !.pending = c]
<1>4. session' = [session EXCEPT ![s] = l] /\ head' = head /\ cache' = cache
  BY <1>1, <1>2, <1>3 DEF PlanVLA, At
<1>5. /\ l \in SessionType /\ l.pc = session[s].pc /\ l.clock = session[s].clock /\ l.pending = c
      /\ l.steps = session[s].steps /\ l.infers = session[s].infers /\ l.broken = session[s].broken
      /\ l.torn = session[s].torn
  BY <1>1 DEF SessionType, Pcs, Shut, Predicting, SecondLoop
<1> HIDE DEF l
<1>6. Own(l, head[s], cache[s])
  BY <1>1, <1>2, <1>3, <1>5
     DEF Own, Places, Current, Counted, HeadCounted, CacheCounted, Shut, SecondLoop, Predicting, Pcs, NoProposal
<1>7. QED  BY <1>1, <1>4, <1>5, <1>6, Unmoved, SessionStep

\* Cosmos 3 parks nothing.
LEMMA PlanCosmos3Keeps ==
    ASSUME Inv, NEW s \in Sessions, PlanCosmos3(s)
    PROVE  Inv'
<1>1. /\ session[s] \in SessionType /\ head[s] \in Nat /\ engine \in Engines /\ engine' = engine
      /\ Own(session[s], head[s], cache[s])
      /\ session[s].clock \in Nat /\ session[s].pending \in Int /\ session[s].rows \in Nat
      /\ session[s].calls \in Nat /\ session[s].steps \in Nat /\ session[s].infers \in Nat
      /\ session[s].pc = "idle" /\ engine = "cosmos3"
  BY SessionTypes DEF PlanCosmos3, At
<1>2. PICK n \in Nat : n = session[s].calls + 1
  BY <1>1
<1> DEFINE l == [session[s] EXCEPT !.calls = n]
<1>3. session' = [session EXCEPT ![s] = l] /\ head' = head /\ cache' = cache
  BY <1>1, <1>2 DEF PlanCosmos3, At
<1>4. /\ l \in SessionType /\ l.pc = session[s].pc /\ l.clock = session[s].clock /\ l.pending = session[s].pending
      /\ l.steps = session[s].steps /\ l.infers = session[s].infers /\ l.broken = session[s].broken
      /\ l.torn = session[s].torn
  BY <1>1 DEF SessionType, Pcs, Shut, Predicting, SecondLoop
<1> HIDE DEF l
<1>5. Own(l, head[s], cache[s])
  BY <1>1, <1>2, <1>4
     DEF Own, Places, Current, Counted, HeadCounted, CacheCounted, Shut, SecondLoop, Predicting, Pcs, NoProposal
<1>6. QED  BY <1>1, <1>3, <1>4, <1>5, Unmoved, SessionStep

\* A released session keeps nothing of what it was.
LEMMA ReleaseKeeps ==
    ASSUME Inv, NEW s \in Sessions, Release(s)
    PROVE  Inv'
<1> DEFINE l == [Fresh EXCEPT !.pc = "closed"]
<1>1. /\ session' = [session EXCEPT ![s] = l] /\ engine' = engine /\ engine \in Engines
      /\ cache' = [cache EXCEPT ![s] = <<>>] /\ head' = [head EXCEPT ![s] = 0]
  BY SessionTypes DEF Release
<1>2. /\ Fresh \in SessionType /\ Fresh.clock = 0 /\ Fresh.pending = NoProposal /\ Fresh.steps = 0
      /\ Fresh.infers = 0 /\ ~ Fresh.broken /\ Fresh.torn = 0
  BY DEF Fresh, SessionType, Pcs, Shut, NoProposal
<1>3. /\ l \in SessionType /\ l.pc = "closed" /\ l.clock = 0 /\ l.pending = NoProposal
      /\ l.steps = 0 /\ l.infers = 0 /\ ~ l.broken /\ l.torn = 0
  BY <1>2 DEF SessionType, Pcs, Shut
<1>4. 0 \in Nat /\ FrameChunkSize * 0 = 0 /\ <<>> \in Seq(Blocks)
  BY ChunkAssumption, EmptySeq
<1> HIDE DEF l
<1>5. Own(l, 0, <<>>)
  BY <1>1, <1>3, <1>4
     DEF Own, Places, Current, Counted, HeadCounted, CacheCounted, Shut, SecondLoop, Predicting, Pcs, NoProposal
<1>6. QED  BY <1>1, <1>3, <1>4, <1>5, SessionStep

(***************************************************************************)
(* The theorems                                                            *)
(***************************************************************************)
LEMMA InvInit == Init => Inv
<1> SUFFICES ASSUME Init PROVE Inv
  OBVIOUS
<1>1. /\ Fresh \in SessionType /\ Fresh.pc = "none" /\ Fresh.clock = 0 /\ Fresh.pending = NoProposal
      /\ Fresh.steps = 0 /\ Fresh.infers = 0 /\ ~ Fresh.broken /\ Fresh.torn = 0
  BY DEF Fresh, SessionType, Pcs, Shut, NoProposal
<1>2. 0 \in Nat /\ FrameChunkSize * 0 = 0 /\ <<>> \in Seq(Blocks)
  BY ChunkAssumption, EmptySeq
<1>3. Types
  <2>1. engine \in Engines
    BY DEF Init, Engines
  <2>2. session \in [Sessions -> SessionType] /\ head \in [Sessions -> Nat]
    BY <1>1, <1>2 DEF Init
  <2>3. DOMAIN cache = Sessions /\ cache = [s \in Sessions |-> cache[s]]
    BY DEF Init
  <2>4. QED  BY <2>1, <2>2, <2>3 DEF Types
<1>4. ASSUME NEW s \in Sessions
      PROVE  Own(session[s], head[s], cache[s])
  <2>1. session[s] = Fresh /\ head[s] = 0 /\ cache[s] = <<>>
    BY DEF Init
  <2>2. Own(Fresh, 0, <<>>)
    BY <1>1, <1>2
       DEF Own, Places, Current, Counted, HeadCounted, CacheCounted, Shut, SecondLoop, Predicting, Pcs, NoProposal
  <2>3. QED  BY <2>1, <2>2
<1>5. QED  BY <1>3, <1>4 DEF Inv

\* Every step of every engine keeps the invariant.
LEMMA InvNext == Inv /\ [Next]_vars => Inv'
<1> SUFFICES ASSUME Inv, [Next]_vars PROVE Inv'
  OBVIOUS
<1>1. CASE UNCHANGED vars
  BY <1>1 DEF vars, Inv, Types, Own, Places, Current, Counted, HeadCounted, CacheCounted
<1>2. CASE BuildLingBot \/ BuildDreamZero
  BY <1>2, BuiltKeeps
<1>3. ASSUME NEW s \in Sessions,
             \/ LoadRaises(s) \/ LoadVLARaises(s) \/ EncodeRaises(s)
             \/ ResetLingBot(s) \/ ResetDreamZero(s) \/ ResetVLA(s) \/ ResetCosmos3(s)
             \/ EncodeLingBot(s) \/ EncodeDreamZero(s) \/ EncodeVLA(s)
      PROVE  Inv'
  BY <1>3, LostKeeps, ResetKeeps, EncodeKeeps
<1>4. ASSUME NEW s \in Sessions,
             \/ \E rows \in 0 .. MaxRows : StepCall(s, rows)
             \/ RefusedLingBot(s) \/ RefusedDreamZero(s) \/ RefusedVLA(s) \/ RefusedCosmos3(s)
             \/ GroundVideo(s) \/ GroundAction(s) \/ GroundVideoRaises(s) \/ GroundActionRaises(s)
             \/ ImagineLingBot(s) \/ ReconditionDreamZero(s) \/ AppendExecuted(s) \/ StepCosmos3Raises(s)
      PROVE  Inv'
  BY <1>4, StepCallKeeps, RefusedKeeps, GroundVideoKeeps, GroundActionKeeps, StepRaisesKeeps, ImagineKeeps, AppendKeeps
<1>5. ASSUME NEW s \in Sessions,
             \/ VideoLoop(s) \/ ActionLoop(s) \/ JointLoop(s) \/ DecodeVLA(s)
             \/ StepCosmos3(s) \/ InferRaises(s)
      PROVE  Inv'
  BY <1>5, VideoLoopKeeps, ActionLoopKeeps, JointLoopKeeps, DecodeKeeps, Cosmos3Keeps, RaisedKeeps
<1>6. ASSUME NEW s \in Sessions, Plan(s) \/ PlanVLA(s) \/ PlanCosmos3(s) \/ Release(s)
      PROVE  Inv'
  BY <1>6, PlanKeeps, PlanVLAKeeps, PlanCosmos3Keeps, ReleaseKeeps
<1>7. QED  BY <1>1, <1>2, <1>3, <1>4, <1>5, <1>6 DEF Next

\* The invariant of the chunk loop: in whatever place of its call a session is,
\* what is parked belongs to its clock, and its chunks, its steps, DreamZero's
\* head and the VLA's cache are as far as each other.
THEOREM ChunkInvariant == Spec => []Inv
<1>1. QED  BY InvInit, InvNext, PTL DEF Spec

\* plan() never answers with a chunk of an earlier clock (pending in
\* lingbot_va.py, dreamzero.py and vla.py), unless an infer_chunk has raised
\* after the clock had moved.
THEOREM PlanAnswersForTheState == Spec => []ProposalIsCurrent
<1>1. Inv => ProposalIsCurrent
  BY DEF Inv, Own, Current, ProposalIsCurrent, At
<1>2. QED  BY <1>1, ChunkInvariant, PTL

\* Planning, however often, predicts at most one chunk before the first step
\* and none after, and DreamZero's head never drifts from the engine's clock.
THEOREM PlanningIsIdempotent == Spec => []OneProposalPerState
<1>1. Inv => OneProposalPerState
  <2> SUFFICES ASSUME Inv, NEW s \in Sessions, engine # "vla", At(s, "idle"), ~ session[s].broken
               PROVE  /\ session[s].infers - session[s].steps \in {0, 1}
                      /\ engine = "dreamzero" =>
                            /\ head[s] = 1 + session[s].infers
                            /\ session[s].clock = FrameChunkSize * session[s].steps
    BY DEF OneProposalPerState
  <2>1. Own(session[s], head[s], cache[s]) /\ session[s].pc = "idle"
    BY DEF Inv, At
  <2>2. session[s].infers - session[s].steps \in {0, 1}
    BY <2>1 DEF Own, Counted
  <2>3. CASE engine = "dreamzero"
    BY <2>1, <2>2, <2>3 DEF Own, HeadCounted, Shut, Pcs
  <2>4. QED  BY <2>2, <2>3
<1>2. QED  BY <1>1, ChunkInvariant, PTL

\* The token VLA's KV cache holds one executed chunk for each step the host has
\* seen (append_executed), unless the decode after it has raised.
THEOREM OneCachedChunkPerStep == Spec => []OneChunkPerStep
<1>1. Inv => OneChunkPerStep
  BY DEF Inv, Own, CacheCounted, OneChunkPerStep, At
<1>2. QED  BY <1>1, ChunkInvariant, PTL

(***************************************************************************)
(* What the cache of a LingBot-VA session holds                            *)
(***************************************************************************)
\* The executed entries come first: v of the seed latent of frame 0, then a of
\* actions; what stands behind them was predicted.
Committed(q, v, a) ==
    /\ q \in Seq(Blocks) /\ v \in Nat /\ a \in {0, 1} /\ v + a <= Len(q)
    /\ \A i \in DOMAIN q : q[i].predicted <=> i > v + a
    /\ \A i \in 1 .. v : q[i].stream = "video" /\ q[i].start = 0 /\ q[i].frames = 1
    /\ \A i \in v + 1 .. v + a : q[i].stream = "action"

\* The predicted video entries stand for the frames from b up to n, each for
\* its own.
Ahead(q) == {i \in DOMAIN q : q[i].stream = "video" /\ q[i].predicted = TRUE}
Tiled(q, b, n) ==
    /\ q \in Seq(Blocks)
    /\ \A i, j \in Ahead(q) : i # j => Frames(q[i]) \cap Frames(q[j]) = {}
    /\ UNION {Frames(q[i]) : i \in Ahead(q)} = b .. n - 1

\* Frame 0 is executed once the clock has moved; a grounding that raises between
\* its forwards leaves one more entry of it.
Base(l) == IF l.clock = 0 THEN 0 ELSE 1

\* Where a call is says how far the entries reach.  A session with nothing
\* parked has nothing predicted in its cache.
Tiling(l, q) == engine = "lingbot_va" /\ ~ l.broken =>
    /\ l.clock = 0 => l.steps = 0
    /\ l.pc \in {"video", "action"} => l.clock > 0
    /\ l.pc # "ground" => Committed(q, l.torn + Base(l), Base(l))
    /\ l.pc = "ground" => l.clock = 0 /\ Committed(q, l.torn + 1, 0) /\ Len(q) = l.torn + 1
    /\ l.pc \in {"encode", "video", "plan_video"} => Tiled(q, Base(l), l.clock)
    /\ l.pc \in SecondLoop => Tiled(q, Base(l), l.clock + FrameChunkSize)
    /\ l.pc \in {"idle", "recondition"} =>
          \/ Tiled(q, Base(l), l.clock + FrameChunkSize) /\ l.pending # NoProposal
          \/ l.clock = 0 /\ Tiled(q, 0, 0)

TilingInv == \A s \in Sessions : Tiling(session[s], cache[s])

LEMMA NothingCached == Committed(<<>>, 0, 0) /\ Tiled(<<>>, 0, 0)
<1>1. <<>> \in Seq(Blocks) /\ Len(<<>>) = 0 /\ DOMAIN <<>> = {} /\ 1 .. 0 = {} /\ 0 .. 0 - 1 = {}
  BY EmptySeq
<1>2. Ahead(<<>>) = {}
  BY <1>1 DEF Ahead
<1>3. UNION {Frames(<<>>[i]) : i \in Ahead(<<>>)} = {}
  BY <1>2
<1>4. QED  BY <1>1, <1>2, <1>3 DEF Tiled, Committed

\* The elements of a sequence with one more.
LEMMA OneMore ==
    ASSUME NEW q \in Seq(Blocks), NEW b \in Blocks
    PROVE  LET r == Append(q, b) IN
           /\ r \in Seq(Blocks) /\ Len(r) = Len(q) + 1 /\ Len(q) \in Nat
           /\ DOMAIN q = 1 .. Len(q) /\ DOMAIN r = DOMAIN q \cup {Len(q) + 1} /\ r[Len(q) + 1] = b
           /\ \A i \in DOMAIN q : r[i] = q[i]
           /\ Len(q) + 1 \notin DOMAIN q
<1>1. DOMAIN q = 1 .. Len(q) /\ Len(q) \in Nat
  BY LenProperties
<1>2. QED  BY <1>1, AppendProperties

\* A prediction commits nothing.
LEMMA PredictionsDoNotCommit ==
    ASSUME NEW q, NEW v, NEW a, Committed(q, v, a), NEW b \in Blocks, b.predicted
    PROVE  Committed(Append(q, b), v, a)
<1> DEFINE r == Append(q, b)
<1>1. /\ r \in Seq(Blocks) /\ Len(r) = Len(q) + 1 /\ Len(q) \in Nat
      /\ DOMAIN q = 1 .. Len(q) /\ DOMAIN r = DOMAIN q \cup {Len(q) + 1} /\ r[Len(q) + 1] = b
      /\ \A i \in DOMAIN q : r[i] = q[i]
  BY OneMore DEF Committed
<1> HIDE DEF r
<1>2. \A i \in 1 .. v + a : i \in DOMAIN q /\ r[i] = q[i]
  BY <1>1 DEF Committed
<1>3. ASSUME NEW i \in DOMAIN r
      PROVE  r[i].predicted <=> i > v + a
  <2>1. CASE i \in DOMAIN q
    BY <1>1, <2>1 DEF Committed
  <2>2. CASE i = Len(q) + 1
    BY <1>1, <2>2 DEF Committed
  <2>3. QED  BY <1>1, <2>1, <2>2
<1>4. Committed(r, v, a)
  BY <1>1, <1>2, <1>3 DEF Committed
<1>5. QED  BY <1>4 DEF r

\* The two forwards of a grounding, behind the entries that raised ones left.
LEMMA VideoCommits ==
    ASSUME NEW q, NEW v, Committed(q, v, 0), Len(q) = v, NEW b \in Blocks,
           ~ b.predicted, b.stream = "video", b.start = 0, b.frames = 1
    PROVE  Committed(Append(q, b), v + 1, 0) /\ Len(Append(q, b)) = v + 1
<1> DEFINE r == Append(q, b)
<1>1. /\ r \in Seq(Blocks) /\ Len(r) = Len(q) + 1 /\ Len(q) \in Nat
      /\ DOMAIN q = 1 .. Len(q) /\ DOMAIN r = DOMAIN q \cup {Len(q) + 1} /\ r[Len(q) + 1] = b
      /\ \A i \in DOMAIN q : r[i] = q[i]
  BY OneMore DEF Committed
<1> HIDE DEF r
<1>2. v \in Nat /\ DOMAIN q = 1 .. v /\ DOMAIN r = 1 .. v + 1 /\ r[v + 1] = b
  BY <1>1
<1>3. \A i \in 1 .. v : ~ r[i].predicted /\ r[i].stream = "video" /\ r[i].start = 0 /\ r[i].frames = 1
  BY <1>1, <1>2 DEF Committed
<1>4. \A i \in 1 .. v + 1 : ~ r[i].predicted /\ r[i].stream = "video" /\ r[i].start = 0 /\ r[i].frames = 1
  BY <1>2, <1>3
<1>5. Committed(r, v + 1, 0) /\ Len(r) = v + 1
  BY <1>1, <1>2, <1>4 DEF Committed
<1>6. QED  BY <1>5 DEF r

LEMMA ActionsCommit ==
    ASSUME NEW q, NEW v, Committed(q, v, 0), Len(q) = v, NEW b \in Blocks,
           ~ b.predicted, b.stream = "action"
    PROVE  Committed(Append(q, b), v, 1) /\ Len(Append(q, b)) = v + 1
<1> DEFINE r == Append(q, b)
<1>1. /\ r \in Seq(Blocks) /\ Len(r) = Len(q) + 1 /\ Len(q) \in Nat
      /\ DOMAIN q = 1 .. Len(q) /\ DOMAIN r = DOMAIN q \cup {Len(q) + 1} /\ r[Len(q) + 1] = b
      /\ \A i \in DOMAIN q : r[i] = q[i]
  BY OneMore DEF Committed
<1> HIDE DEF r
<1>2. v \in Nat /\ DOMAIN q = 1 .. v /\ DOMAIN r = 1 .. v + 1 /\ r[v + 1] = b
  BY <1>1
<1>3. \A i \in 1 .. v : ~ r[i].predicted /\ r[i].stream = "video" /\ r[i].start = 0 /\ r[i].frames = 1
  BY <1>1, <1>2 DEF Committed
<1>4. \A i \in DOMAIN r : ~ r[i].predicted /\ ~ (i > v + 1)
  BY <1>2, <1>3
<1>5. Committed(r, v, 1) /\ Len(r) = v + 1
  BY <1>1, <1>2, <1>3, <1>4 DEF Committed
<1>6. QED  BY <1>5 DEF r

\* clear_pred_cache leaves the committed entries where they are.
LEMMA ClearingKeepsTheCommitted ==
    ASSUME NEW q, NEW v, Committed(q, v, 0)
    PROVE  Committed(Executed(q), v, 0) /\ Len(Executed(q)) = v
<1>1. q \in Seq(Blocks) /\ v \in Nat /\ v <= Len(q) /\ Len(q) \in Nat /\ DOMAIN q = 1 .. Len(q)
  BY LenProperties DEF Committed
<1>2. PICK kept : kept = {i \in DOMAIN q : ~ q[i].predicted}
  OBVIOUS
<1>3. kept = 1 .. v
  BY <1>1, <1>2 DEF Committed
<1>4. Executed(q) = [n \in 1 .. Cardinality(kept) |->
                        q[CHOOSE i \in kept : Cardinality({j \in kept : j <= i}) = n]]
  BY <1>2 DEF Executed
<1>5. \A n \in Nat : Cardinality(1 .. n) = n
  BY FS_Interval
<1>6. Cardinality(kept) = v
  BY <1>1, <1>3, <1>5
<1>7. ASSUME NEW i \in kept
      PROVE  Cardinality({j \in kept : j <= i}) = i
  <2>1. i \in Nat /\ {j \in kept : j <= i} = 1 .. i
    BY <1>1, <1>3
  <2>2. QED  BY <1>5, <2>1
<1>8. ASSUME NEW n \in 1 .. v
      PROVE  (CHOOSE i \in kept : Cardinality({j \in kept : j <= i}) = n) = n
  <2>1. n \in kept /\ Cardinality({j \in kept : j <= n}) = n
    BY <1>3, <1>7
  <2>2. \A i \in kept : Cardinality({j \in kept : j <= i}) = n => i = n
    BY <1>7
  <2>3. QED  BY <2>1, <2>2
<1>9. PICK e : e = Executed(q)
  OBVIOUS
<1>10. e = [n \in 1 .. v |-> q[n]]
  BY <1>4, <1>6, <1>8, <1>9
<1>11. \A n \in 1 .. v : q[n] \in Blocks
  BY <1>1, ElementOfSeq
<1>12. e \in Seq(Blocks) /\ Len(e) = v
  BY <1>1, <1>10, <1>11, IsASeq
<1>13. DOMAIN e = 1 .. v /\ \A i \in 1 .. v : e[i] = q[i]
  BY <1>10
<1>14. Committed(e, v, 0)
  BY <1>1, <1>12, <1>13 DEF Committed
<1>15. QED  BY <1>9, <1>12, <1>14

\* Where everything was executed nothing is ahead.
LEMMA NothingAhead ==
    ASSUME NEW q, NEW v, NEW a, Committed(q, v, a), Len(q) = v + a, NEW n \in Nat
    PROVE  Tiled(q, n, n)
<1>1. q \in Seq(Blocks) /\ DOMAIN q = 1 .. v + a
  BY LenProperties DEF Committed
<1>2. Ahead(q) = {}
  BY <1>1 DEF Committed, Ahead
<1>3. UNION {Frames(q[i]) : i \in Ahead(q)} = {} /\ n .. n - 1 = {}
  BY <1>2
<1>4. QED  BY <1>1, <1>2, <1>3 DEF Tiled

\* A predicted action entry stands for no frame of the video.
LEMMA ActionsDoNotTile ==
    ASSUME NEW q, NEW m, NEW n, Tiled(q, m, n), NEW b \in Blocks, b.stream = "action"
    PROVE  Tiled(Append(q, b), m, n)
<1> DEFINE r == Append(q, b)
<1>1. /\ r \in Seq(Blocks) /\ DOMAIN r = DOMAIN q \cup {Len(q) + 1} /\ r[Len(q) + 1] = b
      /\ \A i \in DOMAIN q : r[i] = q[i]
  BY OneMore DEF Tiled
<1> HIDE DEF r
<1>2. Ahead(r) = Ahead(q)
  BY <1>1 DEF Ahead
<1>3. \A i \in Ahead(r) : r[i] = q[i]
  BY <1>1, <1>2 DEF Ahead
<1>4. {Frames(r[i]) : i \in Ahead(r)} = {Frames(q[i]) : i \in Ahead(q)}
  BY <1>2, <1>3
<1>5. \A i, j \in Ahead(r) : i # j => Frames(r[i]) \cap Frames(r[j]) = {}
  BY <1>2, <1>3 DEF Tiled
<1>6. Tiled(r, m, n)
  BY <1>1, <1>4, <1>5 DEF Tiled
<1>7. QED  BY <1>6 DEF r

\* A video entry that starts at the clock goes on where the last one stopped.
LEMMA VideosTile ==
    ASSUME NEW q, NEW m \in Nat, NEW n \in Nat, m <= n, Tiled(q, m, n), NEW b \in Blocks,
           b.stream = "video", b.predicted = TRUE, b.start = n
    PROVE  Tiled(Append(q, b), m, n + b.frames)
<1> DEFINE r == Append(q, b)
           k == Len(q) + 1
<1>1. /\ r \in Seq(Blocks) /\ DOMAIN r = DOMAIN q \cup {k} /\ r[k] = b
      /\ \A i \in DOMAIN q : r[i] = q[i]
      /\ k \notin DOMAIN q
  BY OneMore DEF Tiled
<1> HIDE DEF r, k
<1>2. b.frames \in Nat
  BY DEF Blocks
<1>3. Ahead(r) = Ahead(q) \cup {k} /\ k \notin Ahead(q)
  BY <1>1 DEF Ahead
<1>4. \A i \in Ahead(q) : r[i] = q[i]
  BY <1>1 DEF Ahead
<1>5. UNION {Frames(q[i]) : i \in Ahead(q)} = m .. n - 1
  BY DEF Tiled
<1>6. Frames(b) = n .. n + b.frames - 1
  BY DEF Frames
<1>7. \A i \in Ahead(q) : Frames(q[i]) \subseteq m .. n - 1
  BY <1>5
<1>8. (m .. n - 1) \cap Frames(b) = {}
  BY <1>2, <1>6
<1>9. \A i \in Ahead(q) : Frames(q[i]) \cap Frames(b) = {}
  BY <1>7, <1>8
<1>10. ASSUME NEW i \in Ahead(r), NEW j \in Ahead(r), i # j
       PROVE  Frames(r[i]) \cap Frames(r[j]) = {}
  <2>1. CASE i \in Ahead(q) /\ j \in Ahead(q)
    BY <1>4, <1>10, <2>1 DEF Tiled
  <2>2. CASE i = k
    BY <1>1, <1>3, <1>4, <1>9, <1>10, <2>2
  <2>3. CASE j = k
    BY <1>1, <1>3, <1>4, <1>9, <1>10, <2>3
  <2>4. QED  BY <1>3, <2>1, <2>2, <2>3
<1>11. UNION {Frames(r[i]) : i \in Ahead(r)} = (m .. n - 1) \cup Frames(b)
  <2>1. {Frames(r[i]) : i \in Ahead(r)} = {Frames(q[i]) : i \in Ahead(q)} \cup {Frames(b)}
    BY <1>1, <1>3, <1>4
  <2>2. QED  BY <1>5, <2>1
<1>12. (m .. n - 1) \cup Frames(b) = m .. (n + b.frames) - 1
  BY <1>2, <1>6
<1>13. Tiled(r, m, n + b.frames)
  BY <1>1, <1>10, <1>11, <1>12 DEF Tiled
<1>14. QED  BY <1>13 DEF r

(***************************************************************************)
(* A step of a LingBot-VA session                                          *)
(***************************************************************************)
LEMMA TilingStep ==
    ASSUME Inv, TilingInv, NEW s \in Sessions, NEW l, NEW q,
           session' = [session EXCEPT ![s] = l], cache' = [cache EXCEPT ![s] = q],
           engine' = engine, Tiling(l, q)
    PROVE  TilingInv'
<1>1. ASSUME NEW t \in Sessions
      PROVE  Tiling(session[t], cache[t])'
  <2>1. CASE t = s
    <3>1. session'[t] = l /\ cache'[t] = q
      BY <2>1 DEF Inv, Types
    <3>2. QED  BY <3>1 DEF Tiling, Base
  <2>2. CASE t # s
    <3>1. session'[t] = session[t] /\ cache'[t] = cache[t] /\ Tiling(session[t], cache[t])
      BY <2>2 DEF Inv, Types, TilingInv
    <3>2. QED  BY <3>1 DEF Tiling, Base
  <2>3. QED  BY <2>1, <2>2
<1>2. QED  BY <1>1 DEF TilingInv

\* Another engine's cache is not the frames of a video.
LEMMA OtherEngines ==
    ASSUME engine # "lingbot_va", engine' = engine
    PROVE  TilingInv'
BY DEF TilingInv, Tiling

\* A step that leaves the cache alone.
LEMMA SessionTiling ==
    ASSUME Inv, TilingInv, NEW s \in Sessions, NEW l,
           session' = [session EXCEPT ![s] = l], cache' = cache, engine' = engine,
           Tiling(l, cache[s])
    PROVE  TilingInv'
BY Unmoved, TilingStep

\* What is known of a session before its step.
LEMMA TilingFacts ==
    ASSUME Inv, TilingInv, NEW s \in Sessions
    PROVE  /\ session[s] \in SessionType /\ Tiling(session[s], cache[s])
           /\ session[s].clock \in Nat /\ session[s].pending \in Int /\ session[s].rows \in Nat
           /\ session[s].calls \in Nat /\ session[s].steps \in Nat /\ session[s].infers \in Nat
           /\ session[s].torn \in Nat /\ Base(session[s]) \in {0, 1}
           /\ session[s].pc \in Shut => /\ session[s].clock = 0 /\ session[s].steps = 0
                                        /\ session[s].pending = NoProposal /\ ~ session[s].broken
                                        /\ session[s].torn = 0
BY SessionTypes DEF TilingInv, Own, Places, Base

\* Opening, losing and closing a session.
LEMMA OpeningTiles ==
    ASSUME Inv, TilingInv, NEW s \in Sessions, engine = "lingbot_va",
           \/ LoadRaises(s) \/ EncodeRaises(s) \/ ResetLingBot(s) \/ EncodeLingBot(s) \/ Release(s)
    PROVE  TilingInv'
<1>1. /\ session[s] \in SessionType /\ Tiling(session[s], cache[s])
      /\ session[s].pc \in Shut => /\ session[s].clock = 0 /\ session[s].steps = 0
                                   /\ session[s].pending = NoProposal /\ ~ session[s].broken
                                   /\ session[s].torn = 0
  BY TilingFacts
<1>2. CASE LoadRaises(s) \/ EncodeRaises(s)
  <2> DEFINE l == [session[s] EXCEPT !.pc = "lost"]
  <2>1. /\ session' = [session EXCEPT ![s] = l] /\ cache' = cache /\ engine' = engine
        /\ session[s].pc \in {"none", "encode"}
    BY <1>2 DEF LoadRaises, EncodeRaises, Goto, At
  <2>2. l.pc = "lost" /\ l.clock = session[s].clock /\ l.steps = session[s].steps /\ ~ l.broken /\ l.torn = session[s].torn
    BY <1>1, <2>1 DEF SessionType, Shut
  <2> HIDE DEF l
  <2>3. Tiling(l, cache[s])
    BY <1>1, <2>1, <2>2 DEF Tiling, Base, Shut, SecondLoop
  <2>4. QED  BY <2>1, <2>3, SessionTiling
<1>3. CASE ResetLingBot(s)
  <2> DEFINE l == [session[s] EXCEPT !.pc = "encode"]
  <2>1. /\ session' = [session EXCEPT ![s] = l] /\ cache' = [cache EXCEPT ![s] = <<>>]
        /\ engine' = engine /\ session[s].pc = "none"
    BY <1>3 DEF ResetLingBot, Goto, At
  <2>2. l.pc = "encode" /\ l.clock = 0 /\ l.steps = 0 /\ ~ l.broken /\ l.torn = 0
    BY <1>1, <2>1 DEF SessionType, Shut
  <2> HIDE DEF l
  <2>3. Tiling(l, <<>>)
    BY <2>2, NothingCached DEF Tiling, Base, SecondLoop
  <2>4. QED  BY <2>1, <2>3, TilingStep
<1>4. CASE EncodeLingBot(s)
  <2> DEFINE l == [session[s] EXCEPT !.pc = "idle"]
  <2>1. /\ session' = [session EXCEPT ![s] = l] /\ cache' = cache /\ engine' = engine
        /\ session[s].pc = "encode"
    BY <1>4 DEF EncodeLingBot, Goto, At
  <2>2. l.pc = "idle" /\ l.clock = 0 /\ l.steps = 0 /\ ~ l.broken /\ session[s].clock = 0
        /\ l.torn = session[s].torn
    BY <1>1, <2>1 DEF SessionType, Shut
  <2> HIDE DEF l
  <2>3. Tiling(l, cache[s])
    BY <1>1, <2>1, <2>2 DEF Tiling, Base, Shut, SecondLoop
  <2>4. QED  BY <2>1, <2>3, SessionTiling
<1>5. CASE Release(s)
  <2> DEFINE l == [Fresh EXCEPT !.pc = "closed"]
  <2>1. /\ session' = [session EXCEPT ![s] = l] /\ cache' = [cache EXCEPT ![s] = <<>>] /\ engine' = engine
    BY <1>5 DEF Release
  <2>2. l.pc = "closed" /\ l.clock = 0 /\ l.steps = 0 /\ l.torn = 0
    BY DEF Fresh
  <2> HIDE DEF l
  <2>3. Tiling(l, <<>>)
    BY <2>2, NothingCached DEF Tiling, Base, SecondLoop
  <2>4. QED  BY <2>1, <2>3, TilingStep
<1>6. QED  BY <1>2, <1>3, <1>4, <1>5

\* The calls that begin, and those that raise.
LEMMA CallsTile ==
    ASSUME Inv, TilingInv, NEW s \in Sessions, engine = "lingbot_va",
           \/ \E rows \in 0 .. MaxRows : StepCall(s, rows)
           \/ RefusedLingBot(s) \/ Plan(s) \/ InferRaises(s)
    PROVE  TilingInv'
<1>1. /\ session[s] \in SessionType /\ Tiling(session[s], cache[s])
      /\ session[s].clock \in Nat /\ session[s].calls \in Nat
      /\ session[s].pc \in Shut => /\ session[s].clock = 0 /\ session[s].steps = 0
                                   /\ session[s].pending = NoProposal /\ ~ session[s].broken
                                   /\ session[s].torn = 0
  BY TilingFacts
<1>2. PICK n \in Nat : n = session[s].calls + 1
  BY <1>1
<1>3. ASSUME NEW rows \in 0 .. MaxRows, StepCall(s, rows)
      PROVE  TilingInv'
  <2> DEFINE l == [session[s] EXCEPT !.pc = "recondition", !.rows = rows, !.calls = n]
  <2>1. /\ session' = [session EXCEPT ![s] = l] /\ cache' = cache /\ engine' = engine
        /\ session[s].pc = "idle"
    BY <1>2, <1>3 DEF StepCall, At
  <2>2. /\ l.pc = "recondition" /\ l.clock = session[s].clock /\ l.steps = session[s].steps
        /\ l.broken = session[s].broken /\ l.pending = session[s].pending /\ l.torn = session[s].torn
    BY <1>1 DEF SessionType
  <2> HIDE DEF l
  <2>3. Tiling(l, cache[s])
    BY <1>1, <2>1, <2>2 DEF Tiling, Base, SecondLoop
  <2>4. QED  BY <2>1, <2>3, SessionTiling
<1>4. CASE RefusedLingBot(s)
  <2> DEFINE l == [session[s] EXCEPT !.calls = n]
  <2>1. /\ session' = [session EXCEPT ![s] = l] /\ cache' = cache /\ engine' = engine
    BY <1>2, <1>4 DEF RefusedLingBot, Refused
  <2>2. /\ l.pc = session[s].pc /\ l.clock = session[s].clock /\ l.steps = session[s].steps
        /\ l.broken = session[s].broken /\ l.pending = session[s].pending /\ l.torn = session[s].torn
    BY <1>1 DEF SessionType
  <2> HIDE DEF l
  <2>3. Tiling(l, cache[s])
    BY <1>1, <2>1, <2>2 DEF Tiling, Base, SecondLoop
  <2>4. QED  BY <2>1, <2>3, SessionTiling
<1>5. CASE Plan(s)
  <2> DEFINE l == [session[s] EXCEPT !.pc = "plan_video", !.calls = n]
  <2>1. /\ session' = [session EXCEPT ![s] = l] /\ cache' = cache /\ engine' = engine
        /\ session[s].pc = "idle" /\ session[s].pending = NoProposal
    BY <1>2, <1>5 DEF Plan, At
  <2>2. /\ l.pc = "plan_video" /\ l.clock = session[s].clock /\ l.steps = session[s].steps
        /\ l.broken = session[s].broken /\ l.torn = session[s].torn
    BY <1>1 DEF SessionType
  <2> HIDE DEF l
  <2>3. Tiling(l, cache[s])
    BY <1>1, <2>1, <2>2 DEF Tiling, Base, SecondLoop
  <2>4. QED  BY <2>1, <2>3, SessionTiling
<1>6. CASE InferRaises(s)
  <2> DEFINE l == [session[s] EXCEPT !.pc = "idle", !.broken = TRUE]
  <2>1. /\ session' = [session EXCEPT ![s] = l] /\ cache' = cache /\ engine' = engine
    BY <1>6 DEF InferRaises
  <2>2. l.broken = TRUE
    BY <1>1 DEF SessionType
  <2> HIDE DEF l
  <2>3. Tiling(l, cache[s])
    BY <2>2 DEF Tiling
  <2>4. QED  BY <2>1, <2>3, SessionTiling
<1>7. QED  BY <1>3, <1>4, <1>5, <1>6

\* A step grounds the session, or imagines, and moves its clock to the end of
\* its frames.
LEMMA GroundVideoTiles ==
    ASSUME Inv, TilingInv, NEW s \in Sessions, GroundVideo(s)
    PROVE  TilingInv'
<1>1. /\ session[s] \in SessionType /\ Tiling(session[s], cache[s]) /\ session[s].torn \in Nat
      /\ engine = "lingbot_va" /\ engine' = engine
      /\ session[s].pc = "recondition" /\ session[s].clock = 0
  BY TilingFacts DEF GroundVideo, At
<1>2. PICK b : b = Block("video", 0, 1, FALSE)
  OBVIOUS
<1>3. b \in Blocks /\ b.stream = "video" /\ b.start = 0 /\ b.frames = 1 /\ ~ b.predicted
  BY <1>2 DEF Blocks, Block
<1>4. PICK e : e = Executed(cache[s])
  OBVIOUS
<1>5. PICK q : q = Append(e, b)
  OBVIOUS
<1> DEFINE l == [session[s] EXCEPT !.pc = "ground"]
<1>6. session' = [session EXCEPT ![s] = l] /\ cache' = [cache EXCEPT ![s] = q]
  BY <1>2, <1>4, <1>5 DEF GroundVideo, Goto
<1>7. /\ l.pc = "ground" /\ l.clock = 0 /\ l.steps = session[s].steps
      /\ l.broken = session[s].broken /\ l.torn = session[s].torn
  BY <1>1 DEF SessionType
<1> HIDE DEF l
<1>8. ASSUME ~ session[s].broken
      PROVE  Committed(q, session[s].torn + 1, 0) /\ Len(q) = session[s].torn + 1
  <2>1. PICK v \in Nat : v = session[s].torn
    BY <1>1
  <2>2. Committed(cache[s], v, 0)
    BY <1>1, <1>8, <2>1 DEF Tiling, Base
  <2>3. Committed(e, v, 0) /\ Len(e) = v
    BY <1>4, <2>2, ClearingKeepsTheCommitted
  <2>4. Committed(q, v + 1, 0) /\ Len(q) = v + 1
    BY <1>3, <1>5, <2>3, VideoCommits
  <2>5. QED  BY <2>1, <2>4
<1>9. Tiling(l, q)
  BY <1>1, <1>7, <1>8 DEF Tiling, SecondLoop
<1>10. QED  BY <1>1, <1>6, <1>9, TilingStep

LEMMA GroundActionTiles ==
    ASSUME Inv, TilingInv, NEW s \in Sessions, GroundAction(s)
    PROVE  TilingInv'
<1>1. /\ session[s] \in SessionType /\ Tiling(session[s], cache[s]) /\ session[s].torn \in Nat
      /\ session[s].clock \in Nat /\ session[s].rows \in Nat
      /\ engine = "lingbot_va" /\ engine' = engine /\ session[s].pc = "ground"
  BY TilingFacts DEF GroundAction, At
<1>2. PICK b : b = Block("action", 0, session[s].rows \div ActionPerFrame, FALSE)
  OBVIOUS
<1>3. session[s].rows \div ActionPerFrame \in Nat
  BY <1>1, ChunkAssumption
<1>4. b \in Blocks /\ b.stream = "action" /\ ~ b.predicted
  BY <1>2, <1>3 DEF Blocks, Block
<1>5. PICK q : q = Append(cache[s], b)
  OBVIOUS
<1>6. PICK k : k = session[s].clock + 1
  OBVIOUS
<1> DEFINE l == [session[s] EXCEPT !.pc = "video", !.rows = 0, !.clock = k]
<1>7. session' = [session EXCEPT ![s] = l] /\ cache' = [cache EXCEPT ![s] = q]
  BY <1>2, <1>5, <1>6 DEF GroundAction, Consume
<1>8. l.pc = "video" /\ l.clock = k /\ l.broken = session[s].broken /\ l.torn = session[s].torn
  BY <1>1 DEF SessionType
<1> HIDE DEF l
<1>9. ASSUME ~ session[s].broken
      PROVE  k = 1 /\ Committed(q, session[s].torn + 1, 1) /\ Tiled(q, 1, 1)
  <2>1. PICK v \in Nat : v = session[s].torn + 1
    BY <1>1
  <2>2. Committed(cache[s], v, 0) /\ Len(cache[s]) = v /\ session[s].clock = 0
    BY <1>1, <1>9, <2>1 DEF Tiling
  <2>3. Committed(q, v, 1) /\ Len(q) = v + 1
    BY <1>4, <1>5, <2>2, ActionsCommit
  <2>4. Tiled(q, 1, 1)
    BY <2>3, NothingAhead
  <2>5. QED  BY <1>6, <2>1, <2>2, <2>3, <2>4
<1>10. Tiling(l, q)
  BY <1>1, <1>6, <1>8, <1>9 DEF Tiling, Base, SecondLoop
<1>11. QED  BY <1>1, <1>7, <1>10, TilingStep

\* A grounding that raises leaves what was executed, and one entry of frame 0
\* more when its video was committed.
LEMMA RaisedGroundingTiles ==
    ASSUME Inv, TilingInv, NEW s \in Sessions, GroundVideoRaises(s) \/ GroundActionRaises(s)
    PROVE  TilingInv'
<1>1. /\ session[s] \in SessionType /\ Tiling(session[s], cache[s]) /\ session[s].torn \in Nat
      /\ session[s].clock \in Nat /\ engine = "lingbot_va" /\ engine' = engine
  BY TilingFacts DEF GroundVideoRaises, GroundActionRaises
<1>2. CASE GroundVideoRaises(s)
  <2>1. PICK q : q = Executed(cache[s])
    OBVIOUS
  <2> DEFINE l == [session[s] EXCEPT !.pc = "idle", !.rows = 0]
  <2>2. /\ session' = [session EXCEPT ![s] = l] /\ cache' = [cache EXCEPT ![s] = q]
        /\ session[s].clock = 0 /\ session[s].pc = "recondition"
    BY <1>2, <2>1 DEF GroundVideoRaises, At
  <2>3. /\ l.pc = "idle" /\ l.clock = 0 /\ l.broken = session[s].broken
        /\ l.steps = session[s].steps /\ l.torn = session[s].torn
    BY <1>1, <2>2 DEF SessionType
  <2> HIDE DEF l
  <2>4. ASSUME ~ session[s].broken
        PROVE  Committed(q, session[s].torn, 0) /\ Tiled(q, 0, 0) /\ session[s].steps = 0
    <3>1. PICK v \in Nat : v = session[s].torn
      BY <1>1
    <3>2. Committed(cache[s], v, 0) /\ session[s].steps = 0
      BY <1>1, <2>2, <2>4, <3>1 DEF Tiling, Base
    <3>3. Committed(q, v, 0) /\ Len(q) = v
      BY <2>1, <3>2, ClearingKeepsTheCommitted
    <3>4. Tiled(q, 0, 0)
      BY <3>3, NothingAhead
    <3>5. QED  BY <3>1, <3>2, <3>3, <3>4
  <2>5. Tiling(l, q)
    BY <1>1, <2>3, <2>4 DEF Tiling, Base, SecondLoop
  <2>6. QED  BY <1>1, <2>2, <2>5, TilingStep
<1>3. CASE GroundActionRaises(s)
  <2>1. PICK n : n = session[s].torn + 1
    OBVIOUS
  <2> DEFINE l == [session[s] EXCEPT !.pc = "idle", !.rows = 0, !.torn = n]
  <2>2. /\ session' = [session EXCEPT ![s] = l] /\ cache' = cache /\ session[s].pc = "ground"
    BY <1>3, <2>1 DEF GroundActionRaises, At
  <2>3. /\ l.pc = "idle" /\ l.clock = session[s].clock /\ l.broken = session[s].broken
        /\ l.steps = session[s].steps /\ l.torn = n
    BY <1>1 DEF SessionType
  <2> HIDE DEF l
  <2>4. ASSUME ~ session[s].broken
        PROVE  /\ session[s].clock = 0 /\ session[s].steps = 0
               /\ Committed(cache[s], n, 0) /\ Tiled(cache[s], 0, 0)
    <3>1. /\ session[s].clock = 0 /\ session[s].steps = 0
          /\ Committed(cache[s], n, 0) /\ Len(cache[s]) = n
      BY <1>1, <2>1, <2>2, <2>4 DEF Tiling
    <3>2. n \in Nat /\ n = n + 0
      BY <1>1, <2>1
    <3>3. Tiled(cache[s], 0, 0)
      BY <3>1, <3>2, NothingAhead
    <3>4. QED  BY <3>1, <3>3
  <2>5. n = n + 0
    BY <1>1, <2>1
  <2>6. Tiling(l, cache[s])
    BY <1>1, <2>3, <2>4, <2>5 DEF Tiling, Base, SecondLoop
  <2>7. QED  BY <1>1, <2>2, <2>6, SessionTiling
<1>4. QED  BY <1>2, <1>3

LEMMA ImagineTiles ==
    ASSUME Inv, TilingInv, NEW s \in Sessions, ImagineLingBot(s)
    PROVE  TilingInv'
<1>1. /\ session[s] \in SessionType /\ Tiling(session[s], cache[s])
      /\ session[s].clock \in Nat /\ session[s].clock # 0
      /\ session[s].pc = "recondition" /\ engine = "lingbot_va" /\ engine' = engine
  BY TilingFacts DEF ImagineLingBot, At
<1>2. PICK k : k = session[s].clock + FrameChunkSize
  OBVIOUS
<1> DEFINE l == [session[s] EXCEPT !.pc = "video", !.rows = 0, !.clock = k]
<1>3. session' = [session EXCEPT ![s] = l] /\ cache' = cache
  BY <1>2 DEF ImagineLingBot, Consume
<1>4. l.pc = "video" /\ l.clock = k /\ l.broken = session[s].broken /\ l.torn = session[s].torn
  BY <1>1 DEF SessionType
<1>5. k > 0
  BY <1>1, <1>2, ChunkAssumption
<1> HIDE DEF l
<1>6. Tiling(l, cache[s])
  BY <1>1, <1>2, <1>4, <1>5 DEF Tiling, Base, SecondLoop
<1>7. QED  BY <1>1, <1>3, <1>6, SessionTiling

\* The two loops cache what they predict.
LEMMA LoopsTile ==
    ASSUME Inv, TilingInv, NEW s \in Sessions, engine = "lingbot_va",
           VideoLoop(s) \/ ActionLoop(s)
    PROVE  TilingInv'
<1>1. /\ session[s] \in SessionType /\ Tiling(session[s], cache[s])
      /\ session[s].clock \in Nat /\ session[s].steps \in Nat /\ session[s].infers \in Nat
      /\ engine' = engine
  BY TilingFacts DEF VideoLoop, ActionLoop
<1>2. PICK m \in Nat : m = Base(session[s]) /\ m <= session[s].clock
  BY <1>1 DEF Base
<1>3. CASE VideoLoop(s)
  <2>1. PICK b : b = Block("video", session[s].clock, FrameChunkSize, TRUE)
    OBVIOUS
  <2>2. /\ b \in Blocks /\ b.stream = "video" /\ b.start = session[s].clock
        /\ b.frames = FrameChunkSize /\ b.predicted = TRUE
    BY <1>1, <2>1, ChunkAssumption DEF Blocks, Block
  <2>3. PICK q : q = Append(cache[s], b)
    OBVIOUS
  <2>4. PICK pc : pc = IF session[s].pc = "video" THEN "action" ELSE "plan_action"
    OBVIOUS
  <2> DEFINE l == [session[s] EXCEPT !.pc = pc]
  <2>5. /\ session' = [session EXCEPT ![s] = l] /\ cache' = [cache EXCEPT ![s] = q]
        /\ session[s].pc \in {"video", "plan_video"}
    BY <1>3, <2>1, <2>3, <2>4 DEF VideoLoop, Goto, At
  <2>6. /\ l.pc = pc /\ l.clock = session[s].clock /\ l.steps = session[s].steps
        /\ l.broken = session[s].broken /\ l.torn = session[s].torn
    BY <1>1 DEF SessionType
  <2> HIDE DEF l
  <2>7. ASSUME ~ session[s].broken
        PROVE  /\ Tiled(q, m, session[s].clock + FrameChunkSize)
               /\ Committed(q, session[s].torn + m, m)
    <3>1. Tiled(cache[s], m, session[s].clock) /\ Committed(cache[s], session[s].torn + m, m)
      BY <1>1, <1>2, <2>5, <2>7 DEF Tiling
    <3>2. Tiled(q, m, session[s].clock + FrameChunkSize)
      BY <1>1, <1>2, <2>2, <2>3, <3>1, VideosTile
    <3>3. Committed(q, session[s].torn + m, m)
      BY <2>2, <2>3, <3>1, PredictionsDoNotCommit
    <3>4. QED  BY <3>2, <3>3
  <2>8. Base(l) = m
    BY <1>2, <2>6 DEF Base
  <2>9. Tiling(l, q)
    BY <1>1, <2>4, <2>5, <2>6, <2>7, <2>8 DEF Tiling, SecondLoop
  <2>10. QED  BY <1>1, <2>5, <2>9, TilingStep
<1>4. CASE ActionLoop(s)
  <2>1. PICK b : b = Block("action", session[s].clock, FrameChunkSize, TRUE)
    OBVIOUS
  <2>2. b \in Blocks /\ b.stream = "action" /\ b.predicted
    BY <1>1, <2>1, ChunkAssumption DEF Blocks, Block
  <2>3. PICK q : q = Append(cache[s], b)
    OBVIOUS
  <2>4. PICK n : n = session[s].infers + 1
    OBVIOUS
  <2>5. PICK k : k = IF session[s].pc \in {"video", "action"} THEN session[s].steps + 1 ELSE session[s].steps
    OBVIOUS
  <2>6. PICK c : c = session[s].clock
    OBVIOUS
  <2> DEFINE l == [session[s] EXCEPT !.pc = "idle", !.infers = n, !.pending = c, !.steps = k]
  <2>7. /\ session' = [session EXCEPT ![s] = l] /\ cache' = [cache EXCEPT ![s] = q]
        /\ session[s].pc \in SecondLoop
    BY <1>4, <2>1, <2>3, <2>4, <2>5, <2>6 DEF ActionLoop, Park, SecondLoop
  <2>8. /\ l.pc = "idle" /\ l.clock = session[s].clock /\ l.steps = k /\ l.pending = c
        /\ l.broken = session[s].broken /\ l.torn = session[s].torn
    BY <1>1 DEF SessionType
  <2> HIDE DEF l
  <2>9. ASSUME ~ session[s].broken
        PROVE  /\ Tiled(q, m, session[s].clock + FrameChunkSize)
               /\ Committed(q, session[s].torn + m, m)
    <3>1. /\ Tiled(cache[s], m, session[s].clock + FrameChunkSize)
          /\ Committed(cache[s], session[s].torn + m, m)
      BY <1>1, <1>2, <2>7, <2>9 DEF Tiling, SecondLoop
    <3>2. Tiled(q, m, session[s].clock + FrameChunkSize)
      BY <2>2, <2>3, <3>1, ActionsDoNotTile
    <3>3. Committed(q, session[s].torn + m, m)
      BY <2>2, <2>3, <3>1, PredictionsDoNotCommit
    <3>4. QED  BY <3>2, <3>3
  <2>10. c # NoProposal
    BY <1>1, <2>6 DEF NoProposal
  <2>11. ~ session[s].broken /\ session[s].clock = 0 => k = 0
    BY <1>1, <2>5, <2>7 DEF Tiling, SecondLoop
  <2>12. Base(l) = m
    BY <1>2, <2>8 DEF Base
  <2>13. Tiling(l, q)
    BY <1>1, <2>8, <2>9, <2>10, <2>11, <2>12 DEF Tiling, SecondLoop
  <2>14. QED  BY <1>1, <2>7, <2>13, TilingStep
<1>5. QED  BY <1>3, <1>4

LEMMA TilingInit == Init => TilingInv
<1> SUFFICES ASSUME Init, NEW s \in Sessions PROVE Tiling(session[s], cache[s])
  BY DEF TilingInv
<1>1. session[s] = Fresh /\ cache[s] = <<>> /\ Fresh.pc = "none" /\ Fresh.clock = 0 /\ Fresh.steps = 0
      /\ Fresh.torn = 0
  BY DEF Init, Fresh
<1>2. QED  BY <1>1, NothingCached DEF Tiling, Base, SecondLoop

\* Every step keeps the entries tiled.
LEMMA TilingNext == Inv /\ TilingInv /\ [Next]_vars => TilingInv'
<1> SUFFICES ASSUME Inv, TilingInv, [Next]_vars PROVE TilingInv'
  OBVIOUS
<1>1. CASE UNCHANGED vars
  BY <1>1 DEF vars, TilingInv, Tiling, Base
<1>2. CASE BuildLingBot \/ BuildDreamZero
  BY <1>2 DEF BuildLingBot, BuildDreamZero, Built, TilingInv, Tiling, Base
<1>3. ASSUME NEW s \in Sessions,
             \/ LoadRaises(s) \/ EncodeRaises(s) \/ Release(s)
             \/ (\E rows \in 0 .. MaxRows : StepCall(s, rows)) \/ Plan(s) \/ InferRaises(s)
      PROVE  TilingInv'
  <2>1. engine' = engine
    BY <1>3 DEF LoadRaises, EncodeRaises, Release, StepCall, Plan, InferRaises
  <2>2. QED  BY <1>3, <2>1, OpeningTiles, CallsTile, OtherEngines
<1>4. ASSUME NEW s \in Sessions,
             \/ ResetLingBot(s) \/ EncodeLingBot(s) \/ RefusedLingBot(s)
             \/ GroundVideo(s) \/ GroundAction(s) \/ GroundVideoRaises(s) \/ GroundActionRaises(s)
             \/ ImagineLingBot(s) \/ VideoLoop(s) \/ ActionLoop(s)
      PROVE  TilingInv'
  <2>1. engine = "lingbot_va"
    BY <1>4 DEF ResetLingBot, EncodeLingBot, RefusedLingBot, Refused, GroundVideo, GroundAction,
       GroundVideoRaises, GroundActionRaises, ImagineLingBot, VideoLoop, ActionLoop
  <2>2. QED  BY <1>4, <2>1, OpeningTiles, CallsTile, GroundVideoTiles, GroundActionTiles, RaisedGroundingTiles,
           ImagineTiles, LoopsTile
<1>5. ASSUME NEW s \in Sessions,
             \/ LoadVLARaises(s) \/ ResetDreamZero(s) \/ EncodeDreamZero(s) \/ ResetVLA(s) \/ EncodeVLA(s) \/ ResetCosmos3(s)
             \/ RefusedDreamZero(s) \/ RefusedVLA(s) \/ RefusedCosmos3(s)
             \/ ReconditionDreamZero(s) \/ AppendExecuted(s) \/ JointLoop(s) \/ DecodeVLA(s)
             \/ StepCosmos3(s) \/ StepCosmos3Raises(s) \/ PlanVLA(s) \/ PlanCosmos3(s)
      PROVE  TilingInv'
  <2>1. engine # "lingbot_va" /\ engine' = engine
    BY <1>5 DEF LoadVLARaises, ResetDreamZero, EncodeDreamZero, ResetVLA, EncodeVLA, ResetCosmos3, RefusedDreamZero,
       RefusedVLA, RefusedCosmos3, Refused, ReconditionDreamZero, AppendExecuted, JointLoop, DecodeVLA,
       StepCosmos3, StepCosmos3Raises, PlanVLA, PlanCosmos3
  <2>2. QED  BY <2>1, OtherEngines
<1>6. QED  BY <1>1, <1>2, <1>3, <1>4, <1>5 DEF Next

\* What the two parts of the invariant say of a session between calls.
LEMMA TilesTheFramesOf ==
    ASSUME Inv, TilingInv, NEW s \in Sessions, engine = "lingbot_va", At(s, "idle"), ~ session[s].broken
    PROVE  TilesTheFrames(s)
<1>1. /\ Tiling(session[s], cache[s]) /\ session[s].pc = "idle" /\ session[s].clock \in Nat
      /\ session[s].steps \in Nat
  BY TilingFacts DEF At
<1>2. Entries(s, "video", TRUE) = Ahead(cache[s]) /\ Grounded(s) = Base(session[s])
  BY DEF Entries, Ahead, Grounded, Base
<1>3. PICK ahead, covered :
        /\ ahead = Entries(s, "video", TRUE)
        /\ covered = UNION {Frames(cache[s][i]) : i \in ahead}
  OBVIOUS
<1>4. PICK reach : reach = session[s].clock + FrameChunkSize - 1
  OBVIOUS
<1>5. reach = (session[s].clock + FrameChunkSize) - 1
  BY <1>1, <1>4, ChunkAssumption
<1>6. ASSUME NEW m, NEW n, Tiled(cache[s], m, n)
      PROVE  /\ covered = m .. n - 1
             /\ \A i, j \in ahead : i # j => Frames(cache[s][i]) \cap Frames(cache[s][j]) = {}
  BY <1>2, <1>3, <1>6, Zenon DEF Tiled
<1>7. CASE Tiled(cache[s], Base(session[s]), session[s].clock + FrameChunkSize)
  <2>1. covered = Grounded(s) .. reach
    BY <1>2, <1>5, <1>6, <1>7
  <2>2. QED  BY <1>3, <1>4, <1>6, <1>7, <2>1 DEF TilesTheFrames
<1>8. CASE session[s].clock = 0 /\ Tiled(cache[s], 0, 0)
  <2>1. Grounded(s) = 0 /\ session[s].steps = 0
    BY <1>1, <1>8 DEF Tiling, Grounded
  <2>2. covered = Grounded(s) .. session[s].clock - 1
    BY <1>6, <1>8, <2>1
  <2>3. ~ (session[s].steps > 0)
    BY <2>1
  <2>4. QED  BY <1>3, <1>6, <1>8, <2>2, <2>3, Zenon DEF TilesTheFrames
<1>9. QED  BY <1>1, <1>7, <1>8 DEF Tiling

LEMMA CommitsWhatRanOf ==
    ASSUME Inv, TilingInv, NEW s \in Sessions, engine = "lingbot_va", At(s, "idle"), ~ session[s].broken
    PROVE  CommitsWhatRan(s)
<1>1. PICK c : c = cache[s]
  OBVIOUS
<1>2. PICK v \in Nat, a \in {0, 1} : v = Grounded(s) + session[s].torn /\ a = Grounded(s)
  BY TilingFacts DEF Grounded
<1>3. Committed(c, v, a)
  <2>1. Committed(c, session[s].torn + Base(session[s]), Base(session[s]))
    BY <1>1, TilingFacts DEF Tiling, At
  <2>2. Base(session[s]) = a /\ session[s].torn + Base(session[s]) = v
    BY <1>2, TilingFacts DEF Base, Grounded
  <2>3. QED  BY <2>1, <2>2
<1>4. c \in Seq(Blocks) /\ Len(c) \in Nat /\ DOMAIN c = 1 .. Len(c) /\ v + a <= Len(c)
  BY <1>3, LenProperties DEF Committed
<1>5. \A i \in DOMAIN c : c[i] \in Blocks
  BY <1>4, ElementOfSeq
<1>6. ASSUME NEW i \in DOMAIN c
      PROVE  c[i].predicted = FALSE <=> i <= v + a
  <2>1. c[i].predicted <=> i > v + a
    BY <1>3 DEF Committed
  <2>2. c[i].predicted \in BOOLEAN
    BY <1>5 DEF Blocks
  <2>3. c[i].predicted = FALSE <=> ~ c[i].predicted
    BY <2>2, Zenon
  <2>4. QED  BY <1>2, <1>4, <2>1, <2>3
<1>7. {i \in DOMAIN c : c[i].stream = "video" /\ c[i].predicted = FALSE} = 1 .. v
  BY <1>2, <1>3, <1>4, <1>6 DEF Committed
<1>8. {i \in DOMAIN c : c[i].stream = "action" /\ c[i].predicted = FALSE} = v + 1 .. v + a
  BY <1>2, <1>3, <1>4, <1>6 DEF Committed
<1>9. Cardinality(1 .. v) = v /\ Cardinality(v + 1 .. v + a) = a
  <2>1. Cardinality(1 .. v) = v
    BY FS_Interval
  <2>2. CASE a = 0
    BY <2>1, <2>2, FS_EmptySet
  <2>3. CASE a = 1
    <3>1. v + 1 .. v + a = {v + 1}
      BY <2>3
    <3>2. QED  BY <2>1, <2>3, <3>1, FS_Singleton
  <2>4. QED  BY <1>2, <2>2, <2>3
<1>10. \A i \in 1 .. v : Frames(c[i]) = {0}
  BY <1>2, <1>3 DEF Committed, Frames
<1>11. QED  BY <1>1, <1>2, <1>7, <1>8, <1>9, <1>10 DEF CommitsWhatRan, Entries

\* Between calls the KV cache is as far as the clock: the predicted video entries
\* of a LingBot-VA session (frame_st_id, _recondition) tile the frames behind the
\* executed ones up to the end of the predicted chunk, what was executed is
\* committed once, and once more for each grounding that raised between its
\* two forwards, and a VLA session has one chunk per step, unless a forward has
\* raised half-way through an infer_chunk.
THEOREM CacheAlwaysMatchesTheClock == Spec => []CacheMatchesTheClock
<1>1. Inv /\ TilingInv => CacheMatchesTheClock
  <2> SUFFICES ASSUME Inv, TilingInv PROVE CacheMatchesTheClock
    OBVIOUS
  <2>1. \A s \in Sessions : engine = "lingbot_va" /\ At(s, "idle") /\ ~ session[s].broken =>
           TilesTheFrames(s) /\ CommitsWhatRan(s)
    BY TilesTheFramesOf, CommitsWhatRanOf
  <2>2. OneChunkPerStep
    BY DEF Inv, Own, CacheCounted, OneChunkPerStep, At
  <2>3. QED  BY <2>1, <2>2 DEF CacheMatchesTheClock
<1>2. Init => Inv /\ TilingInv
  BY InvInit, TilingInit
<1>3. Inv /\ TilingInv /\ [Next]_vars => (Inv /\ TilingInv)'
  BY InvNext, TilingNext
<1>4. QED  BY <1>1, <1>2, <1>3, PTL DEF Spec
===============================================================================
