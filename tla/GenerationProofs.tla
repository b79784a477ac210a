--------------------------- MODULE GenerationProofs ---------------------------
(***************************************************************************)
(* Machine-checked facts about Generation, for every finite set of         *)
(* callers, every set of engine configurations and every bound.            *)
(***************************************************************************)
EXTENDS Generation, FiniteSetTheorems, FunctionTheorems, TLAPS

(***************************************************************************)
(* The inductive invariant                                                 *)
(***************************************************************************)
LoopPcs == {"decide", "first", "rewind", "second"}
\* The places of a Cosmos request that has a pipeline, and of one whose text
\* has been checked.
PipePcs == {"guardrail", "text", "gate", "start", "video"} \cup LoopPcs
CheckedPcs == {"gate", "start", "video"} \cup LoopPcs
Pcs == {"idle", "load", "build", "assign", "call", "yield"} \cup PipePcs

Locals ==
    [pc : Pcs, requests : 0 .. MaxRequests, frames : Nat, mine : Nat, step : Nat,
     cached : Int, age : Int, since : Int, acc : Int, used : Int,
     overlapped : BOOLEAN, promised : BOOLEAN, text : BOOLEAN, video : BOOLEAN]

BuildIds == 1 .. Cardinality(Callers) * MaxRequests

Types ==
    /\ config \in Configs
    /\ pipe \in 0 .. builds /\ builds \in Nat
    /\ compiled \subseteq 1 .. builds /\ uncompiled \in 0 .. builds
    /\ guard \in BOOLEAN
    /\ scheduler \in [BuildIds -> Int]
    /\ caller \in [Callers -> Locals]

\* A request builds the pipeline at most once: the builds can be numbered by
\* the requests that made them.
BuiltBy(f) ==
    /\ \A a, b \in 1 .. builds : f[a] = f[b] => a = b
    /\ \A b \in 1 .. builds : f[b][2] <= caller[f[b][1]].requests
    /\ \A c \in Callers : caller[c].pc \in {"load", "build"} =>
          \A b \in 1 .. builds : f[b] # <<c, caller[c].requests>>
BuildsAreRequests ==
    /\ \E f \in [1 .. builds -> Callers \X (1 .. MaxRequests)] : BuiltBy(f)
    /\ \A c \in Callers : caller[c].pc # "idle" => caller[c].requests >= 1

\* Where each engine's requests may be, and who has a pipeline.
Places(l) ==
    /\ l.pc \in PipePcs => config.engine = "cosmos" /\ pipe # NoPipe
    /\ l.pc \in {"load", "build", "assign", "call"} => config.engine # "stub"
    /\ l.pc = "call" => config.engine = "wan"
    /\ l.mine <= builds
    /\ l.pc \in {"assign"} \cup LoopPcs => l.mine # NoPipe

\* The guardrail is CosmosEngine's; what it was there for it has checked.
Guarded(l) ==
    /\ guard => config.engine = "cosmos"
    /\ l.promised => guard
    /\ l.promised /\ l.pc \in CheckedPcs \cup {"yield"} => l.text
    /\ l.promised /\ l.pc = "yield" => l.video

\* With one build, a request above the ceiling that is past the gate has taken
\* the compiled transformer out, and nothing puts it back.
OverCeiling(l) == config.engine = "cosmos" /\ config.ceiling > 0 /\ l.frames > config.ceiling
Gated(l) ==
    /\ config.engine = "cosmos" =>
          /\ ~ config.compile => compiled = {}
          /\ config.compile /\ builds > 0 => uncompiled # NoPipe
    /\ OverCeiling(l) /\ builds = 1 /\ l.pc \in {"start"} \cup LoopPcs => compiled = {}

\* The scheduler's index is the step's at the two calls and the next one's
\* after each.
IndexFits(l, i) ==
    /\ l.pc = "decide" => i = l.step \/ (i = Unset /\ l.step = 0)
    /\ l.pc \in {"first", "second"} => i = l.step
    /\ l.pc = "rewind" => i = l.step + 1
    /\ l.pc \in {"first", "rewind", "second"} => l.used = l.step

\* A generation that is not marked shares its scheduler with no other.
Alone(c) == InLoop(c) /\ ~ caller[c].overlapped
Follows(c) == Alone(c) =>
    /\ \A d \in Callers : InLoop(d) /\ caller[d].mine = caller[c].mine => d = c
    /\ IndexFits(caller[c], scheduler[caller[c].mine])

\* How far the cached prediction is behind the last step that was decided: not
\* at all without caching, by the steps since a multiple of the cadence, by the
\* steps counted towards the floor.
last(l) == IF l.pc = "decide" THEN l.step - 1 ELSE l.step
Cadence == effective_mode = "fixed" /\ config.skipEvery >= 2
CacheAge(l) ==
    /\ l.cached = NoStep => l.pc = "decide" /\ l.step = 0
    /\ l.cached # NoStep => l.cached \in 0 .. last(l)
    /\ effective_mode = "adaptive" =>
          l.since = IF l.cached = NoStep THEN 0 ELSE last(l) - l.cached
    /\ Cadence /\ last(l) >= config.warmup =>
          last(l) - l.cached <= (last(l) - config.warmup) % config.skipEvery
    /\ Cadence /\ l.cached # NoStep /\ last(l) < config.warmup => l.cached = last(l)

\* How old the prediction is that goes into the two scheduler calls.
UsedAge(l) ==
    /\ effective_mode = "none" => l.age = 0
    /\ effective_mode = "fixed" => l.age < (IF config.skipEvery >= 2 THEN config.skipEvery ELSE 1)
    /\ effective_mode = "adaptive" =>
          /\ config.floor > 0 => l.age <= config.floor
          /\ l.step = config.steps - 1 => l.age = 0

CacheState(l) ==
    /\ l.pc \notin LoopPcs \cup {"video", "yield"} => l.cached = NoStep /\ l.since = 0
    /\ l.pc \in LoopPcs => CacheAge(l)
    /\ l.pc = "first" => UsedAge(l)

Own(l) == Places(l) /\ Guarded(l) /\ Gated(l) /\ CacheState(l)

Inv ==
    /\ Types
    /\ BuildsAreRequests
    /\ \A c \in Callers : Own(caller[c]) /\ Follows(c)

(***************************************************************************)
(* Arithmetic                                                              *)
(***************************************************************************)
\* A division has one quotient and one remainder.
LEMMA Division ==
    ASSUME NEW x \in Int, NEW n \in Int, n > 0
    PROVE  \E q \in Int : \E r \in 0 .. n - 1 : x = n * q + r /\ x % n = r
<1>1. x = n * (x \div n) + (x % n) /\ x \div n \in Int /\ x % n \in 0 .. n - 1
  OBVIOUS
<1>2. QED  BY <1>1

\* The number behind one that leaves r leaves r + 1, or none at the end of the
\* round.
LEMMA NextInRound ==
    ASSUME NEW x \in Int, NEW n \in Int, n > 0, NEW q \in Int, NEW r \in 0 .. n - 1, x = n * q + r
    PROVE  (x + 1) % n = IF r = n - 1 THEN 0 ELSE r + 1
OBVIOUS

\* The remainder of the next number is one more, or none.
LEMMA NextModulo ==
    ASSUME NEW x \in Int, NEW n \in Int, n > 0
    PROVE  /\ x % n \in 0 .. n - 1
           /\ (x + 1) % n = 0 \/ (x + 1) % n = (x % n) + 1
<1>1. PICK q \in Int, r \in 0 .. n - 1 : x = n * q + r /\ x % n = r
  BY Division
<1>2. (x + 1) % n = IF r = n - 1 THEN 0 ELSE r + 1
  BY <1>1, NextInRound
<1>3. QED  BY <1>1, <1>2

(***************************************************************************)
(* What a step of one caller leaves alone                                  *)
(***************************************************************************)
LEMMA LocalTypes ==
    ASSUME Types, NEW c \in Callers
    PROVE  /\ caller[c] \in Locals /\ DOMAIN caller = Callers
           /\ caller = [d \in Callers |-> caller[d]]
BY DEF Types

\* The locals of a caller whose generator has ended.
LEMMA GoneTypes ==
    ASSUME Types, NEW c \in Callers
    PROVE  LET l == [Idle EXCEPT !.requests = caller[c].requests]
           IN  /\ l \in Locals /\ l.requests = caller[c].requests /\ l.pc = "idle" /\ l.mine = 0
               /\ l.cached = NoStep /\ l.since = 0 /\ ~ l.promised
<1>1. caller[c].requests \in 0 .. MaxRequests
  BY LocalTypes DEF Locals
<1>2. Idle \in Locals
  BY GenerationAssumption DEF Idle, Locals, Pcs, PipePcs, LoopPcs, NoPipe, NoStep
<1>3. [Idle EXCEPT !.requests = caller[c].requests] \in Locals
  BY <1>1, <1>2 DEF Locals
<1>4. QED  BY <1>1, <1>3 DEF Idle, NoPipe, NoStep

\* The numbering of the builds stays as long as nobody builds and the requests
\* only grow.
LEMMA BuildsStay ==
    ASSUME Types, BuildsAreRequests, builds' = builds,
           \A c \in Callers :
              /\ caller'[c].requests \in Int /\ caller'[c].requests >= caller[c].requests
              /\ caller'[c].pc # "idle" => caller'[c].requests >= 1
              /\ caller'[c].pc \in {"load", "build"} =>
                    \/ caller'[c].requests > caller[c].requests
                    \/ /\ caller'[c].requests = caller[c].requests
                       /\ caller[c].pc \in {"load", "build"}
    PROVE  BuildsAreRequests'
<1>1. PICK f \in [1 .. builds -> Callers \X (1 .. MaxRequests)] : BuiltBy(f)
  BY DEF BuildsAreRequests
<1>2. \A c \in Callers : caller[c].requests \in Int
  BY LocalTypes DEF Locals
<1>3. \A b \in 1 .. builds : f[b] \in Callers \X (1 .. MaxRequests) /\ f[b][1] \in Callers /\ f[b][2] \in Int
  BY <1>1
<1>4. \A b \in 1 .. builds : f[b][2] <= caller'[f[b][1]].requests
  BY <1>1, <1>2, <1>3 DEF BuiltBy
<1>5. ASSUME NEW c \in Callers, caller'[c].pc \in {"load", "build"}, NEW b \in 1 .. builds
      PROVE  f[b] # <<c, caller'[c].requests>>
  <2>1. CASE caller'[c].requests > caller[c].requests
    <3>1. SUFFICES ASSUME f[b] = <<c, caller'[c].requests>>
                   PROVE  FALSE
      OBVIOUS
    <3>2. f[b][1] = c /\ f[b][2] = caller'[c].requests
      BY <3>1
    <3>3. QED  BY <1>1, <1>2, <2>1, <3>2 DEF BuiltBy
  <2>2. CASE caller'[c].requests = caller[c].requests /\ caller[c].pc \in {"load", "build"}
    BY <1>1, <2>2 DEF BuiltBy
  <2>3. QED  BY <1>5, <2>1, <2>2
<1>6. \A a, b \in 1 .. builds : f[a] = f[b] => a = b
  BY <1>1 DEF BuiltBy
<1>7. f \in [1 .. builds' -> Callers \X (1 .. MaxRequests)] /\ BuiltBy(f)'
  BY <1>1, <1>4, <1>5, <1>6 DEF BuiltBy
<1>8. QED  BY <1>7 DEF BuildsAreRequests

\* There are no more builds than schedulers.
LEMMA BuildsBounded ==
    ASSUME Types, BuildsAreRequests
    PROVE  1 .. builds \subseteq BuildIds
<1> DEFINE D == 1 .. builds
           R == Callers \X (1 .. MaxRequests)
<1>1. IsFiniteSet(D) /\ Cardinality(D) = builds
  BY FS_Interval DEF Types
<1>2. IsFiniteSet(1 .. MaxRequests) /\ Cardinality(1 .. MaxRequests) = MaxRequests
  BY FS_Interval, GenerationAssumption
<1>3. IsFiniteSet(R) /\ Cardinality(R) = Cardinality(Callers) * MaxRequests
  BY <1>2, FS_Product, GenerationAssumption
<1>4. PICK f \in [D -> R] : \A a, b \in D : f[a] = f[b] => a = b
  BY DEF BuildsAreRequests, BuiltBy
<1> HIDE DEF D, R
<1>5. f \in Injection(D, R)
  BY <1>4 DEF Injection, IsInjective
<1>6. Cardinality(D) <= Cardinality(R)
  BY <1>1, <1>3, <1>5, FS_Injection
<1>7. Cardinality(Callers) * MaxRequests \in Nat /\ builds <= Cardinality(Callers) * MaxRequests
  BY <1>1, <1>3, <1>6, FS_CardinalityType
<1>8. QED  BY <1>7 DEF BuildIds, Types

(***************************************************************************)
(* A step of one caller that changes only its locals and its scheduler     *)
(***************************************************************************)
\* Whose locals did not change keeps its place, its checks and its cache as
\* long as the engine did not change.
LEMMA OwnStays ==
    ASSUME UNCHANGED engineVars, NEW d \in Callers, NEW l \in Locals,
           caller'[d] = l, Own(l)
    PROVE  Own(caller[d])'
BY DEF engineVars, Own, Places, Guarded, Gated, OverCeiling, CacheState, CacheAge, UsedAge, Cadence,
       last, effective_mode, cache

\* A caller that steps alone does not move the index of the others.
LEMMA FollowsStays ==
    ASSUME Inv, NEW c \in Callers, NEW l \in Locals, caller' = [caller EXCEPT ![c] = l],
           scheduler' \in [BuildIds -> Int],
           \A b \in BuildIds : scheduler'[b] = scheduler[b] \/ (InLoop(c) /\ b = caller[c].mine),
           l.pc \in LoopPcs =>
              InLoop(c) /\ l.mine = caller[c].mine /\ l.overlapped = caller[c].overlapped,
           Alone(c) /\ l.pc \in LoopPcs => IndexFits(l, scheduler'[l.mine])
    PROVE  \A d \in Callers : Follows(d)'
<1>1. TAKE d \in Callers
<1>2. /\ caller'[c] = l /\ caller[d] \in Locals
      /\ d # c => caller'[d] = caller[d]
  BY LocalTypes DEF Inv
<1>3. SUFFICES ASSUME Alone(d)'
               PROVE  /\ \A e \in Callers : InLoop(e)' /\ caller'[e].mine = caller'[d].mine => e = d
                      /\ IndexFits(caller'[d], scheduler'[caller'[d].mine])
  BY DEF Follows, IndexFits
<1>4. /\ \A e \in Callers : InLoop(e)' => InLoop(e) /\ caller'[e].mine = caller[e].mine
      /\ Alone(d)
  BY <1>2, <1>3, LocalTypes DEF Alone, InLoop, LoopPcs, Inv
<1>5. \A e \in Callers : InLoop(e) /\ caller[e].mine = caller[d].mine => e = d
  BY <1>4 DEF Inv, Follows
<1>6. \A e \in Callers : InLoop(e)' /\ caller'[e].mine = caller'[d].mine => e = d
  BY <1>3, <1>4, <1>5 DEF Alone
<1>7. CASE d = c
  BY <1>2, <1>3, <1>4, <1>6, <1>7 DEF Alone, InLoop, LoopPcs
<1>8. CASE d # c
  <2>1. caller[d].mine \in BuildIds
    BY <1>2, <1>4, BuildsBounded DEF Inv, Own, Places, Alone, InLoop, LoopPcs, Types, Locals, NoPipe
  <2>2. scheduler'[caller[d].mine] = scheduler[caller[d].mine]
    BY <1>5, <1>8, <2>1
  <2>3. QED  BY <1>2, <1>4, <1>6, <1>8, <2>2 DEF Inv, Follows
<1>9. QED  BY <1>7, <1>8

\* A step that builds nothing keeps the invariant if it keeps what each caller
\* has for itself.
LEMMA CallerStep ==
    ASSUME Inv, NEW c \in Callers, NEW l \in Locals, caller' = [caller EXCEPT ![c] = l],
           Types', builds' = builds, \A d \in Callers : Own(caller[d])',
           \A b \in BuildIds : scheduler'[b] = scheduler[b] \/ (InLoop(c) /\ b = caller[c].mine),
           l.requests >= caller[c].requests, l.pc # "idle" => l.requests >= 1,
           l.pc \in {"load", "build"} =>
              \/ l.requests > caller[c].requests
              \/ l.requests = caller[c].requests /\ caller[c].pc \in {"load", "build"},
           l.pc \in LoopPcs =>
              InLoop(c) /\ l.mine = caller[c].mine /\ l.overlapped = caller[c].overlapped,
           Alone(c) /\ l.pc \in LoopPcs => IndexFits(l, scheduler'[l.mine])
    PROVE  Inv'
<1>1. /\ caller'[c] = l
      /\ \A d \in Callers : caller[d] \in Locals /\ (d # c => caller'[d] = caller[d])
  BY LocalTypes DEF Inv
<1>2. \A d \in Callers : caller[d].requests \in Int /\ caller'[d].requests \in Int
  BY <1>1 DEF Locals
<1>3. BuildsAreRequests'
  <2>1. BuildsAreRequests /\ Types
    BY DEF Inv
  <2>2. \A d \in Callers :
           /\ caller'[d].requests \in Int /\ caller'[d].requests >= caller[d].requests
           /\ caller'[d].pc # "idle" => caller'[d].requests >= 1
           /\ caller'[d].pc \in {"load", "build"} =>
                 \/ caller'[d].requests > caller[d].requests
                 \/ /\ caller'[d].requests = caller[d].requests
                    /\ caller[d].pc \in {"load", "build"}
    BY <1>1, <1>2, <2>1 DEF BuildsAreRequests
  <2>3. QED  BY <2>1, <2>2, BuildsStay
<1>4. \A d \in Callers : Follows(d)'
  BY FollowsStays DEF Types
<1>5. QED  BY <1>3, <1>4 DEF Inv

\* The same where the engine is not touched and a request is under way.
LEMMA LocalStep ==
    ASSUME Inv, NEW c \in Callers, NEW l \in Locals, caller' = [caller EXCEPT ![c] = l],
           UNCHANGED engineVars, scheduler' \in [BuildIds -> Int],
           \A b \in BuildIds : scheduler'[b] = scheduler[b] \/ (InLoop(c) /\ b = caller[c].mine),
           l.requests = caller[c].requests, caller[c].pc # "idle",
           l.pc \in {"load", "build"} => caller[c].pc \in {"load", "build"},
           l.pc \in LoopPcs =>
              InLoop(c) /\ l.mine = caller[c].mine /\ l.overlapped = caller[c].overlapped,
           Own(l),
           Alone(c) /\ l.pc \in LoopPcs => IndexFits(l, scheduler'[l.mine])
    PROVE  Inv'
<1>1. /\ caller'[c] = l
      /\ \A d \in Callers : caller[d] \in Locals /\ (d # c => caller'[d] = caller[d])
  BY LocalTypes DEF Inv
<1>2. Types' /\ builds' = builds
  BY DEF Inv, Types, engineVars
<1>3. caller[c].requests \in Int /\ caller[c].requests >= 1
  BY <1>1 DEF Locals, Inv, BuildsAreRequests
<1>4. ASSUME NEW d \in Callers
      PROVE  Own(caller[d])'
  <2>1. Own(caller[d]) /\ caller'[d] \in Locals
    BY <1>1 DEF Inv
  <2>2. CASE d = c
    BY <1>1, <2>2, OwnStays
  <2>3. CASE d # c
    BY <1>1, <2>1, <2>3, OwnStays
  <2>4. QED  BY <2>2, <2>3
<1>5. l.requests >= caller[c].requests /\ (l.pc # "idle" => l.requests >= 1)
  BY <1>3
<1>6. \A d \in Callers : Own(caller[d])'
  BY <1>4
<1>7. l.pc \in {"load", "build"} =>
         \/ l.requests > caller[c].requests
         \/ l.requests = caller[c].requests /\ caller[c].pc \in {"load", "build"}
  OBVIOUS
<1>8. QED  BY <1>2, <1>5, <1>6, <1>7, CallerStep

\* A generator that ends or raises.
LEMMA GoneKeeps ==
    ASSUME Inv, NEW c \in Callers, caller[c].pc # "idle", Gone(c), UNCHANGED <<engineVars, scheduler>>
    PROVE  Inv'
<1> DEFINE l == [Idle EXCEPT !.requests = caller[c].requests]
<1>1. /\ l \in Locals /\ l.requests = caller[c].requests /\ l.pc = "idle" /\ l.mine = 0
      /\ l.cached = NoStep /\ l.since = 0 /\ ~ l.promised
  BY GoneTypes DEF Inv
<1>2. caller' = [caller EXCEPT ![c] = l]
  BY DEF Gone
<1> HIDE DEF l
<1>3. Own(caller[c]) /\ Types
  BY DEF Inv
<1>4. Own(l)
  BY <1>1, <1>3 DEF Own, Places, Guarded, Gated, CacheState, PipePcs, CheckedPcs, LoopPcs, Types
<1>5. scheduler' = scheduler /\ scheduler' \in [BuildIds -> Int] /\ UNCHANGED engineVars
  BY <1>3 DEF Types
<1>6. l.pc \notin LoopPcs /\ l.pc \notin {"load", "build"}
  BY <1>1 DEF LoopPcs
<1>7. QED  BY <1>1, <1>2, <1>4, <1>5, <1>6, LocalStep

(***************************************************************************)
(* load() and the guardrail                                                *)
(***************************************************************************)
LEMMA RequestKeeps ==
    ASSUME Inv, NEW c \in Callers, NEW frames \in FrameSizes, Request(c, frames)
    PROVE  Inv'
<1> DEFINE l == [caller[c] EXCEPT !.pc = IF config.engine = "stub" THEN "yield" ELSE "load",
                                  !.frames = frames, !.requests = @ + 1, !.promised = guard]
<1>1. caller[c] \in Locals /\ Own(caller[c]) /\ Types /\ guard \in BOOLEAN /\ caller[c].pc = "idle"
  BY LocalTypes DEF Inv, Types, Request, At
<1>2. caller' = [caller EXCEPT ![c] = l] /\ UNCHANGED engineVars /\ scheduler' = scheduler
  BY DEF Request
<1>3. frames \in Nat /\ MaxRequests \in Nat /\ caller[c].requests + 1 \in 0 .. MaxRequests
  BY <1>1, GenerationAssumption DEF Request, Locals
<1>4. /\ l \in Locals /\ l.requests = caller[c].requests + 1 /\ l.promised = guard
      /\ l.pc = IF config.engine = "stub" THEN "yield" ELSE "load"
      /\ l.mine = caller[c].mine /\ l.cached = caller[c].cached /\ l.since = caller[c].since
  BY <1>1, <1>3 DEF Locals, Pcs, PipePcs, LoopPcs
<1> HIDE DEF l
<1>5. Own(l)
  BY <1>1, <1>4 DEF Own, Places, Guarded, Gated, CacheState, PipePcs, CheckedPcs, LoopPcs
<1>6. ASSUME NEW d \in Callers
      PROVE  Own(caller[d])'
  <2>1. Own(caller[d]) /\ caller[d] \in Locals /\ caller'[d] = IF d = c THEN l ELSE caller[d]
    BY <1>2, LocalTypes DEF Inv
  <2>2. CASE d = c
    BY <1>2, <1>4, <1>5, <2>1, <2>2, OwnStays
  <2>3. CASE d # c
    BY <1>2, <2>1, <2>3, OwnStays
  <2>4. QED  BY <2>2, <2>3
<1>7. Types' /\ builds' = builds
  BY <1>1, <1>2, <1>4 DEF Types, engineVars
<1>8. caller[c].requests \in Nat
  BY <1>1 DEF Locals
<1>9. /\ l.requests >= caller[c].requests /\ l.requests >= 1 /\ l.requests > caller[c].requests
      /\ l.pc \notin LoopPcs
  BY <1>4, <1>8 DEF LoopPcs
<1>10. \A d \in Callers : Own(caller[d])'
  BY <1>6
<1>11. QED  BY <1>2, <1>4, <1>7, <1>9, <1>10, CallerStep

\* load() finds a pipeline or goes on to build one.
LEMMA LoadKeeps ==
    ASSUME Inv, NEW c \in Callers, Load(c)
    PROVE  Inv'
<1> DEFINE l == [caller[c] EXCEPT !.pc = IF pipe # NoPipe THEN Loaded ELSE "build"]
<1>1. caller[c] \in Locals /\ Own(caller[c]) /\ Types /\ caller[c].pc = "load"
  BY LocalTypes DEF Inv, Load, At
<1>2. caller' = [caller EXCEPT ![c] = l] /\ UNCHANGED engineVars /\ scheduler' = scheduler
  BY DEF Load, Goto
<1>3. config.engine \in {"cosmos", "wan", "stub"} /\ config.engine # "stub"
  BY <1>1, GenerationAssumption DEF Types, ConfigType, Own, Places
<1>4. /\ l \in Locals /\ l.requests = caller[c].requests
      /\ l.pc = IF pipe # NoPipe THEN IF config.engine = "wan" THEN "call" ELSE "text" ELSE "build"
      /\ l.mine = caller[c].mine /\ l.cached = caller[c].cached /\ l.since = caller[c].since
      /\ l.promised = caller[c].promised
  BY <1>1 DEF Locals, Pcs, PipePcs, LoopPcs, Loaded
<1> HIDE DEF l
<1>5. Own(l)
  BY <1>1, <1>3, <1>4 DEF Own, Places, Guarded, Gated, CacheState, PipePcs, CheckedPcs, LoopPcs
<1>6. scheduler' \in [BuildIds -> Int] /\ l.pc \notin LoopPcs
  BY <1>1, <1>2, <1>4 DEF Types, LoopPcs
<1>7. QED  BY <1>1, <1>2, <1>4, <1>5, <1>6, LocalStep

\* A build gets the number of the request that makes it.
LEMMA BuildIsNumbered ==
    ASSUME Types, BuildsAreRequests, NEW c \in Callers, caller[c].pc = "build", builds' = builds + 1,
           caller' = [caller EXCEPT ![c].pc = "assign", ![c].mine = builds']
    PROVE  BuildsAreRequests'
<1>1. PICK f \in [1 .. builds -> Callers \X (1 .. MaxRequests)] : BuiltBy(f)
  BY DEF BuildsAreRequests
<1>2. /\ \A d \in Callers : /\ caller'[d].requests = caller[d].requests
                            /\ caller[d].requests \in Int
                            /\ d # c => caller'[d].pc = caller[d].pc
      /\ caller'[c].pc = "assign" /\ caller[c].requests \in 0 .. MaxRequests
      /\ caller[c].requests >= 1 /\ builds \in Nat
  <2>1. \A d \in Callers : caller[d].requests \in 0 .. MaxRequests /\ caller[d].requests \in Int
    BY LocalTypes DEF Locals
  <2>2. \A d \in Callers : caller'[d] = IF d = c THEN [caller[c] EXCEPT !.pc = "assign", !.mine = builds']
                                         ELSE caller[d]
    BY LocalTypes
  <2>3. caller[c].requests >= 1 /\ builds \in Nat
    BY DEF BuildsAreRequests, Types
  <2>4. caller'[c].requests = caller[c].requests /\ caller'[c].pc = "assign"
    BY <2>2, LocalTypes DEF Locals
  <2>5. QED  BY <2>1, <2>2, <2>3, <2>4
<1>3. PICK mine \in Callers \X (1 .. MaxRequests) :
         /\ mine = <<c, caller[c].requests>>
         /\ \A b \in 1 .. builds : f[b] # mine
  <2>1. caller[c].requests \in 1 .. MaxRequests
    BY <1>2, GenerationAssumption
  <2>2. <<c, caller[c].requests>> \in Callers \X (1 .. MaxRequests)
    BY <2>1
  <2>3. QED  BY <1>1, <2>2 DEF BuiltBy
<1>4. /\ \A b \in 1 .. builds + 1 : b = builds + 1 \/ b \in 1 .. builds
      /\ \A b \in 1 .. builds : b # builds + 1 /\ b \in 1 .. builds + 1
      /\ builds + 1 \in 1 .. builds + 1
  BY <1>2
<1>5. mine[1] = c /\ mine[2] = caller[c].requests
  BY <1>3
<1>6. \A b \in 1 .. builds : f[b] \in Callers \X (1 .. MaxRequests) /\ f[b][1] \in Callers /\ f[b][2] \in Int
  BY <1>1
<1>7. PICK g \in [1 .. builds + 1 -> Callers \X (1 .. MaxRequests)] :
         g = [b \in 1 .. builds + 1 |-> IF b = builds + 1 THEN mine ELSE f[b]]
  <2>1. [b \in 1 .. builds + 1 |-> IF b = builds + 1 THEN mine ELSE f[b]]
           \in [1 .. builds + 1 -> Callers \X (1 .. MaxRequests)]
    BY <1>4, <1>6
  <2>2. QED  BY <2>1
<1>8. g[builds + 1] = mine /\ \A b \in 1 .. builds : g[b] = f[b]
  BY <1>4, <1>7
<1>9. \A a, b \in 1 .. builds + 1 : g[a] = g[b] => a = b
  BY <1>1, <1>3, <1>4, <1>8 DEF BuiltBy
<1>10. \A b \in 1 .. builds + 1 : g[b][2] <= caller'[g[b][1]].requests
  <2>1. \A b \in 1 .. builds : f[b][2] <= caller'[f[b][1]].requests
    BY <1>1, <1>2, <1>6 DEF BuiltBy
  <2>2. mine[2] <= caller'[mine[1]].requests
    <3>1. caller'[c].requests = caller[c].requests /\ caller[c].requests \in Int
      BY <1>2
    <3>2. caller'[mine[1]].requests = mine[2]
      BY <1>5, <3>1
    <3>3. mine[2] \in Int
      BY <1>5, <3>1
    <3>4. QED  BY <3>2, <3>3
  <2>3. QED  BY <1>4, <1>8, <2>1, <2>2
<1>11. ASSUME NEW d \in Callers, caller'[d].pc \in {"load", "build"}, NEW b \in 1 .. builds + 1
       PROVE  g[b] # <<d, caller'[d].requests>>
  <2>1. d # c /\ caller[d].pc \in {"load", "build"} /\ caller'[d].requests = caller[d].requests
    BY <1>2, <1>11
  <2>2. CASE b = builds + 1
    <3>1. SUFFICES ASSUME mine = <<d, caller'[d].requests>>
                   PROVE  FALSE
      BY <1>8, <2>2
    <3>2. QED  BY <1>5, <2>1, <3>1
  <2>3. CASE b \in 1 .. builds
    BY <1>1, <1>8, <2>1, <2>3 DEF BuiltBy
  <2>4. QED  BY <1>4, <2>2, <2>3
<1>12. \E h \in [1 .. builds' -> Callers \X (1 .. MaxRequests)] : BuiltBy(h)'
  <2>1. BuiltBy(g)'
    BY <1>9, <1>10, <1>11 DEF BuiltBy
  <2>2. g \in [1 .. builds' -> Callers \X (1 .. MaxRequests)]
    BY <1>7
  <2>3. QED  BY <2>1, <2>2
<1>13. \A d \in Callers : caller'[d].pc # "idle" => caller'[d].requests >= 1
  BY <1>2 DEF BuildsAreRequests
<1>14. QED  BY <1>12, <1>13 DEF BuildsAreRequests

\* Cosmos' build keeps the way back, Wan's does not.
LEMMA BuildKeeps ==
    ASSUME Inv, NEW c \in Callers, BuildCosmos(c) \/ BuildWan(c)
    PROVE  Inv'
<1> DEFINE l == [caller[c] EXCEPT !.pc = "assign", !.mine = builds + 1]
<1>1. /\ caller[c] \in Locals /\ Own(caller[c]) /\ Types /\ caller[c].pc = "build"
      /\ builds \in Nat /\ pipe \in 0 .. builds /\ config.engine # "stub"
  BY LocalTypes DEF Inv, Types, BuildCosmos, BuildWan, At
<1>2. /\ caller' = [caller EXCEPT ![c] = l] /\ builds' = builds + 1
      /\ compiled' = IF config.compile THEN compiled \cup {builds + 1} ELSE compiled
      /\ uncompiled' = IF config.engine = "cosmos" /\ config.compile THEN builds + 1 ELSE uncompiled
      /\ UNCHANGED <<config, pipe, guard, scheduler>>
  BY <1>1 DEF BuildCosmos, BuildWan
<1>3. /\ l \in Locals /\ l.requests = caller[c].requests /\ l.pc = "assign" /\ l.mine = builds + 1
      /\ l.cached = caller[c].cached /\ l.since = caller[c].since /\ l.promised = caller[c].promised
  <2>1. builds + 1 \in Nat
    BY <1>1
  <2>2. QED  BY <1>1, <2>1 DEF Locals, Pcs
<1>4. caller' = [caller EXCEPT ![c].pc = "assign", ![c].mine = builds']
  BY <1>2
<1> HIDE DEF l
<1>5. Types'
  <2>1. compiled' \subseteq 1 .. builds' /\ pipe' \in 0 .. builds' /\ uncompiled' \in 0 .. builds'
    BY <1>1, <1>2 DEF Types
  <2>2. QED  BY <1>1, <1>2, <1>3, <2>1 DEF Types
<1>6. BuildsAreRequests'
  BY <1>1, <1>2, <1>4, BuildIsNumbered DEF Inv
<1>7. ASSUME NEW d \in Callers
      PROVE  Own(caller[d])'
  <2>1. Own(caller[d]) /\ caller[d] \in Locals /\ caller'[d] = IF d = c THEN l ELSE caller[d]
    BY <1>2, LocalTypes DEF Inv
  <2>2. Places(caller[d])'
    BY <1>1, <1>2, <1>3, <2>1 DEF Own, Places, PipePcs, LoopPcs, Locals, NoPipe
  <2>3. Guarded(caller[d])'
    BY <1>1, <1>2, <1>3, <2>1 DEF Own, Guarded, CheckedPcs, LoopPcs
  <2>4. builds' = 1 => pipe = NoPipe
    BY <1>1, <1>2 DEF NoPipe
  <2>5. Gated(caller[d])'
    <3>1. builds' = 1 => caller'[d].pc \notin {"start"} \cup LoopPcs
      BY <1>1, <1>2, <1>3, <2>1, <2>4 DEF Own, Places, PipePcs, LoopPcs
    <3>2. config.engine = "cosmos" =>
             /\ ~ config.compile => compiled' = {}
             /\ config.compile /\ builds' > 0 => uncompiled' # NoPipe
      BY <1>1, <1>2 DEF Own, Gated, NoPipe
    <3>3. QED  BY <1>2, <3>1, <3>2 DEF Gated, OverCeiling
  <2>6. CacheState(caller[d])'
    <3>1. CASE d = c
      BY <1>1, <1>3, <2>1, <3>1 DEF Own, CacheState, LoopPcs
    <3>2. CASE d # c
      BY <1>2, <2>1, <3>2
         DEF Own, CacheState, CacheAge, UsedAge, Cadence, last, effective_mode, cache
    <3>3. QED  BY <3>1, <3>2
  <2>7. QED  BY <2>2, <2>3, <2>5, <2>6 DEF Own
<1>8. l.pc \notin LoopPcs /\ scheduler' = scheduler /\ scheduler' \in [BuildIds -> Int]
  BY <1>1, <1>2, <1>3 DEF LoopPcs, Types
<1>9. \A d \in Callers : Follows(d)'
  BY <1>2, <1>3, <1>8, FollowsStays
<1>10. QED  BY <1>5, <1>6, <1>7, <1>9 DEF Inv

\* The pipeline is assigned before the guardrail is loaded.
LEMMA AssignKeeps ==
    ASSUME Inv, NEW c \in Callers, Assign(c)
    PROVE  Inv'
<1> DEFINE l == [caller[c] EXCEPT !.pc = IF config.engine = "cosmos" /\ config.guardrail THEN "guardrail"
                                         ELSE Loaded]
<1>1. /\ caller[c] \in Locals /\ Own(caller[c]) /\ Types /\ caller[c].pc = "assign"
      /\ caller[c].mine \in 1 .. builds /\ builds \in Nat
  BY LocalTypes DEF Inv, Types, Assign, At, Own, Places, Locals, NoPipe
<1>2. /\ caller' = [caller EXCEPT ![c] = l] /\ pipe' = caller[c].mine
      /\ UNCHANGED <<config, builds, compiled, uncompiled, guard, scheduler>>
  BY DEF Assign, Goto
<1>3. config.engine \in {"cosmos", "wan", "stub"} /\ config.engine # "stub"
  BY <1>1, GenerationAssumption DEF Types, ConfigType, Own, Places
<1>4. /\ l \in Locals /\ l.requests = caller[c].requests
      /\ l.pc = IF config.engine = "wan" THEN "call"
                ELSE IF config.engine = "cosmos" /\ config.guardrail THEN "guardrail" ELSE "text"
      /\ l.mine = caller[c].mine /\ l.cached = caller[c].cached /\ l.since = caller[c].since
      /\ l.promised = caller[c].promised
  BY <1>1, <1>3 DEF Locals, Pcs, PipePcs, LoopPcs, Loaded
<1> HIDE DEF l
<1>5. Types' /\ builds' = builds
  BY <1>1, <1>2, <1>4 DEF Types
<1>6. ASSUME NEW d \in Callers
      PROVE  Own(caller[d])'
  <2>1. Own(caller[d]) /\ caller[d] \in Locals /\ caller'[d] = IF d = c THEN l ELSE caller[d]
    BY <1>2, LocalTypes DEF Inv
  <2>2. Places(caller[d])'
    BY <1>1, <1>2, <1>3, <1>4, <2>1 DEF Own, Places, PipePcs, LoopPcs, NoPipe
  <2>3. Guarded(caller[d])'
    BY <1>1, <1>2, <1>4, <2>1 DEF Own, Guarded, CheckedPcs, LoopPcs
  <2>4. Gated(caller[d])'
    <3>1. d = c => caller'[d].pc \notin {"start"} \cup LoopPcs
      BY <1>4, <2>1 DEF LoopPcs
    <3>2. QED  BY <1>2, <2>1, <3>1 DEF Own, Gated, OverCeiling
  <2>5. CacheState(caller[d])'
    <3>1. CASE d = c
      BY <1>1, <1>4, <2>1, <3>1 DEF Own, CacheState, LoopPcs
    <3>2. CASE d # c
      BY <1>2, <2>1, <3>2
         DEF Own, CacheState, CacheAge, UsedAge, Cadence, last, effective_mode, cache
    <3>3. QED  BY <3>1, <3>2
  <2>6. QED  BY <2>2, <2>3, <2>4, <2>5 DEF Own
<1>7. /\ l.pc \notin LoopPcs /\ l.pc \notin {"load", "build"} /\ l.requests >= caller[c].requests
      /\ l.requests >= 1
  <2>1. caller[c].requests \in Int /\ caller[c].requests >= 1
    BY <1>1 DEF Locals, Inv, BuildsAreRequests
  <2>2. QED  BY <1>1, <1>4, <2>1 DEF LoopPcs
<1>8. \A d \in Callers : Own(caller[d])'
  BY <1>6
<1>9. scheduler' = scheduler
  BY <1>2
<1>10. QED  BY <1>2, <1>4, <1>5, <1>7, <1>8, <1>9, CallerStep

\* Nobody's promise is broken when the guardrail appears: only a Cosmos engine
\* loads one, and what was promised was promised with it there.
LEMMA LoadGuardrailKeeps ==
    ASSUME Inv, NEW c \in Callers, LoadGuardrail(c)
    PROVE  Inv'
<1> DEFINE l == [caller[c] EXCEPT !.pc = "text"]
<1>1. /\ caller[c] \in Locals /\ Own(caller[c]) /\ Types /\ caller[c].pc = "guardrail"
  BY LocalTypes DEF Inv, LoadGuardrail, At
<1>2. /\ caller' = [caller EXCEPT ![c] = l] /\ guard' = TRUE
      /\ UNCHANGED <<config, pipe, builds, compiled, uncompiled, scheduler>>
  BY DEF LoadGuardrail, Goto
<1>3. config.engine = "cosmos"
  BY <1>1 DEF Own, Places, PipePcs
<1>4. /\ l \in Locals /\ l.requests = caller[c].requests /\ l.pc = "text"
      /\ l.mine = caller[c].mine /\ l.cached = caller[c].cached /\ l.since = caller[c].since
      /\ l.promised = caller[c].promised
  BY <1>1 DEF Locals, Pcs, PipePcs, LoopPcs
<1> HIDE DEF l
<1>5. Types' /\ builds' = builds
  BY <1>1, <1>2, <1>4 DEF Types
<1>6. ASSUME NEW d \in Callers
      PROVE  Own(caller[d])'
  <2>1. Own(caller[d]) /\ caller[d] \in Locals /\ caller'[d] = IF d = c THEN l ELSE caller[d]
    BY <1>2, LocalTypes DEF Inv
  <2>2. Places(caller[d])'
    BY <1>1, <1>2, <1>3, <1>4, <2>1 DEF Own, Places, PipePcs, LoopPcs
  <2>3. Guarded(caller[d])'
    BY <1>1, <1>2, <1>3, <1>4, <2>1 DEF Own, Guarded, CheckedPcs, LoopPcs
  <2>4. Gated(caller[d])'
    <3>1. d = c => caller'[d].pc \notin {"start"} \cup LoopPcs
      BY <1>4, <2>1 DEF LoopPcs
    <3>2. QED  BY <1>2, <2>1, <3>1 DEF Own, Gated, OverCeiling
  <2>5. CacheState(caller[d])'
    <3>1. CASE d = c
      BY <1>1, <1>4, <2>1, <3>1 DEF Own, CacheState, LoopPcs
    <3>2. CASE d # c
      BY <1>2, <2>1, <3>2
         DEF Own, CacheState, CacheAge, UsedAge, Cadence, last, effective_mode, cache
    <3>3. QED  BY <3>1, <3>2
  <2>6. QED  BY <2>2, <2>3, <2>4, <2>5 DEF Own
<1>7. /\ l.pc \notin LoopPcs /\ l.pc \notin {"load", "build"} /\ l.requests >= caller[c].requests
      /\ l.requests >= 1
  <2>1. caller[c].requests \in Int /\ caller[c].requests >= 1
    BY <1>1 DEF Locals, Inv, BuildsAreRequests
  <2>2. QED  BY <1>1, <1>4, <2>1 DEF LoopPcs
<1>8. \A d \in Callers : Own(caller[d])'
  BY <1>6
<1>9. scheduler' = scheduler
  BY <1>2
<1>10. QED  BY <1>2, <1>4, <1>5, <1>7, <1>8, <1>9, CallerStep

(***************************************************************************)
(* The way to the denoising loop                                           *)
(***************************************************************************)
LEMMA CheckTextKeeps ==
    ASSUME Inv, NEW c \in Callers, CheckText(c)
    PROVE  Inv'
<1>1. CASE Gone(c)
  BY <1>1, GoneKeeps DEF CheckText, At
<1>2. CASE caller' = [caller EXCEPT ![c].pc = "gate", ![c].text = guard]
  <2> DEFINE l == [caller[c] EXCEPT !.pc = "gate", !.text = guard]
  <2>1. /\ caller[c] \in Locals /\ Own(caller[c]) /\ Types /\ caller[c].pc = "text" /\ guard \in BOOLEAN
    BY LocalTypes DEF Inv, CheckText, At, Types
  <2>2. caller' = [caller EXCEPT ![c] = l] /\ UNCHANGED engineVars /\ scheduler' = scheduler
    BY <1>2 DEF CheckText
  <2>3. /\ l \in Locals /\ l.requests = caller[c].requests /\ l.pc = "gate" /\ l.text = guard
        /\ l.mine = caller[c].mine /\ l.cached = caller[c].cached /\ l.since = caller[c].since
        /\ l.promised = caller[c].promised
    BY <2>1 DEF Locals, Pcs, PipePcs, LoopPcs
  <2> HIDE DEF l
  <2>4. Own(l)
    BY <2>1, <2>3 DEF Own, Places, Guarded, Gated, CacheState, PipePcs, CheckedPcs, LoopPcs
  <2>5. scheduler' \in [BuildIds -> Int] /\ l.pc \notin LoopPcs
    BY <2>1, <2>2, <2>3 DEF Types, LoopPcs
  <2>6. QED  BY <2>1, <2>2, <2>3, <2>4, <2>5, LocalStep
<1>3. QED  BY <1>1, <1>2 DEF CheckText

\* With one build the gate takes the only compiled transformer out.
LEMMA GateKeeps ==
    ASSUME Inv, NEW c \in Callers, _gate_compile_if_needed(c)
    PROVE  Inv'
<1> DEFINE l == [caller[c] EXCEPT !.pc = "start"]
<1>1. /\ caller[c] \in Locals /\ Own(caller[c]) /\ Types /\ caller[c].pc = "gate" /\ builds \in Nat
      /\ pipe \in 1 .. builds
  BY LocalTypes DEF Inv, _gate_compile_if_needed, At, Types, Own, Places, PipePcs, NoPipe
<1>2. /\ caller' = [caller EXCEPT ![c] = l]
      /\ compiled' = IF uncompiled # NoPipe /\ config.ceiling > 0 /\ caller[c].frames > config.ceiling
                     THEN compiled \ {pipe} ELSE compiled
      /\ UNCHANGED <<config, pipe, builds, uncompiled, guard, scheduler>>
  BY DEF _gate_compile_if_needed, Goto
<1>3. /\ l \in Locals /\ l.requests = caller[c].requests /\ l.pc = "start"
      /\ l.mine = caller[c].mine /\ l.cached = caller[c].cached /\ l.since = caller[c].since
      /\ l.promised = caller[c].promised /\ l.text = caller[c].text /\ l.frames = caller[c].frames
  BY <1>1 DEF Locals, Pcs, PipePcs, LoopPcs
<1> HIDE DEF l
<1>4. compiled' \subseteq compiled /\ compiled \subseteq 1 .. builds
  BY <1>1, <1>2 DEF Types
<1>5. Types' /\ builds' = builds
  BY <1>1, <1>2, <1>3, <1>4 DEF Types
<1>6. OverCeiling(caller[c]) /\ builds = 1 => compiled' = {}
  <2>1. SUFFICES ASSUME OverCeiling(caller[c]), builds = 1, compiled # {}
                 PROVE  compiled' = {}
    BY <1>4
  <2>2. config.engine = "cosmos" /\ config.compile /\ builds > 0
    BY <1>1, <2>1 DEF Own, Gated, OverCeiling
  <2>3. uncompiled # NoPipe
    BY <1>1, <2>2 DEF Own, Gated
  <2>4. pipe = 1 /\ compiled \subseteq {1}
    BY <1>1, <1>4, <2>1
  <2>5. QED  BY <1>2, <2>1, <2>3, <2>4 DEF OverCeiling
<1>7. ASSUME NEW d \in Callers
      PROVE  Own(caller[d])'
  <2>1. Own(caller[d]) /\ caller[d] \in Locals /\ caller'[d] = IF d = c THEN l ELSE caller[d]
    BY <1>2, LocalTypes DEF Inv
  <2>2. Places(caller[d])'
    BY <1>1, <1>2, <1>3, <2>1 DEF Own, Places, PipePcs, LoopPcs
  <2>3. Guarded(caller[d])'
    BY <1>1, <1>2, <1>3, <2>1 DEF Own, Guarded, CheckedPcs, LoopPcs
  <2>4. Gated(caller[d])'
    <3>1. compiled = {} => compiled' = {}
      BY <1>4
    <3>2. CASE d = c
      BY <1>2, <1>3, <1>6, <2>1, <3>1, <3>2 DEF Own, Gated, OverCeiling
    <3>3. CASE d # c
      BY <1>2, <2>1, <3>1, <3>3 DEF Own, Gated, OverCeiling
    <3>4. QED  BY <3>2, <3>3
  <2>5. CacheState(caller[d])'
    <3>1. CASE d = c
      BY <1>1, <1>3, <2>1, <3>1 DEF Own, CacheState, LoopPcs
    <3>2. CASE d # c
      BY <1>2, <2>1, <3>2
         DEF Own, CacheState, CacheAge, UsedAge, Cadence, last, effective_mode, cache
    <3>3. QED  BY <3>1, <3>2
  <2>6. QED  BY <2>2, <2>3, <2>4, <2>5 DEF Own
<1>8. /\ l.pc \notin LoopPcs /\ l.pc \notin {"load", "build"} /\ l.requests >= caller[c].requests
      /\ l.requests >= 1
  <2>1. caller[c].requests \in Int /\ caller[c].requests >= 1
    BY <1>1 DEF Locals, Inv, BuildsAreRequests
  <2>2. QED  BY <1>3, <2>1 DEF LoopPcs
<1>9. \A d \in Callers : Own(caller[d])'
  BY <1>7
<1>10. scheduler' = scheduler
  BY <1>2
<1>11. QED  BY <1>2, <1>3, <1>5, <1>8, <1>9, <1>10, CallerStep

\* A generation that starts on a scheduler in use marks itself and the users;
\* otherwise it starts it over for itself.
LEMMA StartKeeps ==
    ASSUME Inv, NEW c \in Callers, Start(c)
    PROVE  Inv'
<1>1. /\ caller[c] \in Locals /\ Own(caller[c]) /\ Types /\ caller[c].pc = "start" /\ builds \in Nat
      /\ pipe \in 1 .. builds
  <2>1. caller[c] \in Locals /\ Own(caller[c]) /\ Types /\ caller[c].pc = "start" /\ builds \in Nat
        /\ pipe \in 0 .. builds
    BY LocalTypes DEF Inv, Start, At, Types
  <2>2. pipe # NoPipe
    BY <2>1 DEF Own, Places, PipePcs
  <2>3. QED  BY <2>1, <2>2 DEF NoPipe
<1>2. /\ UNCHANGED engineVars
      /\ scheduler' = [scheduler EXCEPT ![pipe] = Unset]
  BY DEF Start, SetTimesteps
<1> DEFINE stepped == caller' = [d \in Callers |->
             IF d = c THEN [caller[c] EXCEPT !.pc = "decide", !.mine = pipe, !.step = 0,
                                             !.overlapped = Sharing(c) # {}]
             ELSE [caller[d] EXCEPT !.overlapped = @ \/ d \in Sharing(c)]]
<1>3. stepped
  BY DEF Start
<1>4. pipe \in BuildIds /\ builds' = builds /\ pipe' = pipe
  BY <1>1, <1>2, BuildsBounded DEF Inv, engineVars
<1>5. /\ caller'[c] \in Locals /\ caller'[c].pc = "decide" /\ caller'[c].mine = pipe
      /\ caller'[c].step = 0 /\ caller'[c].overlapped = (Sharing(c) # {})
      /\ caller'[c].requests = caller[c].requests /\ caller'[c].frames = caller[c].frames
      /\ caller'[c].cached = caller[c].cached /\ caller'[c].since = caller[c].since
      /\ caller'[c].promised = caller[c].promised /\ caller'[c].text = caller[c].text
  <2>1. pipe \in Nat /\ (Sharing(c) # {}) \in BOOLEAN
    BY <1>1
  <2>2. QED  BY <1>1, <1>3, <2>1 DEF Locals, Pcs, PipePcs, LoopPcs
<1>6. ASSUME NEW d \in Callers, d # c
      PROVE  /\ caller'[d] \in Locals /\ caller'[d].pc = caller[d].pc
             /\ caller'[d].mine = caller[d].mine /\ caller'[d].step = caller[d].step
             /\ caller'[d].requests = caller[d].requests /\ caller'[d].frames = caller[d].frames
             /\ caller'[d].cached = caller[d].cached /\ caller'[d].since = caller[d].since
             /\ caller'[d].promised = caller[d].promised /\ caller'[d].text = caller[d].text
             /\ caller'[d].video = caller[d].video /\ caller'[d].used = caller[d].used
             /\ caller'[d].age = caller[d].age
             /\ caller'[d].overlapped = (caller[d].overlapped \/ d \in Sharing(c))
  <2>1. caller[d] \in Locals /\ (caller[d].overlapped \/ d \in Sharing(c)) \in BOOLEAN
    BY <1>1, LocalTypes
  <2>2. QED  BY <1>3, <1>6, <2>1 DEF Locals
<1> HIDE DEF stepped
<1>7. Types'
  <2>1. DOMAIN caller' = Callers /\ caller' = [d \in Callers |-> caller'[d]]
    BY <1>3 DEF stepped
  <2>2. caller' \in [Callers -> Locals]
    BY <1>5, <1>6, <2>1
  <2>3. scheduler' \in [BuildIds -> Int]
    BY <1>2, <1>4, <1>1 DEF Types, Unset
  <2>4. QED  BY <1>1, <1>2, <2>2, <2>3 DEF Types, engineVars
<1>8. BuildsAreRequests'
  <2>1. BuildsAreRequests /\ \A d \in Callers : caller[d].requests \in Int
    BY LocalTypes DEF Inv, Locals
  <2>2. \A d \in Callers :
           /\ caller'[d].requests = caller[d].requests
           /\ caller'[d].pc # "idle" => caller[d].requests >= 1
           /\ caller'[d].pc \in {"load", "build"} => caller[d].pc \in {"load", "build"}
    BY <1>1, <1>5, <1>6, <2>1 DEF BuildsAreRequests
  <2>3. \A d \in Callers : caller'[d].requests \in Int /\ caller'[d].requests >= caller[d].requests
    BY <2>1, <2>2
  <2>4. QED  BY <1>1, <1>4, <2>1, <2>2, <2>3, BuildsStay
<1>9. ASSUME NEW d \in Callers
      PROVE  Own(caller[d])'
  <2>1. Own(caller[d]) /\ caller[d] \in Locals
    BY LocalTypes DEF Inv
  <2>2. CASE d = c
    <3>1. Places(caller[c])'
      BY <1>1, <1>2, <1>5 DEF Own, Places, PipePcs, LoopPcs, engineVars, NoPipe
    <3>2. Guarded(caller[c])' /\ Gated(caller[c])'
      BY <1>1, <1>2, <1>5 DEF Own, Guarded, Gated, OverCeiling, CheckedPcs, LoopPcs, engineVars
    <3>3. caller[c].cached = NoStep /\ caller[c].since = 0
      BY <1>1 DEF Own, CacheState, LoopPcs
    <3>4. Cadence => config.warmup \in Nat
      BY <1>1, GenerationAssumption DEF Types, ConfigType
    <3>5. CacheState(caller[c])'
      <4>1. CacheAge(caller[c])'
        BY <1>2, <1>5, <3>3, <3>4
           DEF CacheAge, last, Cadence, effective_mode, cache, NoStep, engineVars
      <4>2. QED  BY <1>5, <4>1 DEF CacheState, LoopPcs
    <3>6. QED  BY <2>2, <3>1, <3>2, <3>5 DEF Own
  <2>3. CASE d # c
    <3>1. Places(caller[d])' /\ Guarded(caller[d])' /\ Gated(caller[d])'
      BY <1>2, <1>6, <2>1, <2>3 DEF Own, Places, Guarded, Gated, OverCeiling, engineVars
    <3>2. CacheState(caller[d])'
      BY <1>2, <1>6, <2>1, <2>3
         DEF Own, CacheState, CacheAge, UsedAge, Cadence, last, effective_mode, cache, engineVars
    <3>3. QED  BY <3>1, <3>2 DEF Own
  <2>4. QED  BY <2>2, <2>3
<1>10. ASSUME NEW d \in Callers
      PROVE  Follows(d)'
  <2>1. SUFFICES ASSUME Alone(d)'
                 PROVE  /\ \A e \in Callers : InLoop(e)' /\ caller'[e].mine = caller'[d].mine => e = d
                        /\ IndexFits(caller'[d], scheduler'[caller'[d].mine])
    BY DEF Follows, IndexFits
  <2>2. CASE d = c
    <3>1. Sharing(c) = {}
      BY <1>5, <2>1, <2>2 DEF Alone
    <3>2. \A e \in Callers : InLoop(e)' /\ caller'[e].mine = caller'[c].mine => e = c
      BY <1>5, <1>6, <3>1 DEF Sharing, InLoop
    <3>3. scheduler'[pipe] = Unset
      BY <1>1, <1>2, <1>4 DEF Types
    <3>4. QED  BY <1>5, <2>2, <3>2, <3>3 DEF IndexFits
  <2>3. CASE d # c
    <3>1. Alone(d) /\ caller[d].mine # pipe
      BY <1>6, <2>1, <2>3 DEF Alone, InLoop, Sharing
    <3>2. \A e \in Callers : InLoop(e)' /\ caller'[e].mine = caller'[d].mine => e = d
      BY <1>5, <1>6, <2>3, <3>1 DEF Inv, Follows, InLoop
    <3>3. scheduler'[caller[d].mine] = scheduler[caller[d].mine]
      <4>1. caller[d].mine \in BuildIds
        BY <1>1, <3>1, LocalTypes, BuildsBounded
           DEF Inv, Own, Places, Alone, InLoop, LoopPcs, Types, Locals, NoPipe
      <4>2. QED  BY <1>1, <1>2, <3>1, <4>1 DEF Types
    <3>4. IndexFits(caller[d], scheduler[caller[d].mine])
      BY <3>1 DEF Inv, Follows
    <3>5. QED  BY <1>6, <2>3, <3>2, <3>3, <3>4 DEF IndexFits
  <2>4. QED  BY <2>2, <2>3
<1>11. QED  BY <1>7, <1>8, <1>9, <1>10 DEF Inv

(***************************************************************************)
(* One iteration of the denoising loop                                     *)
(***************************************************************************)
\* The index an unmarked generation sees is its step's, after the first call
\* the next one's.
LEMMA IndexIsTheSteps ==
    ASSUME Inv, NEW c \in Callers, InLoop(c)
    PROVE  /\ index(c) \in Int /\ caller[c].mine \in BuildIds
           /\ Alone(c) /\ caller[c].pc # "rewind" => index(c) = caller[c].step
           /\ Alone(c) /\ caller[c].pc = "rewind" =>
                 scheduler[caller[c].mine] = caller[c].step + 1
<1>1. caller[c] \in Locals /\ Types /\ Own(caller[c]) /\ caller[c].step \in Nat
  BY LocalTypes DEF Inv, Locals
<1>2. caller[c].mine \in BuildIds
  BY <1>1, BuildsBounded DEF Inv, Own, Places, InLoop, LoopPcs, Types, Locals, NoPipe
<1>3. scheduler[caller[c].mine] \in Int
  BY <1>1, <1>2 DEF Types
<1>4. index(c) \in Int
  BY <1>1, <1>3 DEF index
<1>5. Alone(c) => IndexFits(caller[c], scheduler[caller[c].mine])
  BY DEF Inv, Follows
<1>6. Alone(c) /\ caller[c].pc # "rewind" => index(c) = caller[c].step
  BY <1>1, <1>5 DEF IndexFits, index, InLoop
<1>7. Alone(c) /\ caller[c].pc = "rewind" => scheduler[caller[c].mine] = caller[c].step + 1
  BY <1>5 DEF IndexFits
<1>8. QED  BY <1>2, <1>4, <1>6, <1>7

\* A full forward: the cached prediction is of this step.
LEMMA ForwardAge ==
    ASSUME Types, NEW l \in Locals, NEW m \in Locals, l.pc = "decide", CacheAge(l),
           m.pc = "first", m.step = l.step, m.cached = l.step, m.age = 0,
           m.since = IF effective_mode = "adaptive" THEN 0 ELSE l.since
    PROVE  CacheAge(m) /\ UsedAge(m)
<1>1. l.step \in Nat /\ m.step \in Nat /\ m.cached \in Int
  BY DEF Locals
<1>2. /\ config.warmup \in Nat /\ config.skipEvery \in Nat /\ config.floor \in Nat
  BY GenerationAssumption DEF Types, ConfigType
<1>3. last(m) = m.step /\ m.cached = m.step /\ m.cached # NoStep /\ m.step - m.cached = 0
  BY <1>1 DEF last, NoStep
<1>4. Cadence => (m.step - config.warmup) % config.skipEvery \in 0 .. config.skipEvery - 1
  BY <1>1, <1>2, NextModulo DEF Cadence
<1>5. CacheAge(m)
  <2>1. m.cached \in 0 .. last(m)
    BY <1>1, <1>3
  <2>2. Cadence => last(m) - m.cached <= (last(m) - config.warmup) % config.skipEvery
    BY <1>2, <1>3, <1>4
  <2>3. effective_mode = "adaptive" => m.since = last(m) - m.cached
    BY <1>3
  <2>4. QED  BY <1>3, <2>1, <2>2, <2>3 DEF CacheAge
<1>6. UsedAge(m)
  BY <1>2 DEF UsedAge
<1>7. QED  BY <1>5, <1>6

\* A cached prediction on a cadence: one step older than the last one used, and
\* the step is not a multiple of the cadence.
LEMMA FixedReuseAge ==
    ASSUME Types, NEW l \in Locals, NEW m \in Locals, l.pc = "decide", CacheAge(l), fixed_skip(l),
           m.pc = "first", m.step = l.step, m.cached = l.cached, m.age = l.step - l.cached
    PROVE  CacheAge(m) /\ UsedAge(m)
<1>1. l.step \in Nat /\ m.step \in Nat /\ m.cached \in Int /\ l.cached \in Int
  BY DEF Locals
<1>2. /\ config.warmup \in Nat /\ config.skipEvery \in Nat /\ config.floor \in Nat
  BY GenerationAssumption DEF Types, ConfigType
<1>3. /\ effective_mode = "fixed" /\ config.skipEvery >= 2 /\ Cadence
      /\ l.step >= config.warmup /\ l.cached # NoStep
      /\ (l.step - config.warmup) % config.skipEvery # 0
  BY DEF fixed_skip, Cadence
<1>4. last(l) = l.step - 1 /\ last(m) = l.step
  BY DEF last
<1>5. l.cached \in 0 .. l.step - 1
  BY <1>3, <1>4 DEF CacheAge
<1> DEFINE x == l.step - 1 - config.warmup
<1>6. x \in Int /\ x + 1 = l.step - config.warmup
  BY <1>1, <1>2
<1>7. /\ (x + 1) % config.skipEvery \in 0 .. config.skipEvery - 1
      /\ x % config.skipEvery \in 0 .. config.skipEvery - 1
      /\ (x + 1) % config.skipEvery = (x % config.skipEvery) + 1
  <2>1. x + 1 \in Int /\ config.skipEvery \in Int /\ config.skipEvery > 0
    BY <1>2, <1>3, <1>6
  <2>2. (x + 1) % config.skipEvery \in 0 .. config.skipEvery - 1
    BY <2>1, NextModulo
  <2>3. /\ x % config.skipEvery \in 0 .. config.skipEvery - 1
        /\ (x + 1) % config.skipEvery = 0 \/ (x + 1) % config.skipEvery = (x % config.skipEvery) + 1
    BY <1>6, <2>1, NextModulo
  <2>4. QED  BY <1>3, <1>6, <2>2, <2>3
<1>8. l.step - 1 >= config.warmup
  <2>1. SUFFICES ASSUME l.step = config.warmup
                 PROVE  FALSE
    BY <1>1, <1>2, <1>3
  <2>2. l.step - config.warmup = 0 /\ 0 % config.skipEvery = 0
    BY <1>1, <1>2, <1>3, <2>1
  <2>3. QED  BY <1>3, <2>2
<1>9. (l.step - 1) - l.cached <= x % config.skipEvery
  BY <1>3, <1>4, <1>8 DEF CacheAge
<1>10. l.step - l.cached <= (l.step - config.warmup) % config.skipEvery
  <2>1. ((l.step - 1) - l.cached) + 1 <= (x % config.skipEvery) + 1 /\ x % config.skipEvery \in Int
    BY <1>1, <1>7, <1>9
  <2>2. ((l.step - 1) - l.cached) + 1 = l.step - l.cached
    BY <1>1
  <2>3. QED  BY <1>6, <1>7, <2>1, <2>2
<1>11. CacheAge(m)
  BY <1>1, <1>2, <1>3, <1>4, <1>5, <1>10 DEF CacheAge
<1>12. m.age <= (l.step - config.warmup) % config.skipEvery
  BY <1>10
<1>13. m.age < config.skipEvery
  BY <1>1, <1>2, <1>6, <1>7, <1>12
<1>14. UsedAge(m)
  BY <1>3, <1>13 DEF UsedAge
<1>15. QED  BY <1>11, <1>14

\* A cached prediction by the adaptive gate: it is counted towards the floor.
LEMMA AdaptiveReuseAge ==
    ASSUME Types, NEW l \in Locals, NEW m \in Locals, l.pc = "decide", CacheAge(l), gate_decides(l),
           m.pc = "first", m.step = l.step, m.cached = l.cached, m.age = l.step - l.cached,
           m.since = l.since + 1
    PROVE  CacheAge(m) /\ UsedAge(m)
<1>1. l.step \in Nat /\ m.step \in Nat /\ m.cached \in Int /\ l.cached \in Int /\ l.since \in Int
  BY DEF Locals
<1>2. /\ config.warmup \in Nat /\ config.skipEvery \in Nat /\ config.floor \in Nat
  BY GenerationAssumption DEF Types, ConfigType
<1>3. /\ effective_mode = "adaptive" /\ ~ Cadence /\ l.step # config.steps - 1 /\ l.cached # NoStep
      /\ config.floor > 0 => l.since < config.floor
  BY <1>1, <1>2 DEF gate_decides, Cadence
<1>4. last(l) = l.step - 1 /\ last(m) = l.step
  BY DEF last
<1>5. l.cached \in 0 .. l.step - 1 /\ l.since = l.step - 1 - l.cached
  BY <1>3, <1>4 DEF CacheAge
<1>6. m.since = l.step - l.cached /\ m.cached \in 0 .. l.step
  BY <1>1, <1>5
<1>7. CacheAge(m)
  BY <1>3, <1>4, <1>6 DEF CacheAge
<1>8. config.floor > 0 => m.age <= config.floor
  BY <1>1, <1>2, <1>3, <1>5
<1>9. UsedAge(m)
  BY <1>3, <1>8 DEF UsedAge
<1>10. QED  BY <1>7, <1>9

\* What a step inside the loop leaves to prove.
LEMMA LoopStep ==
    ASSUME Inv, NEW c \in Callers, InLoop(c), NEW l \in Locals, caller' = [caller EXCEPT ![c] = l],
           UNCHANGED engineVars, NEW i \in Int, scheduler' = [scheduler EXCEPT ![caller[c].mine] = i],
           l.pc \in LoopPcs, l.requests = caller[c].requests, l.mine = caller[c].mine,
           l.overlapped = caller[c].overlapped, l.frames = caller[c].frames,
           l.promised = caller[c].promised, l.text = caller[c].text,
           CacheAge(l), l.pc = "first" => UsedAge(l),
           Alone(c) => IndexFits(l, i)
    PROVE  Inv'
<1>1. caller[c] \in Locals /\ Types /\ Own(caller[c]) /\ caller[c].pc \in LoopPcs
  BY LocalTypes DEF Inv, InLoop, LoopPcs
<1>2. caller[c].mine \in BuildIds
  BY IndexIsTheSteps
<1>3. /\ scheduler' \in [BuildIds -> Int] /\ scheduler'[caller[c].mine] = i
      /\ \A b \in BuildIds : b # caller[c].mine => scheduler'[b] = scheduler[b]
  BY <1>1, <1>2 DEF Types
<1>4. Places(l)
  BY <1>1 DEF Own, Places, PipePcs, LoopPcs
<1>5. Guarded(l) /\ Gated(l)
  BY <1>1 DEF Own, Guarded, Gated, OverCeiling, CheckedPcs, LoopPcs
<1>6. CacheState(l)
  BY DEF CacheState
<1>7. Own(l)
  BY <1>4, <1>5, <1>6 DEF Own
<1>8. /\ caller[c].pc # "idle" /\ l.pc \notin {"load", "build"}
      /\ \A b \in BuildIds : scheduler'[b] = scheduler[b] \/ (InLoop(c) /\ b = caller[c].mine)
  BY <1>1, <1>3 DEF LoopPcs
<1>9. Alone(c) /\ l.pc \in LoopPcs => IndexFits(l, scheduler'[l.mine])
  BY <1>3
<1>10. QED  BY <1>3, <1>7, <1>8, <1>9, LocalStep

\* An iteration decides between a full forward and the cached prediction.
LEMMA DecideKeeps ==
    ASSUME Inv, NEW c \in Callers, NEW rel_l1 \in 0 .. MaxDrift, Decide(c, rel_l1)
    PROVE  Inv'
<1>1. /\ caller[c] \in Locals /\ Types /\ Own(caller[c]) /\ caller[c].pc = "decide" /\ InLoop(c)
      /\ rel_l1 \in Int
  BY LocalTypes, GenerationAssumption DEF Inv, Decide, At, InLoop
<1>2. /\ caller[c].step \in Nat /\ caller[c].cached \in Int /\ caller[c].since \in Int
      /\ caller[c].acc \in Int
  BY <1>1 DEF Locals
<1>3. index(c) \in Int /\ (Alone(c) => index(c) = caller[c].step)
  BY <1>1, IndexIsTheSteps
<1>4. CacheAge(caller[c])
  BY <1>1 DEF Own, CacheState, LoopPcs
<1>5. /\ scheduler' = [scheduler EXCEPT ![caller[c].mine] = index(c)] /\ UNCHANGED engineVars
      /\ \/ caller' = [caller EXCEPT ![c] = Forward(c)]
         \/ /\ fixed_skip(caller[c]) \/ gate_decides(caller[c])
            /\ caller' = [caller EXCEPT ![c] = Reuse(c, rel_l1)]
  BY DEF Decide
<1>6. CASE caller' = [caller EXCEPT ![c] = Forward(c)]
  <2>1. PICK i \in Int : i = index(c)
    BY <1>3
  <2>2. PICK a \in Int : a = IF effective_mode = "adaptive" THEN 0 ELSE caller[c].acc
    BY <1>2
  <2>3. PICK n \in Int : n = IF effective_mode = "adaptive" THEN 0 ELSE caller[c].since
    BY <1>2
  <2>4. PICK z \in Int : z = 0
    OBVIOUS
  <2>5. PICK k \in Int : k = caller[c].step
    BY <1>2
  <2>6. Forward(c) = [caller[c] EXCEPT !.pc = "first", !.used = i, !.age = z,
                                       !.cached = k, !.acc = a, !.since = n]
    BY <1>1, <2>1, <2>2, <2>3, <2>4, <2>5 DEF Forward, Locals
  <2> DEFINE l == [caller[c] EXCEPT !.pc = "first", !.used = i, !.age = z,
                                    !.cached = k, !.acc = a, !.since = n]
  <2>7. /\ l \in Locals /\ l.pc = "first" /\ l.used = i /\ l.age = z /\ l.cached = k
        /\ l.since = n /\ l.step = caller[c].step /\ l.requests = caller[c].requests
        /\ l.mine = caller[c].mine /\ l.overlapped = caller[c].overlapped
        /\ l.frames = caller[c].frames /\ l.promised = caller[c].promised /\ l.text = caller[c].text
    BY <1>1 DEF Locals, Pcs, PipePcs, LoopPcs
  <2>8. caller' = [caller EXCEPT ![c] = l]
    BY <1>6, <2>6
  <2> HIDE DEF l
  <2>9. CacheAge(l) /\ UsedAge(l)
    BY <1>1, <1>4, <2>3, <2>4, <2>5, <2>7, ForwardAge
  <2>10. Alone(c) => IndexFits(l, i)
    BY <1>3, <2>1, <2>7 DEF IndexFits
  <2>11. l.pc \in LoopPcs
    BY <2>7 DEF LoopPcs
  <2>12. scheduler' = [scheduler EXCEPT ![caller[c].mine] = i] /\ UNCHANGED engineVars
    BY <1>5, <2>1
  <2>13. QED  BY <1>1, <2>7, <2>8, <2>9, <2>10, <2>11, <2>12, LoopStep
<1>7. CASE /\ fixed_skip(caller[c]) \/ gate_decides(caller[c])
           /\ caller' = [caller EXCEPT ![c] = Reuse(c, rel_l1)]
  <2>1. PICK i \in Int : i = index(c)
    BY <1>3
  <2>2. PICK a \in Int : a = caller[c].acc + rel_l1
    BY <1>1, <1>2
  <2>3. PICK n \in Int : n = caller[c].since + 1
    BY <1>2
  <2>4. PICK g \in Int : g = caller[c].step - caller[c].cached
    BY <1>2
  <2>5. Reuse(c, rel_l1) = [caller[c] EXCEPT !.pc = "first", !.used = i, !.age = g,
                                             !.acc = a, !.since = n]
    BY <1>1, <2>1, <2>2, <2>3, <2>4 DEF Reuse, Locals
  <2> DEFINE l == [caller[c] EXCEPT !.pc = "first", !.used = i, !.age = g, !.acc = a, !.since = n]
  <2>6. /\ l \in Locals /\ l.pc = "first" /\ l.used = i /\ l.age = g /\ l.cached = caller[c].cached
        /\ l.since = n /\ l.step = caller[c].step /\ l.requests = caller[c].requests
        /\ l.mine = caller[c].mine /\ l.overlapped = caller[c].overlapped
        /\ l.frames = caller[c].frames /\ l.promised = caller[c].promised /\ l.text = caller[c].text
    BY <1>1, <1>2 DEF Locals, Pcs, PipePcs, LoopPcs
  <2>7. caller' = [caller EXCEPT ![c] = l]
    BY <1>7, <2>5
  <2> HIDE DEF l
  <2>8. CacheAge(l) /\ UsedAge(l)
    <3>1. CASE fixed_skip(caller[c])
      BY <1>1, <1>4, <2>4, <2>6, <3>1, FixedReuseAge
    <3>2. CASE gate_decides(caller[c])
      BY <1>1, <1>4, <2>3, <2>4, <2>6, <3>2, AdaptiveReuseAge
    <3>3. QED  BY <1>7, <3>1, <3>2
  <2>9. Alone(c) => IndexFits(l, i)
    BY <1>3, <2>1, <2>6 DEF IndexFits
  <2>10. l.pc \in LoopPcs
    BY <2>6 DEF LoopPcs
  <2>11. scheduler' = [scheduler EXCEPT ![caller[c].mine] = i] /\ UNCHANGED engineVars
    BY <1>5, <2>1
  <2>12. QED  BY <1>1, <2>6, <2>7, <2>8, <2>9, <2>10, <2>11, LoopStep
<1>8. QED  BY <1>5, <1>6, <1>7

\* The first scheduler call moves an unmarked generation's index to the next
\* step.
LEMMA FirstStepKeeps ==
    ASSUME Inv, NEW c \in Callers, FirstStep(c)
    PROVE  Inv'
<1>1. /\ caller[c] \in Locals /\ Types /\ Own(caller[c]) /\ caller[c].pc = "first" /\ InLoop(c)
      /\ caller[c].pc # "idle"
  BY LocalTypes DEF Inv, FirstStep, At, InLoop
<1>2. caller[c].step \in Nat /\ caller[c].cached \in Int
  BY <1>1 DEF Locals
<1>3. index(c) \in Int /\ (Alone(c) => index(c) = caller[c].step)
  BY <1>1, IndexIsTheSteps
<1>4. CASE index(c) >= config.steps
  BY <1>1, <1>4, GoneKeeps DEF FirstStep, SchedulerStep
<1>5. CASE ~ (index(c) >= config.steps)
  <2>1. PICK i \in Int : i = index(c)
    BY <1>3
  <2> DEFINE l == [caller[c] EXCEPT !.pc = "rewind", !.used = i]
  <2>2. /\ caller' = [caller EXCEPT ![c] = l] /\ UNCHANGED engineVars
        /\ scheduler' = [scheduler EXCEPT ![caller[c].mine] = i + 1]
    BY <1>5, <2>1 DEF FirstStep, SchedulerStep
  <2>3. /\ l \in Locals /\ l.pc = "rewind" /\ l.used = i /\ l.cached = caller[c].cached
        /\ l.since = caller[c].since /\ l.step = caller[c].step /\ l.requests = caller[c].requests
        /\ l.mine = caller[c].mine /\ l.overlapped = caller[c].overlapped
        /\ l.frames = caller[c].frames /\ l.promised = caller[c].promised /\ l.text = caller[c].text
    BY <1>1 DEF Locals, Pcs, PipePcs, LoopPcs
  <2> HIDE DEF l
  <2>4. CacheAge(caller[c])
    BY <1>1 DEF Own, CacheState, LoopPcs
  <2>5. CacheAge(l)
    BY <1>1, <2>3, <2>4 DEF CacheAge, last
  <2>6. (Alone(c) => IndexFits(l, i + 1)) /\ i + 1 \in Int
    BY <1>3, <2>1, <2>3 DEF IndexFits
  <2>7. l.pc \in LoopPcs /\ l.pc # "first"
    BY <2>3 DEF LoopPcs
  <2>8. QED  BY <1>1, <2>2, <2>3, <2>5, <2>6, <2>7, LoopStep
<1>6. QED  BY <1>4, <1>5

\* The rewind takes it back.
LEMMA RewindKeeps ==
    ASSUME Inv, NEW c \in Callers, Rewind(c)
    PROVE  Inv'
<1>1. /\ caller[c] \in Locals /\ Types /\ Own(caller[c]) /\ caller[c].pc = "rewind" /\ InLoop(c)
      /\ caller[c].pc # "idle"
  BY LocalTypes DEF Inv, Rewind, At, InLoop
<1>2. /\ caller[c].mine \in BuildIds
      /\ Alone(c) => /\ scheduler[caller[c].mine] = caller[c].step + 1
                     /\ caller[c].used = caller[c].step
  BY <1>1, IndexIsTheSteps DEF Inv, Follows, IndexFits
<1>3. scheduler[caller[c].mine] \in Int /\ caller[c].step \in Nat
  BY <1>1, <1>2 DEF Types, Locals
<1>4. CASE scheduler[caller[c].mine] = Unset
  BY <1>1, <1>4, GoneKeeps DEF Rewind
<1>5. CASE scheduler[caller[c].mine] # Unset
  <2>1. PICK i \in Int : i = scheduler[caller[c].mine] - 1
    BY <1>3
  <2> DEFINE l == [caller[c] EXCEPT !.pc = "second"]
  <2>2. /\ caller' = [caller EXCEPT ![c] = l] /\ UNCHANGED engineVars
        /\ scheduler' = [scheduler EXCEPT ![caller[c].mine] = i]
    BY <1>5, <2>1 DEF Rewind, Goto
  <2>3. /\ l \in Locals /\ l.pc = "second" /\ l.used = caller[c].used /\ l.cached = caller[c].cached
        /\ l.since = caller[c].since /\ l.step = caller[c].step /\ l.requests = caller[c].requests
        /\ l.mine = caller[c].mine /\ l.overlapped = caller[c].overlapped
        /\ l.frames = caller[c].frames /\ l.promised = caller[c].promised /\ l.text = caller[c].text
    BY <1>1 DEF Locals, Pcs, PipePcs, LoopPcs
  <2> HIDE DEF l
  <2>4. CacheAge(caller[c])
    BY <1>1 DEF Own, CacheState, LoopPcs
  <2>5. CacheAge(l)
    BY <1>1, <2>3, <2>4 DEF CacheAge, last
  <2>6. Alone(c) => IndexFits(l, i)
    BY <1>2, <1>3, <2>1, <2>3 DEF IndexFits
  <2>7. l.pc \in LoopPcs /\ l.pc # "first"
    BY <2>3 DEF LoopPcs
  <2>8. QED  BY <1>1, <2>2, <2>3, <2>5, <2>6, <2>7, LoopStep
<1>6. QED  BY <1>4, <1>5

\* The second call leaves the index with the next iteration.
LEMMA SecondStepKeeps ==
    ASSUME Inv, NEW c \in Callers, SecondStep(c)
    PROVE  Inv'
<1>1. /\ caller[c] \in Locals /\ Types /\ Own(caller[c]) /\ caller[c].pc = "second" /\ InLoop(c)
      /\ caller[c].pc # "idle"
  BY LocalTypes DEF Inv, SecondStep, At, InLoop
<1>2. caller[c].step \in Nat /\ caller[c].cached \in Int
  BY <1>1 DEF Locals
<1>3. index(c) \in Int /\ (Alone(c) => index(c) = caller[c].step)
  BY <1>1, IndexIsTheSteps
<1>4. CASE index(c) >= config.steps
  BY <1>1, <1>4, GoneKeeps DEF SecondStep, SchedulerStep
<1>5. CASE ~ (index(c) >= config.steps)
  <2>1. PICK i \in Int : i = index(c)
    BY <1>3
  <2>2. PICK k \in Nat : k = caller[c].step + 1
    BY <1>2
  <2> DEFINE l == [caller[c] EXCEPT !.pc = "decide", !.step = k, !.used = i]
  <2>3. /\ caller' = [caller EXCEPT ![c] = l] /\ UNCHANGED engineVars
        /\ scheduler' = [scheduler EXCEPT ![caller[c].mine] = i + 1]
    BY <1>5, <2>1, <2>2 DEF SecondStep, SchedulerStep
  <2>4. /\ l \in Locals /\ l.pc = "decide" /\ l.used = i /\ l.cached = caller[c].cached
        /\ l.since = caller[c].since /\ l.step = k /\ l.requests = caller[c].requests
        /\ l.mine = caller[c].mine /\ l.overlapped = caller[c].overlapped
        /\ l.frames = caller[c].frames /\ l.promised = caller[c].promised /\ l.text = caller[c].text
    BY <1>1 DEF Locals, Pcs, PipePcs, LoopPcs
  <2> HIDE DEF l
  <2>5. CacheAge(caller[c]) /\ last(caller[c]) = caller[c].step /\ last(l) = caller[c].step
    BY <1>1, <1>2, <2>2, <2>4 DEF Own, CacheState, LoopPcs, last
  <2>6. caller[c].cached # NoStep
    BY <1>1, <2>5 DEF CacheAge
  <2>7. CacheAge(l)
    BY <2>4, <2>5, <2>6 DEF CacheAge
  <2>8. (Alone(c) => IndexFits(l, i + 1)) /\ i + 1 \in Int
    BY <1>3, <2>1, <2>2, <2>4 DEF IndexFits
  <2>9. l.pc \in LoopPcs /\ l.pc # "first"
    BY <2>4 DEF LoopPcs
  <2>10. QED  BY <1>1, <2>3, <2>4, <2>7, <2>8, <2>9, LoopStep
<1>6. QED  BY <1>4, <1>5

(***************************************************************************)
(* The clip is delivered                                                   *)
(***************************************************************************)
LEMMA DecodeKeeps ==
    ASSUME Inv, NEW c \in Callers, Decode(c)
    PROVE  Inv'
<1> DEFINE l == [caller[c] EXCEPT !.pc = "video"]
<1>1. caller[c] \in Locals /\ Own(caller[c]) /\ Types /\ caller[c].pc = "decide"
  BY LocalTypes DEF Inv, Decode, At
<1>2. caller' = [caller EXCEPT ![c] = l] /\ UNCHANGED engineVars /\ scheduler' = scheduler
  BY DEF Decode, Goto
<1>3. /\ l \in Locals /\ l.requests = caller[c].requests /\ l.pc = "video" /\ l.text = caller[c].text
      /\ l.mine = caller[c].mine /\ l.frames = caller[c].frames /\ l.promised = caller[c].promised
  BY <1>1 DEF Locals, Pcs, PipePcs, LoopPcs
<1> HIDE DEF l
<1>4. Own(l)
  BY <1>1, <1>3 DEF Own, Places, Guarded, Gated, CacheState, PipePcs, CheckedPcs, LoopPcs
<1>5. scheduler' \in [BuildIds -> Int] /\ l.pc \notin LoopPcs
  BY <1>1, <1>2, <1>3 DEF Types, LoopPcs
<1>6. QED  BY <1>1, <1>2, <1>3, <1>4, <1>5, LocalStep

\* The frames are checked where the guardrail is there.
LEMMA CheckVideoKeeps ==
    ASSUME Inv, NEW c \in Callers, CheckVideo(c)
    PROVE  Inv'
<1>1. CASE Gone(c)
  BY <1>1, GoneKeeps DEF CheckVideo, At
<1>2. CASE caller' = [caller EXCEPT ![c].pc = "yield", ![c].video = guard]
  <2> DEFINE l == [caller[c] EXCEPT !.pc = "yield", !.video = guard]
  <2>1. /\ caller[c] \in Locals /\ Own(caller[c]) /\ Types /\ caller[c].pc = "video" /\ guard \in BOOLEAN
    BY LocalTypes DEF Inv, CheckVideo, At, Types
  <2>2. caller' = [caller EXCEPT ![c] = l] /\ UNCHANGED engineVars /\ scheduler' = scheduler
    BY <1>2 DEF CheckVideo
  <2>3. /\ l \in Locals /\ l.requests = caller[c].requests /\ l.pc = "yield" /\ l.text = caller[c].text
        /\ l.video = guard /\ l.mine = caller[c].mine /\ l.promised = caller[c].promised
    BY <2>1 DEF Locals, Pcs, PipePcs, LoopPcs
  <2> HIDE DEF l
  <2>4. Own(l)
    BY <2>1, <2>3 DEF Own, Places, Guarded, Gated, CacheState, PipePcs, CheckedPcs, LoopPcs
  <2>5. scheduler' \in [BuildIds -> Int] /\ l.pc \notin LoopPcs
    BY <2>1, <2>2, <2>3 DEF Types, LoopPcs
  <2>6. QED  BY <2>1, <2>2, <2>3, <2>4, <2>5, LocalStep
<1>3. QED  BY <1>1, <1>2 DEF CheckVideo

\* Wan promises nothing: it has no guardrail.
LEMMA CallWanKeeps ==
    ASSUME Inv, NEW c \in Callers, CallWan(c)
    PROVE  Inv'
<1> DEFINE l == [caller[c] EXCEPT !.pc = "yield"]
<1>1. caller[c] \in Locals /\ Own(caller[c]) /\ Types /\ caller[c].pc = "call"
  BY LocalTypes DEF Inv, CallWan, At
<1>2. caller' = [caller EXCEPT ![c] = l] /\ UNCHANGED engineVars /\ scheduler' = scheduler
  BY DEF CallWan, Goto
<1>3. /\ l \in Locals /\ l.requests = caller[c].requests /\ l.pc = "yield"
      /\ l.mine = caller[c].mine /\ l.promised = caller[c].promised
  BY <1>1 DEF Locals, Pcs, PipePcs, LoopPcs
<1> HIDE DEF l
<1>4. ~ l.promised
  BY <1>1, <1>3 DEF Own, Places, Guarded
<1>5. Own(l)
  BY <1>1, <1>3, <1>4 DEF Own, Places, Guarded, Gated, CacheState, PipePcs, CheckedPcs, LoopPcs
<1>6. scheduler' \in [BuildIds -> Int] /\ l.pc \notin LoopPcs
  BY <1>1, <1>2, <1>3 DEF Types, LoopPcs
<1>7. QED  BY <1>1, <1>2, <1>3, <1>5, <1>6, LocalStep

(***************************************************************************)
(* The theorems                                                            *)
(***************************************************************************)
LEMMA InvInit == Init => Inv
<1> SUFFICES ASSUME Init
             PROVE  Inv
  OBVIOUS
<1>1. Cardinality(Callers) \in Nat /\ MaxRequests \in Nat
  BY GenerationAssumption, FS_CardinalityType
<1>2. Idle \in Locals
  BY <1>1 DEF Idle, Locals, Pcs, PipePcs, LoopPcs, NoPipe, NoStep
<1>3. Types
  <2>1. caller \in [Callers -> Locals]
    BY <1>2 DEF Init
  <2>2. scheduler \in [BuildIds -> Int]
    <3>1. Unset \in Int
      BY DEF Unset
    <3>2. scheduler = [b \in BuildIds |-> Unset]
      BY Zenon DEF Init, BuildIds
    <3>3. QED  BY <3>1, <3>2
  <2>3. config \in Configs /\ pipe = 0 /\ builds = 0 /\ uncompiled = 0 /\ compiled = {} /\ guard = FALSE
    BY DEF Init, NoPipe
  <2>4. guard \in BOOLEAN
    BY <2>3
  <2>5. pipe \in 0 .. builds /\ builds \in Nat /\ compiled \subseteq 1 .. builds /\ uncompiled \in 0 .. builds
    BY <2>3
  <2>6. QED  BY <2>1, <2>2, <2>3, <2>4, <2>5 DEF Types
<1>4. \A c \in Callers : caller[c] = Idle /\ caller[c].pc = "idle"
  BY DEF Init, Idle
<1>5. BuildsAreRequests
  <2>1. 1 .. builds = {}
    BY DEF Init
  <2>2. PICK f \in [1 .. builds -> Callers \X (1 .. MaxRequests)] : TRUE
    <3>1. [b \in 1 .. builds |-> b] \in [1 .. builds -> Callers \X (1 .. MaxRequests)]
      BY <2>1
    <3>2. QED  BY <3>1
  <2>3. BuiltBy(f)
    BY <2>1 DEF BuiltBy
  <2>4. QED  BY <1>4, <2>3 DEF BuildsAreRequests
<1>6. ASSUME NEW c \in Callers
      PROVE  Own(caller[c]) /\ Follows(c)
  <2>1. Places(Idle)
    BY DEF Init, Places, Idle, PipePcs, LoopPcs, NoPipe
  <2>2. Guarded(Idle) /\ Gated(Idle)
    BY DEF Init, Guarded, Gated, OverCeiling, Idle, CheckedPcs, LoopPcs
  <2>3. CacheState(Idle)
    BY DEF CacheState, Idle, LoopPcs
  <2>4. Follows(c)
    BY <1>4 DEF Follows, Alone, InLoop
  <2>5. QED  BY <1>4, <2>1, <2>2, <2>3, <2>4 DEF Own
<1>7. QED  BY <1>3, <1>5, <1>6 DEF Inv

\* Every step keeps the invariant.
LEMMA InvNext == Inv /\ [Next]_vars => Inv'
<1> SUFFICES ASSUME Inv, [Next]_vars
             PROVE  Inv'
  OBVIOUS
<1>1. CASE UNCHANGED vars
  <2>1. Types' /\ BuildsAreRequests'
    BY <1>1 DEF Inv, Types, BuildsAreRequests, BuiltBy, vars
  <2>2. ASSUME NEW c \in Callers
        PROVE  Own(caller[c])' /\ Follows(c)'
    <3>1. Own(caller[c]) /\ Follows(c) /\ caller[c] \in Locals /\ caller'[c] = caller[c]
      BY <1>1, LocalTypes DEF Inv, vars
    <3>2. Own(caller[c])'
      BY <1>1, <3>1, OwnStays DEF vars, engineVars
    <3>3. Follows(c)'
      BY <1>1, <3>1 DEF Follows, Alone, InLoop, IndexFits, vars
    <3>4. QED  BY <3>2, <3>3
  <2>3. QED  BY <2>1, <2>2 DEF Inv
<1>2. ASSUME NEW c \in Callers, NEW frames \in FrameSizes, Request(c, frames)
      PROVE  Inv'
  BY <1>2, RequestKeeps
<1>3. ASSUME NEW c \in Callers, Load(c)
      PROVE  Inv'
  BY <1>3, LoadKeeps
<1>4. ASSUME NEW c \in Callers, BuildCosmos(c) \/ BuildWan(c)
      PROVE  Inv'
  BY <1>4, BuildKeeps
<1>5. ASSUME NEW c \in Callers, Assign(c)
      PROVE  Inv'
  BY <1>5, AssignKeeps
<1>6. ASSUME NEW c \in Callers, LoadGuardrail(c)
      PROVE  Inv'
  BY <1>6, LoadGuardrailKeeps
<1>7. ASSUME NEW c \in Callers, LoadGuardrailRaises(c)
      PROVE  Inv'
  BY <1>7, GoneKeeps DEF LoadGuardrailRaises, At
<1>8. ASSUME NEW c \in Callers, CheckText(c)
      PROVE  Inv'
  BY <1>8, CheckTextKeeps
<1>9. ASSUME NEW c \in Callers, _gate_compile_if_needed(c)
      PROVE  Inv'
  BY <1>9, GateKeeps
<1>10. ASSUME NEW c \in Callers, Start(c)
       PROVE  Inv'
  BY <1>10, StartKeeps
<1>11. ASSUME NEW c \in Callers, NEW rel_l1 \in 0 .. MaxDrift, Decide(c, rel_l1)
       PROVE  Inv'
  BY <1>11, DecideKeeps
<1>12. ASSUME NEW c \in Callers, FirstStep(c)
       PROVE  Inv'
  BY <1>12, FirstStepKeeps
<1>13. ASSUME NEW c \in Callers, Rewind(c)
       PROVE  Inv'
  BY <1>13, RewindKeeps
<1>14. ASSUME NEW c \in Callers, SecondStep(c)
       PROVE  Inv'
  BY <1>14, SecondStepKeeps
<1>15. ASSUME NEW c \in Callers, Decode(c)
       PROVE  Inv'
  BY <1>15, DecodeKeeps
<1>16. ASSUME NEW c \in Callers, CheckVideo(c)
       PROVE  Inv'
  BY <1>16, CheckVideoKeeps
<1>17. ASSUME NEW c \in Callers, CallWan(c)
       PROVE  Inv'
  BY <1>17, CallWanKeeps
<1>18. ASSUME NEW c \in Callers, Yield(c)
       PROVE  Inv'
  BY <1>18, GoneKeeps DEF Yield, At
<1>19. ASSUME NEW c \in Callers, Raises(c)
       PROVE  Inv'
  <2>1. caller[c].pc # "idle" /\ Gone(c) /\ UNCHANGED <<engineVars, scheduler>>
    BY <1>19 DEF Raises
  <2>2. QED  BY <2>1, GoneKeeps
<1>20. QED
  BY <1>1, <1>2, <1>3, <1>4, <1>5, <1>6, <1>7, <1>8, <1>9, <1>10, <1>11, <1>12, <1>13, <1>14,
     <1>15, <1>16, <1>17, <1>18, <1>19 DEF Next

\* The state is well typed, the builds are numbered by requests, and every
\* caller has a pipeline where it needs one, owes its promise no check, is past
\* a gate that shut, and carries a cache as old as its configuration allows.
THEOREM GenerationInvariant == Spec => []Inv
<1>1. QED  BY InvInit, InvNext, PTL DEF Spec

\* How stale a noise prediction may be (cache_skip_every,
\* cache_force_full_every), for every cadence, floor, warmup and step count.
THEOREM CachedPredictionsAreFresh == Spec => []StalenessIsBounded
<1>1. Inv => StalenessIsBounded
  <2> SUFFICES ASSUME Inv, NEW c \in Callers, caller[c].pc = "first"
               PROVE  UsedAge(caller[c])
    BY DEF StalenessIsBounded, UsedAge, At
  <2>1. QED  BY DEF Inv, Own, CacheState
<1>2. QED  BY <1>1, GenerationInvariant, PTL

\* A generation that shared the scheduler with no other has the scheduler's
\* index at its loop's step at both calls and between the iterations.
THEOREM IndexFollowsTheLoop == Spec => []SchedulerFollowsTheLoop
<1>1. Inv => SchedulerFollowsTheLoop
  <2> SUFFICES ASSUME Inv, NEW c \in Callers, InLoop(c), ~ caller[c].overlapped
               PROVE  /\ caller[c].pc \in {"first", "rewind", "second"} => caller[c].used = caller[c].step
                      /\ caller[c].pc = "decide" /\ caller[c].step > 0 =>
                            scheduler[caller[c].mine] = caller[c].step
    BY DEF SchedulerFollowsTheLoop, At
  <2>1. IndexFits(caller[c], scheduler[caller[c].mine]) /\ caller[c].step \in Nat
    BY LocalTypes DEF Inv, Follows, Alone, Locals
  <2>2. QED  BY <2>1 DEF IndexFits
<1>2. QED  BY <1>1, GenerationInvariant, PTL

\* No forward above compile_max_frames runs the compiled transformer as long as
\* the pipeline was built once, however many callers share it.
THEOREM NoCompiledForwardAbove == Spec => []CompiledWithinCeiling
<1>1. Inv => CompiledWithinCeiling
  <2> SUFFICES ASSUME Inv, NEW c \in Callers, config.engine = "cosmos", config.ceiling > 0,
                      builds = 1, InLoop(c), caller[c].mine \in compiled
               PROVE  caller[c].frames <= config.ceiling
    BY DEF CompiledWithinCeiling
  <2>1. caller[c] \in Locals /\ Gated(caller[c]) /\ config \in ConfigType
    BY LocalTypes, GenerationAssumption DEF Inv, Own, Types
  <2>2. ~ OverCeiling(caller[c])
    BY <2>1 DEF Gated, InLoop, LoopPcs
  <2>3. caller[c].frames \in Nat /\ config.ceiling \in Nat
    BY <2>1 DEF Locals, ConfigType
  <2>4. QED  BY <2>2, <2>3 DEF OverCeiling
<1>2. QED  BY <1>1, GenerationInvariant, PTL

\* A request that came when the guardrail was there delivers no frame the
\* guardrail has not checked, text and video.
THEOREM PromisedChecksAreMade == Spec => []GuardedOnceLoaded
<1>1. Inv => GuardedOnceLoaded
  BY DEF Inv, Own, Guarded, GuardedOnceLoaded, At
<1>2. QED  BY <1>1, GenerationInvariant, PTL

===============================================================================
