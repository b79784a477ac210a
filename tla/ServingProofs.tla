----------------------------- MODULE ServingProofs -----------------------------
(***************************************************************************)
(* Machine-checked facts about Serving, for every set of requests and      *)
(* push coroutines, every queue depth and capacity, and every bound: no    *)
(* staged payload leaks, the driver pushes one frame of a request at a     *)
(* time, and so what RouterProofs shows holds of the router it pushes to.  *)
(***************************************************************************)
EXTENDS Serving, SequenceTheorems, FiniteSetTheorems, TLAPS

\* The router as RouterProofs takes it: its frames come from a driver that
\* pushes for requests the scheduler took and awaits each push.
Driven == INSTANCE RouterProofs WITH MaxIndex <- MaxFrames, MaxAccepts <- Cardinality(Ids),
                                     DriverPush <- TRUE

(***************************************************************************)
(* The inductive invariant                                                 *)
(***************************************************************************)
PushOps == {"push", "send", "finish"}
DriverPlaces == {"engine", "check", "cancel"} \cup Tasks

\* A generation of the driver and a push coroutine in flight.
Generation ==
    [pc : DriverPlaces, id : Ids, n : 0 .. MaxFrames, final : BOOLEAN, total : 1 .. MaxFrames]
Push == [st : {"queued", "running", "ok", "error"}, id : Ids, frame : R!Frame]

Types ==
    /\ handler \in [Ids -> {"new", "staged", "accepted", "refused", "raised",
                            "streaming", "failed", "done", "gone"}]
    /\ driver \in {Resting, [pc |-> "exited"], [pc |-> "cancelling"]} \cup Generation
    /\ task \in [Tasks -> {Free} \cup Push]
    /\ payloads \subseteq Ids /\ scheduled \subseteq Ids
    /\ requests = [id \in Ids |-> requests[id]]
    /\ DOMAIN call = Threads /\ call = [t \in Threads |-> call[t]]
    /\ channels \in Seq({channels[n] : n \in DOMAIN channels})

\* The loop runs a handler's accept or subscribe while that handler waits for
\* it, or a cancel; the driver thread only cancels.
LoopCall ==
    /\ call["loop"] = R!Idle
       \/ call["loop"].op \in {"accept", "submit", "subscribe", "cancel", "unschedule"}
    /\ call["loop"].op \in {"accept", "submit"} => handler[call["loop"].id] = "staged"
    /\ call["loop"].op = "subscribe" => handler[call["loop"].id] = "accepted"
DriverCall == call["driver"] = R!Idle \/ call["driver"].op \in {"cancel", "unschedule"}

\* A coroutine that runs pushes what it was made for.
Runs(c, q) == c # R!Idle =>
    /\ c.op \in PushOps
    /\ c.op # "push" => c = [op |-> c.op, id |-> c.id, frame |-> c.frame, chan |-> c.chan]
    /\ q.st = "running" /\ c.id = q.id /\ c.frame = q.frame

CallsInOrder == LoopCall /\ DriverCall /\ \A k \in Tasks : Runs(call[k], task[k])

\* An id is scheduled once, by the handler that staged it, whose payload goes
\* with it.
OnceScheduled == \A id \in scheduled : handler[id] \notin {"new", "staged", "refused", "raised"}

\* The adapter holds what a handler stages, or what it left when its accept
\* raised.
Staged == \A id \in payloads : handler[id] \in {"staged", "raised"}

\* Until its accept inserts it, and again when its accept is refused, a request
\* has no entry.
Unaccepted(id) ==
    /\ handler[id] \in {"new", "staged", "refused", "raised"}
    /\ ~ (call["loop"].op = "submit" /\ call["loop"].id = id)
EntriesAccepted == \A id \in Ids : Unaccepted(id) => requests[id] = R!NoEntry

\* What the scheduler still has, it has once, and the driver has not had it.
Outstanding(id) == \E r \in pending : r.id = id
QueuedOnce ==
    /\ \A r \in pending : r.id \in scheduled
    /\ \A r, q \in pending : r.id = q.id => r = q
Handed(id) == id \in scheduled /\ ~ Outstanding(id)

\* The driver awaits each push; one that it gave up on is the last of its
\* request.
OnePush ==
    /\ \A k \in Tasks : task[k] # Free => Handed(task[k].id)
    /\ \A j, k \in Tasks : task[j] # Free /\ task[k] # Free /\ task[j].id = task[k].id => j = k
    /\ driver.pc \in DriverPlaces => Handed(driver.id)
    /\ driver.pc \in Tasks => task[driver.pc] # Free /\ task[driver.pc].id = driver.id
    /\ driver.pc \in {"engine", "check"} => \A k \in Tasks : task[k] # Free => task[k].id # driver.id
    /\ driver.pc = "check" => driver.n > 0

Inv ==
    /\ Types /\ CallsInOrder /\ OnceScheduled /\ Staged /\ EntriesAccepted
    /\ QueuedOnce /\ OnePush

(***************************************************************************)
(* The router's assumptions                                                *)
(***************************************************************************)
LEMMA ThreadsAreApart ==
    /\ "loop" \in Threads /\ "driver" \in Threads /\ Tasks \subseteq Threads
    /\ \A k \in Tasks : k \notin {"loop", "driver", "engine", "check", "cancel", "cancelling", "exited"}
BY ServingAssumption DEF ServingAssumption, Threads

\* The bounds Serving gives its router are ones Router admits.
LEMMA RouterIsAssumed == Driven!RouterAssumption
<1>1. Cardinality(Ids) \in Nat
  BY ServingAssumption, FS_CardinalityType DEF ServingAssumption
<1>2. QED  BY <1>1, ServingAssumption DEF ServingAssumption, Driven!RouterAssumption

\* A call of another kind than push enters the driven router as it does the
\* other; a push enters when its id is scheduled and none of it is in flight.
LEMMA Enters ==
    ASSUME NEW t \in Threads, NEW c \in R!Calls, R!EnsureOpen(t, c),
           c.op = "push" => c.id \in scheduled /\ ~ R!Pushing(c.id)
    PROVE  Driven!Next
<1>1. c \in Driven!Calls
  BY DEF R!Calls, Driven!Calls, R!Frame, Driven!Frame
<1>2. c.op = "push" => c.id \in scheduled /\ ~ Driven!Pushing(c.id)
  BY DEF R!Pushing, Driven!Pushing
<1>3. Driven!EnsureOpen(t, c)
  <2>1. R!accepting = Driven!accepting
    BY DEF R!accepting, Driven!accepting
  <2>2. R!Cardinality(R!accepting) = Driven!Cardinality(Driven!accepting)
    BY <2>1 DEF R!Cardinality, Driven!Cardinality
  <2>3. QED  BY <1>2, <2>2 DEF R!EnsureOpen, Driven!EnsureOpen, R!Idle, Driven!Idle
<1>4. QED  BY <1>1, <1>3 DEF Driven!Next

\* After its entry a call does the same in both.
LEMMA SameCallSteps ==
    ASSUME NEW t \in Threads, R!CallStep(t)
    PROVE  Driven!Next
<1>1. CASE R!AcceptStep(t)
  <2>1. Driven!AcceptStep(t)
    BY <1>1 DEF R!AcceptStep, R!AcceptDuplicate, R!AcceptInsert, R!AcceptSubmitted, R!AcceptRollback,
       Driven!AcceptStep, Driven!AcceptDuplicate, Driven!AcceptInsert, Driven!AcceptSubmitted,
       Driven!AcceptRollback, R!Return, Driven!Return, R!Idle, Driven!Idle, R!NoEntry, Driven!NoEntry,
       R!NewChannel, Driven!NewChannel
  <2>2. QED  BY <2>1 DEF Driven!Next, Driven!CallStep
<1>2. CASE R!PushStep(t)
  <2>1. Driven!PushStep(t)
    BY <1>2 DEF R!PushStep, R!PushRefused, R!PushValidate, R!PushBackpressure, R!PushClosed, R!PushSend,
       R!PushFinish, Driven!PushStep, Driven!PushRefused, Driven!PushValidate, Driven!PushBackpressure,
       Driven!PushClosed, Driven!PushSend, Driven!PushFinish, R!Return, Driven!Return, R!Idle, Driven!Idle,
       R!NoEntry, Driven!NoEntry, R!Pushable, Driven!Pushable, R!buffered, Driven!buffered,
       R!queue_depth, Driven!queue_depth
  <2>2. QED  BY <2>1 DEF Driven!Next, Driven!CallStep
<1>3. CASE R!SubscribeTake(t) \/ R!SubscribeUnknown(t) \/ R!CancelReject(t) \/ R!CancelMark(t)
           \/ R!CancelNotified(t)
  <2>1. \/ Driven!SubscribeTake(t) \/ Driven!SubscribeUnknown(t) \/ Driven!CancelReject(t)
        \/ Driven!CancelMark(t) \/ Driven!CancelNotified(t)
    BY <1>3 DEF R!SubscribeTake, R!SubscribeUnknown, R!CancelReject, R!CancelMark, R!CancelNotified,
       Driven!SubscribeTake, Driven!SubscribeUnknown, Driven!CancelReject, Driven!CancelMark,
       Driven!CancelNotified, R!Return, Driven!Return, R!Idle, Driven!Idle, R!NoEntry, Driven!NoEntry,
       R!is_terminal, Driven!is_terminal
  <2>2. QED  BY <2>1 DEF Driven!Next, Driven!CallStep
<1>4. QED  BY <1>1, <1>2, <1>3 DEF R!CallStep

\* So does a stream, and what reads past the channels reads nothing.
LEMMA SameStreamSteps ==
    ASSUME channels \in Seq({channels[m] : m \in DOMAIN channels}), NEW n,
           R!StreamRecv(n) \/ R!StreamEnd(n) \/ R!StreamDrop(n)
    PROVE  [Driven!Next]_(Driven!vars)
<1>1. CASE n \in DOMAIN channels
  <2>1. Driven!StreamRecv(n) \/ Driven!StreamEnd(n) \/ Driven!StreamDrop(n)
    BY DEF R!StreamRecv, R!StreamEnd, R!StreamDrop, Driven!StreamRecv, Driven!StreamEnd, Driven!StreamDrop,
       R!buffered, Driven!buffered, R!Open, Driven!Open
  <2>2. QED  BY <1>1, <2>1 DEF Driven!Next, Driven!StreamStep
<1>2. CASE n \notin DOMAIN channels
  <2>1. channels = [m \in DOMAIN channels |-> channels[m]]
    OBVIOUS
  <2>2. channels' = channels /\ UNCHANGED <<requests, shutting_down, call, scheduled>>
    BY <1>2, <2>1 DEF R!StreamRecv, R!StreamEnd, R!StreamDrop
  <2>3. QED  BY <2>2 DEF Driven!vars
<1>3. QED  BY <1>1, <1>2

(***************************************************************************)
(* What a step does to the router                                          *)
(***************************************************************************)
LEMMA DriverTypes ==
    ASSUME Types
    PROVE  /\ driver.pc \in DriverPlaces => driver \in Generation
           /\ driver \in Generation => driver.id \in Ids /\ driver.pc \in DriverPlaces
           /\ driver.pc \in {"loop", "exited", "cancelling"} \cup DriverPlaces
           /\ driver.pc \notin DriverPlaces => driver \in {Resting, [pc |-> "exited"], [pc |-> "cancelling"]}
<1>1. Resting.pc = "loop" /\ [pc |-> "exited"].pc = "exited" /\ [pc |-> "cancelling"].pc = "cancelling"
  BY DEF Resting
<1>2. \A d \in Generation : d.pc \in DriverPlaces /\ d.id \in Ids
  BY DEF Generation
<1>3. {"loop", "exited", "cancelling"} \cap DriverPlaces = {}
  BY ServingAssumption DEF ServingAssumption, DriverPlaces
<1>4. driver \in {Resting, [pc |-> "exited"], [pc |-> "cancelling"]} \cup Generation
  BY DEF Types
<1>5. QED  BY <1>1, <1>2, <1>3, <1>4

\* The entry of a call that is not a push.
EntersRouter(t) == \E c \in R!Calls : R!EnsureOpen(t, c) /\ c.op # "push"

\* Handlers enter the router to accept, to subscribe and to cancel.
LEMMA HandlersEnter ==
    ASSUME NEW id \in Ids, AcceptBegin(id) \/ SubscribeBegin(id) \/ ClientCancelBegin(id)
    PROVE  EntersRouter("loop")
<1>1. /\ [op |-> "accept", id |-> id] \in R!Calls /\ [op |-> "subscribe", id |-> id] \in R!Calls
      /\ [op |-> "cancel", id |-> id] \in R!Calls
  BY DEF R!Calls
<1>2. QED  BY <1>1 DEF AcceptBegin, SubscribeBegin, ClientCancelBegin, EntersRouter

\* The driver enters the router to cancel, unless the router is shutting down.
LEMMA DriverEnters ==
    ASSUME Types, DriverCancel
    PROVE  EntersRouter("driver") \/ UNCHANGED routerVars
<1>1. driver.id \in Ids
  BY DriverTypes DEF DriverCancel, DriverPlaces
<1>2. [op |-> "cancel", id |-> driver.id] \in R!Calls
  BY <1>1 DEF R!Calls
<1>3. QED  BY <1>2 DEF DriverCancel, EntersRouter

\* What a step of the server is to the router.
LEMMA RouterSteps ==
    ASSUME Types, [Next]_vars
    PROVE  \/ UNCHANGED routerVars
           \/ R!Shutdown
           \/ \E t \in Threads : R!CallStep(t) \/ EntersRouter(t)
           \/ \E k \in Tasks : TaskStart(k)
           \/ \E n : R!StreamRecv(n) \/ R!StreamEnd(n) \/ R!StreamDrop(n)
<1>1. ASSUME NEW id \in Ids, Stage(id) \/ Handle(id) \/ Disconnect(id) \/ ClientCancelBegin(id)
      PROVE  \/ UNCHANGED routerVars
             \/ R!CallStep("loop") \/ EntersRouter("loop")
             \/ \E n : R!StreamRecv(n) \/ R!StreamEnd(n) \/ R!StreamDrop(n)
  <2>1. CASE Stage(id) \/ AcceptRejected(id) \/ AcceptRaises(id)
    BY <2>1 DEF Stage, AcceptRejected, AcceptRaises
  <2>2. CASE AcceptBegin(id) \/ SubscribeBegin(id) \/ ClientCancelBegin(id)
    BY <2>2, HandlersEnter
  <2>3. CASE AcceptSubmit(id) \/ AcceptRefused(id) \/ Subscribe(id) \/ SubscribeFails(id)
    BY <2>3 DEF AcceptSubmit, AcceptRefused, Subscribe, SubscribeFails, R!CallStep, R!AcceptStep
  <2>4. CASE BodyFrame(id) \/ BodyEnd(id) \/ Disconnect(id)
    BY <2>4 DEF BodyFrame, BodyEnd, Disconnect
  <2>5. QED  BY <1>1, <2>1, <2>2, <2>3, <2>4 DEF Handle
<1>2. ASSUME AcceptInsert \/ Cancel("loop") \/ Cancel("driver")
      PROVE  R!CallStep("loop") \/ R!CallStep("driver")
  BY <1>2 DEF AcceptInsert, Cancel, CancelLocked, CancelAdapter, R!CallStep, R!AcceptStep
<1>3. ASSUME DriverStep
      PROVE  UNCHANGED routerVars \/ EntersRouter("driver")
  <2>1. CASE DriverCancel
    BY <2>1, DriverEnters
  <2>2. CASE DriverTake \/ DriverExit \/ EngineYield \/ EngineRaises \/ EngineDone \/ DriverPush
             \/ DriverCancelled \/ \E k \in Tasks : PushReturned(k)
    BY <2>2 DEF DriverTake, DriverExit, EngineYield, EngineRaises, EngineDone, DriverPush, DriverCancelled,
       PushReturned
  <2>3. QED  BY <1>3, <2>1, <2>2 DEF DriverStep
<1>4. ASSUME NEW k \in Tasks, TaskStep(k) \/ TaskReaped(k) \/ PushTimeout(k)
      PROVE  UNCHANGED routerVars \/ R!CallStep(k)
  BY <1>4 DEF TaskStep, TaskReaped, PushTimeout, R!CallStep, R!PushStep
<1>5. ASSUME LifespanStop \/ LifespanOver
      PROVE  UNCHANGED routerVars \/ R!Shutdown
  BY <1>5 DEF LifespanStop, LifespanOver
<1>6. CASE UNCHANGED vars
  BY <1>6 DEF vars
<1>7. QED  BY <1>1, <1>2, <1>3, <1>4, <1>5, <1>6, ThreadsAreApart DEF Next

\* Every call that moves is one thread's, and only accept schedules.
LEMMA CallMoves ==
    ASSUME Types, [Next]_vars
    PROVE  DOMAIN call' = Threads /\ call' = [t \in Threads |-> call'[t]]
<1>1. ASSUME NEW t \in Threads, NEW c, call' = [call EXCEPT ![t] = c]
      PROVE  DOMAIN call' = Threads /\ call' = [u \in Threads |-> call'[u]]
  BY <1>1 DEF Types
<1>2. ASSUME NEW t \in Threads, R!CallStep(t) \/ EntersRouter(t)
      PROVE  \E c : call' = [call EXCEPT ![t] = c]
  BY <1>2 DEF R!CallStep, R!AcceptStep, R!AcceptDuplicate, R!AcceptInsert, R!AcceptSubmitted,
     R!AcceptRollback, R!PushStep, R!PushRefused, R!PushValidate, R!PushBackpressure, R!PushClosed,
     R!PushSend, R!PushFinish, R!SubscribeTake, R!SubscribeUnknown, R!CancelReject, R!CancelMark,
     R!CancelNotified, R!Return, EntersRouter, R!EnsureOpen
<1>3. ASSUME NEW k \in Tasks, TaskStart(k)
      PROVE  (\E c : call' = [call EXCEPT ![k] = c]) \/ UNCHANGED call
  BY <1>3 DEF TaskStart, R!EnsureOpen, routerVars
<1>4. CASE UNCHANGED call
  BY <1>4 DEF Types
<1>5. QED
  BY <1>1, <1>2, <1>3, <1>4, RouterSteps, ThreadsAreApart
  DEF routerVars, R!Shutdown, R!StreamRecv, R!StreamEnd, R!StreamDrop

\* A list of n entries is a sequence of its entries.
LEMMA ListsAreSequences ==
    ASSUME NEW n \in Nat, NEW f, f = [i \in 1 .. n |-> f[i]]
    PROVE  f \in Seq({f[i] : i \in DOMAIN f})
<1>1. DOMAIN f = 1 .. n
  OBVIOUS
<1>2. f \in [1 .. n -> {f[i] : i \in DOMAIN f}]
  BY <1>1
<1>3. QED  BY <1>2, SeqDef

\* The channels stay a sequence.
LEMMA ChannelsMove ==
    ASSUME Types, [Next]_vars
    PROVE  channels' \in Seq({channels'[n] : n \in DOMAIN channels'})
<1> DEFINE Made == {channels[n] : n \in DOMAIN channels}
<1>1. /\ channels \in Seq(Made) /\ Len(channels) \in Nat /\ DOMAIN channels = 1 .. Len(channels)
      /\ channels = [i \in 1 .. Len(channels) |-> channels[i]]
  BY LenProperties DEF Types
<1>2. ASSUME NEW n, NEW c, channels' = [channels EXCEPT ![n] = c]
      PROVE  channels' \in Seq({channels'[m] : m \in DOMAIN channels'})
  <2>1. channels' = [i \in 1 .. Len(channels) |-> channels'[i]]
    BY <1>1, <1>2
  <2>2. QED  BY <1>1, <2>1, ListsAreSequences
<1>3. ASSUME NEW c, channels' = Append(channels, c)
      PROVE  channels' \in Seq({channels'[m] : m \in DOMAIN channels'})
  <2>1. channels \in Seq(Made \cup {c})
    BY <1>1, SeqDef
  <2>2. channels' \in Seq(Made \cup {c})
    BY <1>3, <2>1, AppendProperties
  <2>3. Len(channels') \in Nat /\ channels' = [i \in 1 .. Len(channels') |-> channels'[i]]
    BY <2>2, LenProperties
  <2>4. QED  BY <2>3, ListsAreSequences
<1>4. ASSUME NEW t \in Threads, R!CallStep(t) \/ EntersRouter(t)
      PROVE  \/ UNCHANGED channels
             \/ \E c : channels' = Append(channels, c)
             \/ \E n, c : channels' = [channels EXCEPT ![n] = c]
  BY <1>4 DEF R!CallStep, R!AcceptStep, R!AcceptDuplicate, R!AcceptInsert, R!AcceptSubmitted,
     R!AcceptRollback, R!PushStep, R!PushRefused, R!PushValidate, R!PushBackpressure, R!PushClosed,
     R!PushSend, R!PushFinish, R!SubscribeTake, R!SubscribeUnknown, R!CancelReject, R!CancelMark,
     R!CancelNotified, EntersRouter, R!EnsureOpen
<1>5. ASSUME NEW n, R!StreamRecv(n) \/ R!StreamEnd(n) \/ R!StreamDrop(n)
      PROVE  \E c : channels' = [channels EXCEPT ![n] = c]
  BY <1>5 DEF R!StreamRecv, R!StreamEnd, R!StreamDrop
<1>6. ASSUME NEW k \in Tasks, TaskStart(k)
      PROVE  UNCHANGED channels
  BY <1>6 DEF TaskStart, R!EnsureOpen, routerVars
<1>7. CASE UNCHANGED channels
  BY <1>7 DEF Types
<1>8. QED
  BY <1>2, <1>3, <1>4, <1>5, <1>6, <1>7, RouterSteps DEF routerVars, R!Shutdown

\* Every id has its entry, or NoEntry.
LEMMA RequestsMove ==
    ASSUME Types, [Next]_vars
    PROVE  requests' = [id \in Ids |-> requests'[id]]
<1>1. ASSUME NEW t \in Threads, R!PushValidate(t) \/ R!PushFinish(t) \/ R!CancelMark(t)
      PROVE  requests' = [id \in Ids |-> requests'[id]]
  BY <1>1 DEF Types, R!PushValidate, R!PushFinish, R!CancelMark
<1>2. ASSUME NEW t \in Threads, R!AcceptInsert(t) \/ R!AcceptRollback(t)
      PROVE  requests' = [id \in Ids |-> requests'[id]]
  BY <1>2 DEF Types, R!AcceptInsert, R!AcceptRollback
<1>3. ASSUME NEW t \in Threads, R!CallStep(t) \/ EntersRouter(t)
      PROVE  requests' = [id \in Ids |-> requests'[id]]
  <2>1. UNCHANGED requests \/ R!PushValidate(t) \/ R!PushFinish(t) \/ R!CancelMark(t) \/ R!AcceptInsert(t)
           \/ R!AcceptRollback(t)
    BY <1>3 DEF R!CallStep, R!AcceptStep, R!AcceptDuplicate, R!AcceptSubmitted, R!PushStep, R!PushRefused,
       R!PushBackpressure, R!PushClosed, R!PushSend, R!SubscribeTake, R!SubscribeUnknown, R!CancelReject,
       R!CancelNotified, EntersRouter, R!EnsureOpen
  <2>2. QED  BY <1>1, <1>2, <2>1 DEF Types
<1>4. CASE UNCHANGED requests
  BY <1>4 DEF Types
<1>5. QED
  BY <1>3, <1>4, RouterSteps
  DEF routerVars, R!Shutdown, R!StreamRecv, R!StreamEnd, R!StreamDrop, TaskStart, R!EnsureOpen

\* Only the accept of a request schedules it.
LEMMA Scheduling ==
    ASSUME Types, [Next]_vars, ~ \E id \in Ids : AcceptSubmit(id)
    PROVE  scheduled' = scheduled
<1>1. ASSUME NEW id \in Ids, Stage(id) \/ Handle(id) \/ Disconnect(id) \/ ClientCancelBegin(id)
      PROVE  scheduled' = scheduled
  BY <1>1 DEF Handle, Stage, AcceptRejected, AcceptRaises, AcceptBegin, AcceptRefused, SubscribeBegin, Subscribe, SubscribeFails, BodyFrame,
     BodyEnd, Disconnect, ClientCancelBegin, R!EnsureOpen, R!AcceptRollback, R!SubscribeTake,
     R!SubscribeUnknown, R!StreamRecv, R!StreamEnd, R!StreamDrop, routerVars
<1>2. ASSUME AcceptInsert \/ Cancel("loop") \/ Cancel("driver")
      PROVE  scheduled' = scheduled
  BY <1>2 DEF AcceptInsert, Cancel, CancelLocked, CancelAdapter, R!AcceptInsert, R!CancelReject, R!CancelMark,
     R!CancelNotified
<1>3. ASSUME DriverStep
      PROVE  scheduled' = scheduled
  BY <1>3 DEF DriverStep, DriverTake, DriverExit, EngineYield, EngineRaises, EngineDone, DriverPush,
     DriverCancelled, PushReturned, DriverCancel, R!EnsureOpen, routerVars
<1>4. ASSUME NEW k \in Tasks, TaskStart(k) \/ TaskStep(k) \/ TaskReaped(k) \/ PushTimeout(k)
      PROVE  scheduled' = scheduled
  BY <1>4 DEF TaskStart, TaskStep, TaskReaped, PushTimeout, R!EnsureOpen, R!PushRefused, R!PushValidate,
     R!PushBackpressure, R!PushClosed, R!PushSend, R!PushFinish, routerVars
<1>5. ASSUME LifespanStop \/ LifespanOver \/ UNCHANGED vars
      PROVE  scheduled' = scheduled
  BY <1>5 DEF LifespanStop, LifespanOver, R!Shutdown, vars, routerVars
<1>6. QED  BY <1>1, <1>2, <1>3, <1>4, <1>5 DEF Next

(***************************************************************************)
(* Types                                                                   *)
(***************************************************************************)
LEMMA PushTypes ==
    ASSUME Types, NEW k \in Tasks
    PROVE  /\ task[k] = Free \/ task[k] \in Push
           /\ task[k] # Free => task[k].id \in Ids /\ task[k].frame \in R!Frame
           /\ task[k] = Free <=> task[k].st = "free"
           /\ task[k].st \in {"free", "queued", "running", "ok", "error"}
<1>1. task[k] \in {Free} \cup Push
  BY DEF Types
<1>2. \A q \in Push : q.st \in {"queued", "running", "ok", "error"} /\ q.id \in Ids /\ q.frame \in R!Frame
  BY DEF Push
<1>3. Free.st = "free"
  BY DEF Free
<1>4. QED  BY <1>1, <1>2, <1>3

\* A handler is always at a place of the code.
LEMMA HandlerMoves ==
    ASSUME Types, [Next]_vars
    PROVE  handler' \in [Ids -> {"new", "staged", "accepted", "refused", "raised",
                                 "streaming", "failed", "done", "gone"}]
<1>1. ASSUME NEW id \in Ids, Stage(id) \/ Handle(id) \/ Disconnect(id) \/ ClientCancelBegin(id)
      PROVE  \/ handler' = handler
             \/ \E h \in {"staged", "accepted", "refused", "raised", "streaming", "failed", "done", "gone"} :
                   handler' = [handler EXCEPT ![id] = h]
  BY <1>1 DEF Handle, Stage, AcceptRejected, AcceptRaises, AcceptBegin, AcceptSubmit, AcceptRefused, SubscribeBegin, Subscribe,
     SubscribeFails, BodyFrame, BodyEnd, Disconnect, ClientCancelBegin
<1>2. ASSUME ~ \E id \in Ids : Stage(id) \/ Handle(id) \/ Disconnect(id) \/ ClientCancelBegin(id)
      PROVE  handler' = handler
  BY <1>2 DEF Next, AcceptInsert, Cancel, CancelLocked, CancelAdapter, DriverStep, DriverTake, DriverExit,
     EngineYield, EngineRaises, EngineDone, DriverPush, DriverCancelled, PushReturned, DriverCancel,
     TaskStart, TaskStep, TaskReaped, PushTimeout, LifespanStop, LifespanOver, vars
<1>3. QED  BY <1>1, <1>2 DEF Types

\* Only ids are staged and scheduled.
LEMMA PayloadsMove ==
    ASSUME Types, [Next]_vars
    PROVE  payloads' \subseteq Ids /\ scheduled' \subseteq Ids
<1>1. payloads' \subseteq payloads \/ \E id \in Ids : payloads' = payloads \cup {id}
  BY DEF Next, Handle, Stage, AcceptRejected, AcceptRaises, AcceptBegin, AcceptSubmit, AcceptRefused, SubscribeBegin, Subscribe,
     SubscribeFails, BodyFrame, BodyEnd, Disconnect, ClientCancelBegin, AcceptInsert, Cancel, CancelLocked,
     CancelAdapter, DriverStep, DriverTake, DriverExit, EngineYield, EngineRaises, EngineDone, DriverPush,
     DriverCancelled, PushReturned, DriverCancel, TaskStart, TaskStep, TaskReaped, PushTimeout,
     LifespanStop, LifespanOver, vars
<1>2. ASSUME NEW id \in Ids, AcceptSubmit(id)
      PROVE  scheduled' = scheduled \cup {id}
  BY <1>2 DEF AcceptSubmit, R!AcceptSubmitted
<1>3. QED  BY <1>1, <1>2, Scheduling DEF Types

\* The frames the driver makes are frames.
LEMMA LinesAreFrames ==
    ASSUME Types, driver \in Generation
    PROVE  /\ driver.pc = "check" /\ driver.n > 0 => FrameLine \in R!Frame
           /\ MarkerLine \in R!Frame
           /\ FrameLine.index # driver.n /\ MarkerLine.index = driver.n
<1>1. driver.n \in 0 .. MaxFrames /\ MaxFrames \in Nat
  BY ServingAssumption DEF Generation, ServingAssumption
<1>2. PICK final \in BOOLEAN : final = driver.final
  BY DEF Generation
<1>3. FrameLine = [index |-> driver.n - 1, final |-> final]
  BY <1>2 DEF FrameLine
<1>4. ASSUME driver.n > 0
      PROVE  FrameLine \in R!Frame
  BY <1>1, <1>3, <1>4 DEF R!Frame
<1>5. MarkerLine \in R!Frame /\ MarkerLine.index = driver.n
  BY <1>1 DEF MarkerLine, R!Frame
<1>6. FrameLine.index # driver.n
  BY <1>1, <1>3
<1>7. QED  BY <1>4, <1>5, <1>6

\* A coroutine is free or pushes a frame of a request.
LEMMA TaskMoves ==
    ASSUME Types, CallsInOrder, OnePush, [Next]_vars
    PROVE  task' \in [Tasks -> {Free} \cup Push]
<1>1. ASSUME NEW k \in Tasks, NEW line \in R!Frame, Enqueue(k, line), driver \in Generation
      PROVE  task' \in [Tasks -> {Free} \cup Push]
  <2>1. [st |-> "queued", id |-> driver.id, frame |-> line] \in Push
    BY <1>1, DriverTypes DEF Push
  <2>2. QED  BY <1>1, <2>1 DEF Enqueue, Types
<1>2. CASE DriverPush
  <2>1. driver \in Generation /\ driver.pc = "check" /\ driver.n > 0
    BY <1>2, DriverTypes DEF DriverPush, DriverPlaces, OnePush
  <2>2. FrameLine \in R!Frame
    BY <2>1, LinesAreFrames
  <2>3. task' = task \/ \E k \in Tasks : Enqueue(k, FrameLine)
    BY <1>2 DEF DriverPush
  <2>4. QED  BY <1>1, <2>1, <2>2, <2>3 DEF Types
<1>3. CASE EngineDone
  <2>1. driver \in Generation
    BY <1>3, DriverTypes DEF EngineDone, DriverPlaces
  <2>2. MarkerLine \in R!Frame
    BY <2>1, LinesAreFrames
  <2>3. task' = task \/ \E k \in Tasks : Enqueue(k, MarkerLine)
    BY <1>3 DEF EngineDone
  <2>4. QED  BY <1>1, <2>1, <2>2, <2>3 DEF Types
<1>4. ASSUME NEW k \in Tasks, PushReturned(k) \/ TaskReaped(k)
      PROVE  task' \in [Tasks -> {Free} \cup Push]
  BY <1>4 DEF PushReturned, TaskReaped, Types
<1>5. ASSUME NEW k \in Tasks, TaskStart(k) \/ TaskStep(k)
      PROVE  task' \in [Tasks -> {Free} \cup Push]
  <2>1. task' = task \/ \E st \in {"running", "ok", "error"} : task' = [task EXCEPT ![k].st = st]
    BY <1>5 DEF TaskStart, TaskStep
  <2>2. ASSUME task' # task
        PROVE  task[k] \in Push
    <3>1. CASE TaskStart(k)
      BY <3>1, PushTypes DEF TaskStart
    <3>2. CASE TaskStep(k)
      <4>1. call[k] # R!Idle
        BY <3>2 DEF TaskStep, R!PushValidate, R!PushSend, R!PushFinish, R!PushRefused, R!PushBackpressure,
           R!PushClosed, R!Idle
      <4>2. task[k].st = "running"
        BY <4>1 DEF CallsInOrder, Runs
      <4>3. QED  BY <4>2, PushTypes
    <3>3. QED  BY <1>5, <3>1, <3>2
  <2>3. ASSUME NEW st \in {"running", "ok", "error"}, task[k] \in Push
        PROVE  [task[k] EXCEPT !.st = st] \in Push
    BY <2>3 DEF Push
  <2>4. QED  BY <2>1, <2>2, <2>3 DEF Types
<1>6. ASSUME ~ DriverPush, ~ EngineDone, ~ \E k \in Tasks : PushReturned(k) \/ TaskReaped(k) \/ TaskStart(k) \/ TaskStep(k)
      PROVE  task' = task
  BY <1>6 DEF Next, Handle, Stage, AcceptRejected, AcceptRaises, AcceptBegin, AcceptSubmit, AcceptRefused, SubscribeBegin, Subscribe,
     SubscribeFails, BodyFrame, BodyEnd, Disconnect, ClientCancelBegin, AcceptInsert, Cancel, CancelLocked,
     CancelAdapter, DriverStep, DriverTake, DriverExit, EngineYield, EngineRaises, DriverCancelled,
     DriverCancel, PushTimeout, LifespanStop, LifespanOver, vars
<1>7. QED  BY <1>2, <1>3, <1>4, <1>5, <1>6 DEF Types

\* A step that is not the driver's, nor gives up a push, leaves it where it is.
LEMMA DriverStays ==
    ASSUME [Next]_vars, ~ DriverStep, ~ \E k \in Tasks : PushTimeout(k)
    PROVE  driver' = driver
BY DEF Next, Handle, Stage, AcceptRejected, AcceptRaises, AcceptBegin, AcceptSubmit, AcceptRefused, SubscribeBegin, Subscribe,
   SubscribeFails, BodyFrame, BodyEnd, Disconnect, ClientCancelBegin, AcceptInsert, Cancel, CancelLocked,
   CancelAdapter, TaskStart, TaskStep, TaskReaped, LifespanStop, LifespanOver, vars

\* What the driver does when it moves.
LEMMA DriverSteps ==
    ASSUME Types, QueuedOnce, [Next]_vars
    PROVE  \/ driver' = driver
           \/ driver' \in {Resting, [pc |-> "exited"], [pc |-> "cancelling"]}
           \/ \E r \in pending, total \in 1 .. MaxFrames :
                 driver' = Generating("engine", r.id, 0, FALSE, total)
           \/ /\ driver \in Generation
              /\ \E pc \in DriverPlaces : driver' = [driver EXCEPT !.pc = pc]
           \/ /\ driver \in Generation
              /\ \E pc \in {"check", "cancel"}, n \in 1 .. MaxFrames, final \in BOOLEAN :
                    driver' = [driver EXCEPT !.n = n, !.final = final, !.pc = pc]
<1>1. CASE DriverTake
  BY <1>1 DEF DriverTake
<1>2. CASE DriverExit \/ DriverCancel \/ DriverCancelled
  BY <1>2 DEF DriverExit, DriverCancel, DriverCancelled
<1>3. CASE EngineYield
  <2>1. driver \in Generation
    BY <1>3, DriverTypes DEF EngineYield, DriverPlaces
  <2>2. PICK n \in 1 .. MaxFrames : n = driver.n + 1
    BY <1>3, <2>1, ServingAssumption DEF EngineYield, Generation, ServingAssumption
  <2>3. PICK pc \in {"check", "cancel"} : pc = IF stop THEN "cancel" ELSE "check"
    OBVIOUS
  <2>4. \E final \in BOOLEAN : driver' = [driver EXCEPT !.n = n, !.final = final, !.pc = pc]
    BY <1>3, <2>2, <2>3 DEF EngineYield
  <2>5. QED  BY <2>1, <2>4
<1>4. CASE EngineRaises \/ DriverPush \/ EngineDone
  <2>1. driver \in Generation
    BY <1>4, DriverTypes DEF EngineRaises, DriverPush, EngineDone, DriverPlaces
  <2>2. driver' = Resting \/ \E pc \in DriverPlaces : driver' = [driver EXCEPT !.pc = pc]
    BY <1>4 DEF EngineRaises, DriverPush, EngineDone, DriverPlaces
  <2>3. QED  BY <2>1, <2>2
<1>5. ASSUME NEW k \in Tasks, PushReturned(k) \/ PushTimeout(k)
      PROVE  driver \in Generation
             /\ (driver' = Resting \/ \E pc \in DriverPlaces : driver' = [driver EXCEPT !.pc = pc])
  <2>1. driver.pc \in DriverPlaces
    BY <1>5 DEF PushReturned, PushTimeout, DriverPlaces
  <2>2. driver' = Resting \/ \E pc \in DriverPlaces : driver' = [driver EXCEPT !.pc = pc]
    BY <1>5 DEF PushReturned, PushTimeout, DriverPlaces
  <2>3. QED  BY <2>1, <2>2, DriverTypes
<1>6. CASE driver' = driver
  BY <1>6
<1>7. QED  BY <1>1, <1>2, <1>3, <1>4, <1>5, <1>6, DriverStays DEF DriverStep

\* The driver rests, has exited, cancels or generates.
LEMMA DriverMoves ==
    ASSUME Types, QueuedOnce, [Next]_vars
    PROVE  driver' \in {Resting, [pc |-> "exited"], [pc |-> "cancelling"]} \cup Generation
<1>1. ASSUME NEW r \in pending, NEW total \in 1 .. MaxFrames
      PROVE  Generating("engine", r.id, 0, FALSE, total) \in Generation
  BY ServingAssumption DEF Generating, Generation, DriverPlaces, QueuedOnce, Types, ServingAssumption
<1>2. ASSUME driver \in Generation, NEW pc \in DriverPlaces, driver' = [driver EXCEPT !.pc = pc]
      PROVE  driver' \in Generation
  BY <1>2 DEF Generation
<1>3. ASSUME driver \in Generation, NEW pc \in {"check", "cancel"}, NEW n \in 1 .. MaxFrames,
             NEW final \in BOOLEAN, driver' = [driver EXCEPT !.n = n, !.final = final, !.pc = pc]
      PROVE  driver' \in Generation
  <2>1. PICK m \in 0 .. MaxFrames : m = n
    BY ServingAssumption DEF ServingAssumption
  <2>2. pc \in DriverPlaces
    BY DEF DriverPlaces
  <2>3. QED  BY <1>3, <2>1, <2>2 DEF Generation
<1>4. driver \in {Resting, [pc |-> "exited"], [pc |-> "cancelling"]} \cup Generation
  BY DEF Types
<1>5. QED  BY <1>1, <1>2, <1>3, <1>4, DriverSteps

\* Every step keeps the types.
LEMMA TypesNext ==
    ASSUME Types, CallsInOrder, QueuedOnce, OnePush, [Next]_vars
    PROVE  Types'
<1>1. /\ DOMAIN call' = Threads /\ call' = [t \in Threads |-> call'[t]]
      /\ channels' \in Seq({channels'[n] : n \in DOMAIN channels'})
      /\ payloads' \subseteq Ids /\ scheduled' \subseteq Ids
      /\ requests' = [id \in Ids |-> requests'[id]]
      /\ task' \in [Tasks -> {Free} \cup Push]
  BY CallMoves, ChannelsMove, PayloadsMove, RequestsMove, TaskMoves
<1>2. driver' \in {Resting, [pc |-> "exited"], [pc |-> "cancelling"]} \cup Generation
  BY DriverMoves
<1>3. QED  BY <1>1, <1>2, HandlerMoves DEF Types

(***************************************************************************)
(* Calls in order                                                          *)
(***************************************************************************)
LEMMA OneCall ==
    ASSUME Types, NEW t \in Threads, NEW c, call' = [call EXCEPT ![t] = c]
    PROVE  call'[t] = c /\ \A u \in Threads : u # t => call'[u] = call[u]
BY DEF Types

\* An idle thread's call is of a kind of its own.
LEMMA IdleIsIdle == R!Idle.op = "idle"
BY DEF R!Idle

\* A handler's step moves the loop's call only, and as the handler's place asks.
LEMMA LoopCallByHandler ==
    ASSUME Types, LoopCall, NEW id \in Ids, Stage(id) \/ Handle(id) \/ Disconnect(id) \/ ClientCancelBegin(id)
    PROVE  LoopCall' /\ \A t \in Threads : t # "loop" => call'[t] = call[t]
<1>1. CASE \/ Stage(id) \/ AcceptRejected(id) \/ AcceptRaises(id)
           \/ BodyFrame(id) \/ BodyEnd(id) \/ Disconnect(id)
  <2>1. call["loop"] = R!Idle /\ call' = call
    BY <1>1 DEF Stage, AcceptRejected, AcceptRaises, BodyFrame, BodyEnd, Disconnect, loopFree, routerVars, R!StreamRecv, R!StreamEnd,
       R!StreamDrop
  <2>2. QED  BY <2>1, IdleIsIdle DEF LoopCall
<1>2. CASE AcceptBegin(id)
  <2>1. /\ call' = [call EXCEPT !["loop"] = [op |-> "accept", id |-> id]]
        /\ handler' = handler /\ handler[id] = "staged"
    BY <1>2 DEF AcceptBegin, R!EnsureOpen
  <2>2. QED  BY <2>1, OneCall, ThreadsAreApart DEF LoopCall
<1>3. CASE SubscribeBegin(id)
  <2>1. /\ call' = [call EXCEPT !["loop"] = [op |-> "subscribe", id |-> id]]
        /\ handler' = handler /\ handler[id] = "accepted"
    BY <1>3 DEF SubscribeBegin, R!EnsureOpen
  <2>2. QED  BY <2>1, OneCall, ThreadsAreApart DEF LoopCall
<1>4. CASE ClientCancelBegin(id)
  <2>1. call' = [call EXCEPT !["loop"] = [op |-> "cancel", id |-> id]] /\ handler' = handler
    BY <1>4 DEF ClientCancelBegin, R!EnsureOpen
  <2>2. QED  BY <2>1, OneCall, ThreadsAreApart DEF LoopCall
<1>5. CASE AcceptSubmit(id) \/ AcceptRefused(id) \/ Subscribe(id) \/ SubscribeFails(id)
  <2>1. call' = [call EXCEPT !["loop"] = R!Idle]
    BY <1>5 DEF AcceptSubmit, AcceptRefused, Subscribe, SubscribeFails, R!AcceptSubmitted, R!AcceptRollback,
       R!SubscribeTake, R!SubscribeUnknown, R!Return
  <2>2. QED  BY <2>1, OneCall, ThreadsAreApart, IdleIsIdle DEF LoopCall
<1>6. QED  BY <1>1, <1>2, <1>3, <1>4, <1>5 DEF Handle

\* So does the rest of an accept or of a cancel; the driver's cancel moves the
\* driver's call only.
LEMMA CallByRouter ==
    ASSUME Types, LoopCall, DriverCall, AcceptInsert \/ Cancel("loop") \/ Cancel("driver") \/ DriverCancel
    PROVE  /\ LoopCall' /\ DriverCall' /\ UNCHANGED <<handler, task>>
           /\ \A k \in Tasks : call'[k] = call[k]
<1>1. handler' = handler /\ task' = task
  BY DEF AcceptInsert, Cancel, CancelLocked, CancelAdapter, DriverCancel
<1>2. CASE AcceptInsert
  <2>1. /\ call["loop"].op = "accept"
        /\ call' = [call EXCEPT !["loop"] = [op |-> "submit", id |-> call["loop"].id]]
    BY <1>2 DEF AcceptInsert, R!AcceptInsert
  <2>2. QED  BY <1>1, <2>1, OneCall, ThreadsAreApart DEF LoopCall, DriverCall
<1>3. ASSUME NEW t \in {"loop", "driver"}, Cancel(t)
      PROVE  \E c : call' = [call EXCEPT ![t] = c] /\ (c = R!Idle \/ c.op = "unschedule")
  <2>1. CASE R!CancelMark(t)
    <3>1. PICK c : c = [op |-> "unschedule", id |-> call[t].id]
      OBVIOUS
    <3>2. call' = [call EXCEPT ![t] = c] /\ c.op = "unschedule"
      BY <2>1, <3>1 DEF R!CancelMark
    <3>3. QED  BY <3>2
  <2>2. CASE ~ R!CancelMark(t)
    BY <1>3, <2>2 DEF Cancel, CancelLocked, CancelAdapter, R!CancelReject, R!CancelNotified, R!Return
  <2>3. QED  BY <2>1, <2>2
<1>4. CASE DriverCancel
  <2>1. PICK c : c = [op |-> "cancel", id |-> driver.id]
    OBVIOUS
  <2>2. c.op = "cancel" /\ (call' = call \/ call' = [call EXCEPT !["driver"] = c])
    BY <1>4, <2>1 DEF DriverCancel, R!EnsureOpen, routerVars
  <2>3. QED  BY <1>1, <2>2, OneCall, ThreadsAreApart DEF LoopCall, DriverCall
<1>5. CASE Cancel("loop")
  BY <1>1, <1>3, <1>5, OneCall, ThreadsAreApart, IdleIsIdle DEF LoopCall, DriverCall
<1>6. CASE Cancel("driver")
  BY <1>1, <1>3, <1>6, OneCall, ThreadsAreApart, IdleIsIdle DEF LoopCall, DriverCall
<1>7. QED  BY <1>2, <1>4, <1>5, <1>6

\* One coroutine's call and its task change together; the others stay.
LEMMA OneTask ==
    ASSUME Types, CallsInOrder, NEW k \in Tasks, NEW c, NEW q,
           call' = [call EXCEPT ![k] = c], task' = [task EXCEPT ![k] = q], handler' = handler,
           Runs(c, q)
    PROVE  CallsInOrder'
<1>1. /\ call'[k] = c /\ task'[k] = q
      /\ \A j \in Tasks : j # k => call'[j] = call[j] /\ task'[j] = task[j]
      /\ call'["loop"] = call["loop"] /\ call'["driver"] = call["driver"]
  BY OneCall, ThreadsAreApart DEF Types
<1>2. LoopCall' /\ DriverCall'
  BY <1>1 DEF CallsInOrder, LoopCall, DriverCall
<1>3. ASSUME NEW j \in Tasks
      PROVE  Runs(call[j], task[j])'
  BY <1>1 DEF CallsInOrder, Runs
<1>4. QED  BY <1>2, <1>3 DEF CallsInOrder

\* A coroutine that has not started or is over has no call.
LEMMA RestingTask ==
    ASSUME Types, CallsInOrder, NEW k \in Tasks, task[k].st # "running", NEW q,
           task' = [task EXCEPT ![k] = q], UNCHANGED <<call, handler>>
    PROVE  CallsInOrder'
<1>1. call[k] = R!Idle
  BY DEF CallsInOrder, Runs
<1>2. call' = [call EXCEPT ![k] = R!Idle]
  BY <1>1 DEF Types
<1>3. Runs(R!Idle, q)
  BY DEF Runs
<1>4. QED  BY <1>2, <1>3, OneTask

\* A coroutine that starts pushes what it was made for,
LEMMA TaskStartKeepsCalls ==
    ASSUME Types, CallsInOrder, NEW k \in Tasks, TaskStart(k)
    PROVE  CallsInOrder'
<1>1. task[k].st = "queued" /\ task[k] \in Push /\ handler' = handler
  BY PushTypes DEF TaskStart
<1>2. CASE shutting_down
  <2>1. /\ task' = [task EXCEPT ![k] = [task[k] EXCEPT !.st = "error"]] /\ call' = call
    BY <1>2 DEF TaskStart, routerVars
  <2>2. QED  BY <1>1, <2>1, RestingTask
<1>3. CASE ~ shutting_down
  <2>1. PICK c : c = [op |-> "push", id |-> task[k].id, frame |-> task[k].frame]
    OBVIOUS
  <2>2. PICK q \in Push : q = [task[k] EXCEPT !.st = "running"]
    BY <1>1 DEF Push
  <2>3. Runs(c, q)
    BY <1>1, <2>1, <2>2 DEF Runs, PushOps, Push
  <2>4. call' = [call EXCEPT ![k] = c] /\ task' = [task EXCEPT ![k] = q]
    BY <1>3, <2>1, <2>2 DEF TaskStart, R!EnsureOpen
  <2>5. QED  BY <1>1, <2>3, <2>4, OneTask
<1>4. QED  BY <1>2, <1>3

\* and goes on with it until its call returns.
LEMMA TaskStepKeepsCalls ==
    ASSUME Types, CallsInOrder, NEW k \in Tasks, TaskStep(k)
    PROVE  CallsInOrder'
<1>1. call[k] # R!Idle /\ handler' = handler
  BY DEF TaskStep, R!PushValidate, R!PushSend, R!PushFinish, R!PushRefused, R!PushBackpressure,
     R!PushClosed, R!Idle
<1>2. task[k].st = "running" /\ call[k].id = task[k].id /\ call[k].frame = task[k].frame /\ task[k] \in Push
  BY <1>1, PushTypes DEF CallsInOrder, Runs
<1>3. task = [task EXCEPT ![k] = task[k]]
  BY DEF Types
<1>4. CASE R!PushValidate(k) /\ UNCHANGED task
  <2>1. PICK c : c = [op |-> "send", id |-> call[k].id, frame |-> call[k].frame, chan |-> requests[call[k].id].chan]
    OBVIOUS
  <2>2. Runs(c, task[k])
    BY <1>2, <2>1 DEF Runs, PushOps
  <2>3. call' = [call EXCEPT ![k] = c]
    BY <1>4, <2>1 DEF R!PushValidate
  <2>4. QED  BY <1>1, <1>2, <1>3, <1>4, <2>2, <2>3, OneTask
<1>5. ASSUME call[k].frame.final, R!PushSend(k), UNCHANGED task
      PROVE  CallsInOrder'
  <2>1. PICK c : c = [call[k] EXCEPT !.op = "finish"]
    OBVIOUS
  <2>2. call' = [call EXCEPT ![k] = c]
    BY <1>5, <2>1 DEF R!PushSend
  <2>3. call[k] = [op |-> "send", id |-> call[k].id, frame |-> call[k].frame, chan |-> call[k].chan]
    BY <1>1, <1>5 DEF CallsInOrder, Runs, R!PushSend
  <2>4. Runs(c, task[k])
    BY <1>2, <2>1, <2>3 DEF Runs, PushOps
  <2>5. QED  BY <1>1, <1>3, <1>5, <2>2, <2>4, OneTask
<1>6. ASSUME call' = [call EXCEPT ![k] = R!Idle], NEW st \in {"ok", "error"}, task' = [task EXCEPT ![k].st = st]
      PROVE  CallsInOrder'
  <2>1. PICK q : q = [task[k] EXCEPT !.st = st]
    OBVIOUS
  <2>2. task' = [task EXCEPT ![k] = q] /\ Runs(R!Idle, q)
    BY <1>6, <2>1 DEF Runs
  <2>3. QED  BY <1>1, <1>6, <2>2, OneTask
<1>7. QED
  BY <1>2, <1>4, <1>5, <1>6
  DEF TaskStep, R!PushSend, R!PushFinish, R!PushRefused, R!PushBackpressure, R!PushClosed, R!Return

\* Every step keeps each call with its handler, the driver or its coroutine.
LEMMA CallsNext ==
    ASSUME Types, CallsInOrder, [Next]_vars
    PROVE  CallsInOrder'
<1>1. ASSUME NEW id \in Ids, Stage(id) \/ Handle(id) \/ Disconnect(id) \/ ClientCancelBegin(id)
      PROVE  CallsInOrder'
  <2>1. task' = task
    BY <1>1 DEF Handle, Stage, AcceptRejected, AcceptRaises, AcceptBegin, AcceptSubmit, AcceptRefused, SubscribeBegin, Subscribe,
       SubscribeFails, BodyFrame, BodyEnd, Disconnect, ClientCancelBegin
  <2>2. LoopCall' /\ \A t \in Threads : t # "loop" => call'[t] = call[t]
    BY <1>1, LoopCallByHandler DEF CallsInOrder
  <2>3. QED  BY <2>1, <2>2, ThreadsAreApart DEF CallsInOrder, DriverCall
<1>2. CASE AcceptInsert \/ Cancel("loop") \/ Cancel("driver") \/ DriverCancel
  BY <1>2, CallByRouter DEF CallsInOrder
<1>3. ASSUME NEW k \in Tasks, TaskStart(k) \/ TaskStep(k)
      PROVE  CallsInOrder'
  BY <1>3, TaskStartKeepsCalls, TaskStepKeepsCalls
<1>4. ASSUME NEW k \in Tasks, PushReturned(k) \/ TaskReaped(k)
      PROVE  CallsInOrder'
  <2>1. task[k].st # "running" /\ task' = [task EXCEPT ![k] = Free] /\ UNCHANGED <<call, handler>>
    BY <1>4 DEF PushReturned, TaskReaped, routerVars
  <2>2. QED  BY <2>1, RestingTask
<1>5. ASSUME NEW k \in Tasks, NEW line, Enqueue(k, line), UNCHANGED <<call, handler>>
      PROVE  CallsInOrder'
  <2>1. task[k].st # "running" /\ \E q : task' = [task EXCEPT ![k] = q]
    BY <1>5, PushTypes DEF Enqueue
  <2>2. QED  BY <1>5, <2>1, RestingTask
<1>6. CASE DriverPush \/ EngineDone
  <2>1. UNCHANGED <<call, handler>> /\ (task' = task \/ \E k \in Tasks : \E line : Enqueue(k, line))
    BY <1>6 DEF DriverPush, EngineDone, routerVars
  <2>2. CASE task' = task
    BY <2>1, <2>2 DEF CallsInOrder, LoopCall, DriverCall, Runs
  <2>3. QED  BY <1>5, <2>1, <2>2
<1>7. CASE UNCHANGED <<call, handler, task>>
  BY <1>7 DEF CallsInOrder, LoopCall, DriverCall, Runs
<1>8. ASSUME \/ DriverTake \/ DriverExit \/ EngineYield \/ EngineRaises \/ DriverCancelled
             \/ \E k \in Tasks : PushTimeout(k)
             \/ LifespanStop \/ LifespanOver \/ UNCHANGED vars
      PROVE  UNCHANGED <<call, handler, task>>
  BY <1>8 DEF DriverTake, DriverExit, EngineYield, EngineRaises, DriverCancelled, PushTimeout, LifespanStop,
     LifespanOver, R!Shutdown, vars, routerVars
<1>9. QED
  BY <1>1, <1>2, <1>3, <1>4, <1>6, <1>7, <1>8 DEF Next, DriverStep

(***************************************************************************)
(* Requests and their payloads                                             *)
(***************************************************************************)
\* A request is scheduled by the handler that staged it, and only once.
LEMMA FirstSubmission ==
    ASSUME CallsInOrder, OnceScheduled, NEW id \in Ids, AcceptSubmit(id)
    PROVE  id \notin scheduled
<1>1. call["loop"].op = "submit" /\ call["loop"].id = id
  BY DEF AcceptSubmit
<1>2. QED  BY <1>1 DEF CallsInOrder, LoopCall, OnceScheduled

\* A handler that has been accepted never stages again.
LEMMA OnceScheduledNext ==
    ASSUME Types, CallsInOrder, OnceScheduled, [Next]_vars
    PROVE  OnceScheduled'
<1>1. ASSUME NEW id \in Ids, AcceptSubmit(id)
      PROVE  OnceScheduled'
  <2>1. scheduled' = scheduled \cup {id} /\ handler' = [handler EXCEPT ![id] = "accepted"]
    BY <1>1 DEF AcceptSubmit, R!AcceptSubmitted
  <2>2. QED  BY <2>1 DEF OnceScheduled, Types
<1>2. ASSUME scheduled' = scheduled, NEW id \in Ids,
             Stage(id) \/ AcceptRejected(id) \/ AcceptRaises(id) \/ AcceptRefused(id)
      PROVE  OnceScheduled'
  <2>1. handler[id] \in {"new", "staged"}
    BY <1>2 DEF Stage, AcceptRejected, AcceptRaises, AcceptRefused, CallsInOrder, LoopCall
  <2>2. \E h : handler' = [handler EXCEPT ![id] = h]
    BY <1>2 DEF Stage, AcceptRejected, AcceptRaises, AcceptRefused
  <2>3. QED  BY <1>2, <2>1, <2>2 DEF OnceScheduled, Types
<1>3. ASSUME scheduled' = scheduled,
             ~ \E id \in Ids : Stage(id) \/ AcceptRejected(id) \/ AcceptRaises(id) \/ AcceptRefused(id)
      PROVE  OnceScheduled'
  <2>1. \/ handler' = handler
        \/ \E id \in Ids, h \in {"accepted", "streaming", "failed", "done", "gone"} :
              handler' = [handler EXCEPT ![id] = h]
    BY <1>3 DEF Next, Handle, AcceptBegin, AcceptSubmit, SubscribeBegin, Subscribe,
       SubscribeFails, BodyFrame, BodyEnd, Disconnect, ClientCancelBegin, AcceptInsert, Cancel, CancelLocked,
       CancelAdapter, DriverStep, DriverTake, DriverExit, EngineYield, EngineRaises, EngineDone, DriverPush,
       DriverCancelled, PushReturned, DriverCancel, TaskStart, TaskStep, TaskReaped, PushTimeout,
       LifespanStop, LifespanOver, vars
  <2>2. QED  BY <1>3, <2>1 DEF OnceScheduled, Types
<1>4. QED  BY <1>1, <1>2, <1>3, Scheduling

\* A payload is taken by the step that moves its handler on.
LEMMA PayloadsNext ==
    ASSUME Types, CallsInOrder, Staged, [Next]_vars
    PROVE  Staged'
<1>1. ASSUME NEW id \in Ids, Stage(id)
      PROVE  Staged'
  <2>1. payloads' = payloads \cup {id} /\ handler' = [handler EXCEPT ![id] = "staged"]
    BY <1>1 DEF Stage
  <2>2. QED  BY <2>1 DEF Staged, Types
<1>2. ASSUME NEW id \in Ids, AcceptSubmit(id) \/ AcceptRefused(id) \/ AcceptRejected(id)
      PROVE  Staged'
  <2>1. payloads' = payloads \ {id} /\ \E h : handler' = [handler EXCEPT ![id] = h]
    BY <1>2 DEF AcceptSubmit, AcceptRefused, AcceptRejected
  <2>2. QED  BY <2>1 DEF Staged, Types
<1>3. ASSUME NEW id \in Ids, Subscribe(id) \/ SubscribeFails(id) \/ BodyEnd(id) \/ Disconnect(id)
      PROVE  Staged'
  <2>1. payloads' = payloads /\ \E h : handler' = [handler EXCEPT ![id] = h]
    BY <1>3 DEF Subscribe, SubscribeFails, BodyEnd, Disconnect
  <2>2. handler[id] \in {"accepted", "streaming"}
    <3>1. CASE Subscribe(id) \/ SubscribeFails(id)
      <4>1. call["loop"].op = "subscribe" /\ call["loop"].id = id
        BY <3>1 DEF Subscribe, SubscribeFails
      <4>2. QED  BY <4>1 DEF CallsInOrder, LoopCall
    <3>2. CASE BodyEnd(id) \/ Disconnect(id)
      BY <3>2 DEF BodyEnd, Disconnect
    <3>3. QED  BY <1>3, <3>1, <3>2
  <2>3. QED  BY <2>1, <2>2 DEF Staged, Types
<1>4. ASSUME NEW id \in Ids, AcceptRaises(id)
      PROVE  Staged'
  <2>1. payloads' = payloads /\ handler' = [handler EXCEPT ![id] = "raised"]
    BY <1>4 DEF AcceptRaises
  <2>2. QED  BY <2>1 DEF Staged, Types
<1>5. ASSUME ~ \E id \in Ids : \/ Stage(id) \/ AcceptSubmit(id) \/ AcceptRefused(id) \/ AcceptRejected(id)
                              \/ AcceptRaises(id) \/ Subscribe(id) \/ SubscribeFails(id)
                              \/ BodyEnd(id) \/ Disconnect(id)
      PROVE  payloads' \subseteq payloads /\ handler' = handler
  BY <1>5 DEF Next, Handle, AcceptBegin, SubscribeBegin, BodyFrame, ClientCancelBegin, AcceptInsert, Cancel,
     CancelLocked, CancelAdapter, DriverStep, DriverTake, DriverExit, EngineYield, EngineRaises, EngineDone,
     DriverPush, DriverCancelled, PushReturned, DriverCancel, TaskStart, TaskStep, TaskReaped, PushTimeout,
     LifespanStop, LifespanOver, vars
<1>6. QED  BY <1>1, <1>2, <1>3, <1>4, <1>5 DEF Staged

\* A step of a call makes no entry, unless it is an accept's.
LEMMA EntriesStay ==
    ASSUME Types, NEW id \in Ids, requests[id] = R!NoEntry, NEW t,
           \/ R!PushStep(t) \/ R!CancelReject(t) \/ R!CancelMark(t) \/ R!CancelNotified(t)
    PROVE  requests'[id] = R!NoEntry
<1>1. requests[id].state = "None"
  BY DEF R!NoEntry
<1>2. CASE R!PushValidate(t) \/ R!CancelMark(t)
  <2>1. requests[call[t].id].state \in {"Scheduled", "Streaming"}
    BY <1>2 DEF R!PushValidate, R!Pushable, R!CancelMark
  <2>2. \E e : requests' = [requests EXCEPT ![call[t].id] = e]
    BY <1>2 DEF R!PushValidate, R!CancelMark
  <2>3. QED  BY <1>1, <2>1, <2>2 DEF Types
<1>3. CASE R!PushFinish(t)
  <2>1. requests' = requests \/ (requests[call[t].id] # R!NoEntry /\ \E e : requests' = [requests EXCEPT ![call[t].id] = e])
    BY <1>3 DEF R!PushFinish
  <2>2. QED  BY <2>1 DEF Types
<1>4. CASE ~ R!PushValidate(t) /\ ~ R!CancelMark(t) /\ ~ R!PushFinish(t)
  <2>1. requests' = requests
    BY <1>4 DEF R!PushStep, R!PushRefused, R!PushBackpressure, R!PushClosed, R!PushSend, R!CancelReject,
       R!CancelNotified
  <2>2. QED  BY <2>1
<1>5. QED  BY <1>2, <1>3, <1>4

\* A request has an entry only once its accept inserted it, and a refused
\* accept takes the entry back.
LEMMA EntriesNext ==
    ASSUME Types, CallsInOrder, EntriesAccepted, [Next]_vars
    PROVE  EntriesAccepted'
<1>1. CASE AcceptInsert
  <2>1. PICK c : c = [op |-> "submit", id |-> call["loop"].id]
    OBVIOUS
  <2>2. /\ call' = [call EXCEPT !["loop"] = c] /\ handler' = handler /\ call["loop"].op = "accept"
        /\ \E e : requests' = [requests EXCEPT ![call["loop"].id] = e]
    BY <1>1, <2>1 DEF AcceptInsert, R!AcceptInsert
  <2>3. call'["loop"] = c /\ c.op = "submit" /\ c.id = call["loop"].id
    BY <2>1, <2>2, OneCall, ThreadsAreApart
  <2>4. QED  BY <2>2, <2>3 DEF EntriesAccepted, Unaccepted, Types
<1>2. ASSUME NEW j \in Ids, AcceptRefused(j) \/ AcceptSubmit(j)
      PROVE  EntriesAccepted'
  <2>1. /\ call["loop"].op = "submit" /\ call["loop"].id = j
        /\ requests' = requests \/ requests' = [requests EXCEPT ![j] = R!NoEntry]
    BY <1>2 DEF AcceptRefused, AcceptSubmit, R!AcceptRollback, R!AcceptSubmitted
  <2>2. /\ AcceptSubmit(j) => handler' = [handler EXCEPT ![j] = "accepted"]
        /\ AcceptRefused(j) => requests' = [requests EXCEPT ![j] = R!NoEntry]
        /\ \E h : handler' = [handler EXCEPT ![j] = h]
    BY <1>2, <2>1 DEF AcceptSubmit, AcceptRefused, R!AcceptRollback
  <2>3. \A id \in Ids : id # j => requests'[id] = requests[id] /\ handler'[id] = handler[id]
    BY <2>1, <2>2 DEF Types
  <2>4. Unaccepted(j)' => requests'[j] = R!NoEntry
    BY <1>2, <2>2 DEF Unaccepted, Types
  <2>5. QED  BY <2>1, <2>3, <2>4 DEF EntriesAccepted, Unaccepted
<1>3. ASSUME NEW j \in Ids, Stage(j) \/ AcceptRejected(j) \/ AcceptRaises(j)
      PROVE  EntriesAccepted'
  <2>1. /\ requests' = requests /\ call' = call /\ handler[j] \in {"new", "staged"}
        /\ \E h : handler' = [handler EXCEPT ![j] = h]
        /\ call["loop"] = R!Idle
    BY <1>3 DEF Stage, AcceptRejected, AcceptRaises, routerVars, loopFree
  <2>2. QED  BY <2>1, IdleIsIdle DEF EntriesAccepted, Unaccepted, Types
<1>4. ASSUME \A id \in Ids : /\ handler'[id] = handler[id]
                               \/ handler'[id] \in {"streaming", "failed", "done", "gone"},
             call["loop"].op = "submit" => call'["loop"] = call["loop"],
             \A id \in Ids : requests[id] = R!NoEntry => requests'[id] = R!NoEntry
      PROVE  EntriesAccepted'
  BY <1>4 DEF EntriesAccepted, Unaccepted
<1>5. ASSUME NEW j \in Ids, \/ AcceptBegin(j) \/ SubscribeBegin(j) \/ Subscribe(j) \/ SubscribeFails(j)
                            \/ BodyFrame(j) \/ BodyEnd(j) \/ Disconnect(j) \/ ClientCancelBegin(j)
      PROVE  EntriesAccepted'
  <2>1. requests' = requests
    BY <1>5 DEF AcceptBegin, SubscribeBegin, Subscribe, SubscribeFails, BodyFrame, BodyEnd, Disconnect,
       ClientCancelBegin, R!EnsureOpen, R!SubscribeTake, R!SubscribeUnknown, R!StreamRecv, R!StreamEnd,
       R!StreamDrop
  <2>2. handler' = handler \/ \E h \in {"streaming", "failed", "done", "gone"} : handler' = [handler EXCEPT ![j] = h]
    BY <1>5 DEF AcceptBegin, SubscribeBegin, Subscribe, SubscribeFails, BodyFrame, BodyEnd, Disconnect,
       ClientCancelBegin
  <2>3. call["loop"].op # "submit" \/ call' = call
    BY <1>5, IdleIsIdle DEF AcceptBegin, SubscribeBegin, Subscribe, SubscribeFails, BodyFrame, BodyEnd, Disconnect,
       ClientCancelBegin, R!EnsureOpen, R!SubscribeTake, R!SubscribeUnknown, R!StreamRecv, R!StreamEnd,
       R!StreamDrop
  <2>4. QED  BY <1>4, <2>1, <2>2, <2>3 DEF Types
<1>6. ASSUME NEW t \in {"loop", "driver"}, Cancel(t)
      PROVE  EntriesAccepted'
  <2>1. R!CancelReject(t) \/ R!CancelMark(t) \/ R!CancelNotified(t)
    BY <1>6 DEF Cancel, CancelLocked, CancelAdapter
  <2>2. handler' = handler
    BY <1>6 DEF Cancel, CancelLocked, CancelAdapter
  <2>3. call[t].op # "submit" /\ \E c : call' = [call EXCEPT ![t] = c]
    BY <2>1 DEF R!CancelReject, R!CancelMark, R!CancelNotified, R!Return
  <2>4. call["loop"].op = "submit" => call'["loop"] = call["loop"]
    BY <2>3, OneCall, ThreadsAreApart
  <2>5. QED  BY <1>4, <2>1, <2>2, <2>4, EntriesStay
<1>7. CASE DriverStep
  <2>1. handler' = handler /\ requests' = requests
    BY <1>7 DEF DriverStep, DriverTake, DriverExit, EngineYield, EngineRaises, EngineDone, DriverPush,
       DriverCancelled, PushReturned, DriverCancel, R!EnsureOpen, routerVars
  <2>2. call' = call \/ \E c : call' = [call EXCEPT !["driver"] = c]
    BY <1>7 DEF DriverStep, DriverTake, DriverExit, EngineYield, EngineRaises, EngineDone, DriverPush,
       DriverCancelled, PushReturned, DriverCancel, R!EnsureOpen, routerVars
  <2>3. call'["loop"] = call["loop"]
    BY <2>2, OneCall, ThreadsAreApart
  <2>4. QED  BY <1>4, <2>1, <2>3
<1>8. ASSUME NEW k \in Tasks, TaskStart(k) \/ TaskStep(k) \/ TaskReaped(k) \/ PushTimeout(k)
      PROVE  EntriesAccepted'
  <2>1. handler' = handler
    BY <1>8 DEF TaskStart, TaskStep, TaskReaped, PushTimeout
  <2>2. requests' = requests \/ R!PushStep(k)
    BY <1>8 DEF TaskStart, TaskStep, TaskReaped, PushTimeout, R!PushStep, R!EnsureOpen, routerVars
  <2>3. call' = call \/ \E c : call' = [call EXCEPT ![k] = c]
    BY <1>8 DEF TaskStart, TaskStep, TaskReaped, PushTimeout, R!EnsureOpen, R!PushValidate, R!PushSend,
       R!PushFinish, R!PushRefused, R!PushBackpressure, R!PushClosed, R!Return, routerVars
  <2>4. call'["loop"] = call["loop"]
    BY <2>3, OneCall, ThreadsAreApart
  <2>5. QED  BY <1>4, <2>1, <2>2, <2>4, EntriesStay
<1>9. CASE LifespanStop \/ LifespanOver \/ UNCHANGED vars
  <2>1. UNCHANGED <<handler, requests, call>>
    BY <1>9 DEF LifespanStop, LifespanOver, R!Shutdown, vars, routerVars
  <2>2. QED  BY <1>4, <2>1
<1>10. QED
  BY <1>1, <1>2, <1>3, <1>5, <1>6, <1>7, <1>8, <1>9 DEF Next, Handle

\* Requests leave the scheduler, and enter it by an accept.
LEMMA PendingMoves ==
    ASSUME [Next]_vars, ~ \E id \in Ids : AcceptSubmit(id)
    PROVE  pending' \subseteq pending
<1>1. ASSUME NEW t, CancelAdapter(t)
      PROVE  pending' \subseteq pending
  BY <1>1 DEF CancelAdapter, Q!Withdraw, queueVars
<1>2. ASSUME DriverTake
      PROVE  pending' \subseteq pending
  BY <1>2 DEF DriverTake, Q!Take
<1>3. ASSUME ~ DriverTake, ~ \E t : CancelAdapter(t)
      PROVE  pending' = pending
  BY <1>3 DEF Next, Handle, Stage, AcceptRejected, AcceptRaises, AcceptBegin, AcceptRefused, SubscribeBegin, Subscribe, SubscribeFails,
     BodyFrame, BodyEnd, Disconnect, ClientCancelBegin, AcceptInsert, Cancel, CancelLocked,
     DriverStep, DriverExit, EngineYield, EngineRaises, EngineDone, DriverPush, DriverCancelled,
     PushReturned, DriverCancel, TaskStart, TaskStep, TaskReaped, PushTimeout, LifespanStop, LifespanOver,
     vars, queueVars
<1>4. QED  BY <1>1, <1>2, <1>3

\* A submission adds one request of the id to the queue.
LEMMA Submission ==
    ASSUME NEW id \in Ids, AcceptSubmit(id)
    PROVE  /\ \E r : r.id = id /\ pending' = pending \cup {r}
           /\ scheduled' = scheduled \cup {id} /\ UNCHANGED <<driver, task>>
<1>1. PICK p \in Priorities : Q!Submit(id, p)
  BY DEF AcceptSubmit
<1>2. PICK r : r = [id |-> id, priority |-> p,
                    seq |-> Q!Cardinality(pending) + Len(taken) + Q!Cardinality(withdrawn) + 1]
  OBVIOUS
<1>3. r.id = id /\ pending' = pending \cup {r}
  BY <1>1, <1>2 DEF Q!Submit
<1>4. QED  BY <1>3 DEF AcceptSubmit, R!AcceptSubmitted

\* Every step leaves at most one request of an id in the queue.
LEMMA QueuedOnceNext ==
    ASSUME Types, CallsInOrder, OnceScheduled, QueuedOnce, [Next]_vars
    PROVE  QueuedOnce'
<1>1. ASSUME NEW id \in Ids, AcceptSubmit(id)
      PROVE  QueuedOnce'
  BY <1>1, FirstSubmission, Submission DEF QueuedOnce
<1>2. CASE ~ \E id \in Ids : AcceptSubmit(id)
  BY <1>2, PendingMoves, Scheduling DEF QueuedOnce
<1>3. QED  BY <1>1, <1>2

(***************************************************************************)
(* One push at a time                                                      *)
(***************************************************************************)
\* The next state's Handed, of an id of this one.
Keeps(id) == id \in scheduled' /\ ~ \E r \in pending' : r.id = id

\* What the driver was handed the scheduler never gets back.
LEMMA HandedStays ==
    ASSUME Types, CallsInOrder, OnceScheduled, [Next]_vars, NEW id, Handed(id)
    PROVE  Keeps(id)
<1>1. ASSUME NEW j \in Ids, AcceptSubmit(j)
      PROVE  Keeps(id)
  <2>1. j # id /\ id \in scheduled /\ ~ Outstanding(id)
    BY <1>1, FirstSubmission DEF Handed
  <2>2. QED  BY <1>1, <2>1, Submission DEF Keeps, Outstanding
<1>2. CASE ~ \E j \in Ids : AcceptSubmit(j)
  BY <1>2, PendingMoves, Scheduling DEF Handed, Keeps, Outstanding
<1>3. QED  BY <1>1, <1>2

\* No push is made and no request is taken: pushes end, the driver goes on
\* with its request or leaves it, and it goes back to the engine only when no
\* push of its request is left.
LEMMA OnePushKept ==
    ASSUME OnePush, \A id : Handed(id) => Keeps(id),
           \A k \in Tasks : task'[k] # Free => task[k] # Free /\ task'[k].id = task[k].id,
           driver'.pc \in DriverPlaces => driver.pc \in DriverPlaces /\ driver'.id = driver.id,
           driver'.pc \in Tasks => driver'.pc = driver.pc /\ task'[driver.pc] # Free,
           driver'.pc \in {"engine", "check"} =>
              driver.pc \in {"engine", "check"} \/ (driver.pc \in Tasks /\ task'[driver.pc] = Free),
           driver'.pc = "check" => driver'.n > 0
    PROVE  OnePush'
<1>1. \A k \in Tasks : task'[k] # Free => Keeps(task'[k].id)
  BY DEF OnePush
<1>2. \A j, k \in Tasks : task'[j] # Free /\ task'[k] # Free /\ task'[j].id = task'[k].id => j = k
  BY DEF OnePush
<1>3. driver'.pc \in DriverPlaces => Keeps(driver'.id)
  BY DEF OnePush
<1>4. driver'.pc \in Tasks => task'[driver'.pc] # Free /\ task'[driver'.pc].id = driver'.id
  BY DEF OnePush, DriverPlaces
<1>5. driver'.pc \in {"engine", "check"} => \A k \in Tasks : task'[k] # Free => task'[k].id # driver'.id
  BY DEF OnePush, DriverPlaces
<1>6. QED  BY <1>1, <1>2, <1>3, <1>4, <1>5 DEF OnePush, Handed, Keeps, Outstanding

\* A push is made when the driver has no other of its request left.
LEMMA OnePushMade ==
    ASSUME Types, OnePush, \A id : Handed(id) => Keeps(id), driver.pc \in {"engine", "check"},
           NEW k \in Tasks, NEW line, Enqueue(k, line), driver' = [driver EXCEPT !.pc = k]
    PROVE  OnePush'
<1>1. driver \in Generation /\ driver.pc \in DriverPlaces
  BY DriverTypes DEF DriverPlaces
<1>2. driver'.pc = k /\ driver'.id = driver.id /\ k \notin {"engine", "check"}
  BY <1>1, ThreadsAreApart DEF Generation
<1>3. PICK q : q = [st |-> "queued", id |-> driver.id, frame |-> line]
  OBVIOUS
<1>4. task[k] = Free /\ task' = [task EXCEPT ![k] = q] /\ q.id = driver.id /\ q.st = "queued"
  BY <1>3 DEF Enqueue
<1>5. task'[k] = q /\ q # Free /\ \A j \in Tasks : j # k => task'[j] = task[j]
  BY <1>4 DEF Types, Free
<1>6. Keeps(driver.id) /\ \A j \in Tasks : task[j] # Free => task[j].id # driver.id
  BY <1>1 DEF OnePush
<1>7. \A j \in Tasks : task'[j] # Free => Keeps(task'[j].id)
  BY <1>4, <1>5, <1>6 DEF OnePush
<1>8. \A i, j \in Tasks : task'[i] # Free /\ task'[j] # Free /\ task'[i].id = task'[j].id => i = j
  BY <1>4, <1>5, <1>6 DEF OnePush
<1>9. QED  BY <1>2, <1>4, <1>5, <1>6, <1>7, <1>8 DEF OnePush, Handed, Keeps, Outstanding

\* The request the scheduler hands out has no push.
LEMMA OnePushTaken ==
    ASSUME Types, CallsInOrder, OnceScheduled, QueuedOnce, OnePush, DriverTake
    PROVE  OnePush'
<1>1. PICK r \in pending, m \in 1 .. MaxFrames :
         Q!Take(r) /\ driver' = Generating("engine", r.id, 0, FALSE, m)
  BY DEF DriverTake
<1>2. pending' = pending \ {r} /\ scheduled' = scheduled /\ task' = task
  BY <1>1 DEF DriverTake, Q!Take, routerVars
<1>3. driver'.pc = "engine" /\ driver'.id = r.id
  BY <1>1 DEF Generating
<1>4. Keeps(r.id) /\ Outstanding(r.id)
  BY <1>2 DEF Keeps, Outstanding, QueuedOnce
<1>5. \A id : Handed(id) => Keeps(id)
  BY <1>2 DEF Handed, Keeps, Outstanding
<1>6. \A k \in Tasks : task[k] # Free => task[k].id # r.id
  BY <1>4 DEF OnePush, Handed
<1>7. "engine" \notin Tasks
  BY ThreadsAreApart
<1>8. QED  BY <1>2, <1>3, <1>4, <1>5, <1>6, <1>7 DEF OnePush, Handed, Keeps, Outstanding

\* The driver stays where it is.
LEMMA OnePushUnmoved ==
    ASSUME OnePush, \A id : Handed(id) => Keeps(id), driver' = driver,
           \A k \in Tasks : task'[k] # Free => task[k] # Free /\ task'[k].id = task[k].id,
           driver.pc \in Tasks => task'[driver.pc] # Free
    PROVE  OnePush'
<1>1. driver'.pc = driver.pc /\ driver'.id = driver.id /\ driver'.n = driver.n
  OBVIOUS
<1>2. driver'.pc = "check" => driver'.n > 0
  BY <1>1 DEF OnePush
<1>3. driver'.pc \in Tasks => driver'.pc = driver.pc /\ task'[driver.pc] # Free
  BY <1>1
<1>4. driver'.pc \in {"engine", "check"} =>
         driver.pc \in {"engine", "check"} \/ (driver.pc \in Tasks /\ task'[driver.pc] = Free)
  BY <1>1
<1>5. driver'.pc \in DriverPlaces => driver.pc \in DriverPlaces /\ driver'.id = driver.id
  BY <1>1
<1>6. QED  BY <1>2, <1>3, <1>4, <1>5, OnePushKept

\* Every step keeps the driver's pushes one at a time.
LEMMA OnePushNext ==
    ASSUME Types, CallsInOrder, OnceScheduled, QueuedOnce, OnePush, [Next]_vars
    PROVE  OnePush'
<1>1. \A id : Handed(id) => Keeps(id)
  BY HandedStays
<1>2. "loop" \notin DriverPlaces /\ "exited" \notin DriverPlaces /\ "cancelling" \notin DriverPlaces
  BY ThreadsAreApart DEF DriverPlaces
<1>3. CASE DriverTake
  BY <1>3, OnePushTaken
<1>4. CASE DriverExit \/ DriverCancel \/ DriverCancelled
  <2>1. task' = task /\ driver'.pc \in {"loop", "exited", "cancelling"}
    BY <1>4 DEF DriverExit, DriverCancel, DriverCancelled, Resting
  <2>2. driver'.pc \notin DriverPlaces
    BY <1>2, <2>1
  <2>3. QED  BY <1>1, <2>1, <2>2, OnePushKept DEF DriverPlaces
<1>5. CASE EngineYield
  <2>1. driver \in Generation /\ driver.pc = "engine"
    BY <1>5, DriverTypes DEF EngineYield, DriverPlaces
  <2>2. PICK n \in 1 .. MaxFrames : n = driver.n + 1
    BY <1>5, <2>1, ServingAssumption DEF EngineYield, Generation, ServingAssumption
  <2>3. PICK pc \in {"check", "cancel"} : pc = IF stop THEN "cancel" ELSE "check"
    OBVIOUS
  <2>4. (\E final \in BOOLEAN : driver' = [driver EXCEPT !.n = n, !.final = final, !.pc = pc]) /\ task' = task
    BY <1>5, <2>2, <2>3 DEF EngineYield
  <2>5. driver'.pc = pc /\ driver'.n = n /\ driver'.id = driver.id /\ n > 0
    BY <2>1, <2>4 DEF Generation
  <2>6. pc \notin Tasks
    BY ThreadsAreApart
  <2>7. /\ driver'.pc \in DriverPlaces => driver.pc \in DriverPlaces /\ driver'.id = driver.id
        /\ driver'.pc \in Tasks => driver'.pc = driver.pc /\ task'[driver.pc] # Free
        /\ driver'.pc \in {"engine", "check"} => driver.pc \in {"engine", "check"}
        /\ driver'.pc = "check" => driver'.n > 0
    BY <2>1, <2>5, <2>6, ThreadsAreApart DEF DriverPlaces
  <2>8. QED  BY <1>1, <2>4, <2>7, OnePushKept
<1>6. ASSUME NEW k \in Tasks, EngineRaises \/ PushTimeout(k)
      PROVE  OnePush'
  BY <1>1, <1>6, DriverTypes, ThreadsAreApart, OnePushKept
  DEF EngineRaises, PushTimeout, DriverPlaces, Generation
<1>7. CASE EngineRaises
  BY <1>1, <1>7, DriverTypes, ThreadsAreApart, OnePushKept DEF EngineRaises, DriverPlaces, Generation
<1>8. CASE DriverPush \/ EngineDone
  <2>1. driver.pc \in {"engine", "check"}
    BY <1>8 DEF DriverPush, EngineDone
  <2>2. CASE driver' = Resting /\ task' = task
    <3>1. driver'.pc \notin DriverPlaces
      BY <1>2, <2>2 DEF Resting
    <3>2. QED  BY <1>1, <2>2, <3>1, OnePushKept DEF DriverPlaces
  <2>3. ASSUME NEW k \in Tasks, NEW line, Enqueue(k, line), driver' = [driver EXCEPT !.pc = k]
        PROVE  OnePush'
    BY <1>1, <2>1, <2>3, OnePushMade
  <2>4. QED  BY <1>8, <2>2, <2>3 DEF DriverPush, EngineDone
<1>9. ASSUME NEW k \in Tasks, PushReturned(k)
      PROVE  OnePush'
  <2>1. /\ driver.pc = k /\ task' = [task EXCEPT ![k] = Free]
        /\ driver' = Resting \/ \E pc \in {"cancel", "engine"} : driver' = [driver EXCEPT !.pc = pc]
    BY <1>9 DEF PushReturned
  <2>2. driver \in Generation
    BY <2>1, DriverTypes DEF DriverPlaces
  <2>3. task'[k] = Free /\ \A j \in Tasks : j # k => task'[j] = task[j]
    BY <2>1 DEF Types
  <2>4. CASE driver' = Resting
    <3>1. driver'.pc \notin DriverPlaces
      BY <1>2, <2>4 DEF Resting
    <3>2. QED  BY <1>1, <2>3, <3>1, OnePushKept DEF DriverPlaces
  <2>5. ASSUME NEW pc \in {"cancel", "engine"}, driver' = [driver EXCEPT !.pc = pc]
        PROVE  OnePush'
    <3>1. driver'.pc = pc /\ driver'.id = driver.id /\ pc \notin Tasks
      BY <2>2, <2>5, ThreadsAreApart DEF Generation
    <3>2. driver.pc \in Tasks /\ task'[driver.pc] = Free /\ driver.pc \in DriverPlaces
      BY <2>1, <2>3 DEF DriverPlaces
    <3>3. QED  BY <1>1, <2>3, <3>1, <3>2, OnePushKept
  <2>6. QED  BY <2>1, <2>4, <2>5
<1>10. ASSUME NEW k \in Tasks, TaskReaped(k)
       PROVE  OnePush'
  <2>1. driver.pc # k /\ task' = [task EXCEPT ![k] = Free] /\ driver' = driver
    BY <1>10 DEF TaskReaped
  <2>2. task'[k] = Free /\ \A j \in Tasks : j # k => task'[j] = task[j]
    BY <2>1 DEF Types
  <2>3. driver.pc \in Tasks => task'[driver.pc] # Free
    BY <2>1, <2>2 DEF OnePush
  <2>4. QED  BY <1>1, <2>1, <2>2, <2>3, OnePushUnmoved
<1>11. ASSUME NEW k \in Tasks, TaskStart(k) \/ TaskStep(k)
       PROVE  OnePush'
  <2>1. driver' = driver
        /\ (task' = task \/ \E st \in {"running", "ok", "error"} : task' = [task EXCEPT ![k].st = st])
    BY <1>11 DEF TaskStart, TaskStep
  <2>2. task[k] \in Push
    <3>1. CASE TaskStart(k)
      BY <3>1, PushTypes DEF TaskStart
    <3>2. CASE TaskStep(k)
      <4>1. call[k] # R!Idle
        BY <3>2 DEF TaskStep, R!PushValidate, R!PushSend, R!PushFinish, R!PushRefused, R!PushBackpressure,
           R!PushClosed, R!Idle
      <4>2. task[k].st = "running"
        BY <4>1 DEF CallsInOrder, Runs
      <4>3. QED  BY <4>2, PushTypes
    <3>3. QED  BY <1>11, <3>1, <3>2
  <2>3. \A j \in Tasks : /\ j # k => task'[j] = task[j]
                         /\ task'[k].id = task[k].id /\ task'[k].st # "free"
    BY <2>1, <2>2 DEF Types, Push
  <2>4. ASSUME NEW j \in Tasks
        PROVE  (task'[j] # Free <=> task[j] # Free) /\ (task'[j] # Free => task'[j].id = task[j].id)
    <3>1. task[k] # Free /\ task'[k] # Free
      BY <2>2, <2>3, PushTypes DEF Free, Push
    <3>2. QED  BY <2>3, <3>1
  <2>5. driver.pc \in Tasks => task'[driver.pc] # Free
    BY <2>4 DEF OnePush
  <2>6. QED  BY <1>1, <2>1, <2>4, <2>5, OnePushUnmoved
<1>12. ASSUME ~ DriverStep, ~ \E k \in Tasks : PushTimeout(k) \/ TaskReaped(k) \/ TaskStart(k) \/ TaskStep(k)
       PROVE  OnePush'
  <2>1. driver' = driver
    BY <1>12, DriverStays
  <2>2. task' = task
    BY <1>12 DEF Next, Handle, Stage, AcceptRejected, AcceptRaises, AcceptBegin, AcceptSubmit, AcceptRefused, SubscribeBegin, Subscribe,
     SubscribeFails, BodyFrame, BodyEnd, Disconnect, ClientCancelBegin, AcceptInsert, Cancel, CancelLocked,
     CancelAdapter, LifespanStop, LifespanOver, vars
  <2>3. driver.pc \in Tasks => task[driver.pc] # Free
    BY DEF OnePush
  <2>4. QED  BY <1>1, <2>1, <2>2, <2>3, OnePushUnmoved
<1>13. QED
  BY <1>3, <1>4, <1>5, <1>6, <1>7, <1>8, <1>9, <1>10, <1>11, <1>12 DEF DriverStep

(***************************************************************************)
(* The inductive invariant holds                                           *)
(***************************************************************************)
LEMMA InvInit == Init => Inv
<1> SUFFICES ASSUME Init
             PROVE  Inv
  OBVIOUS
<1>1. /\ call = [t \in Threads |-> R!Idle] /\ channels = <<>> /\ scheduled = {} /\ pending = {}
      /\ payloads = {} /\ handler = [id \in Ids |-> "new"] /\ driver = Resting
      /\ task = [k \in Tasks |-> Free] /\ requests = [id \in Ids |-> R!NoEntry]
  BY DEF Init, R!Init, Q!Init
<1>2. Types
  BY <1>1, ThreadsAreApart DEF Types
<1>3. CallsInOrder
  <2>1. \A t \in Threads : call[t] = R!Idle
    BY <1>1
  <2>2. QED  BY <2>1, ThreadsAreApart, IdleIsIdle DEF CallsInOrder, LoopCall, DriverCall, Runs
<1>4. driver.pc = "loop" /\ "loop" \notin DriverPlaces
  BY <1>1, ThreadsAreApart DEF Resting, DriverPlaces
<1>5. \A k \in Tasks : task[k] = Free
  BY <1>1
<1>6. OnePush
  BY <1>4, <1>5 DEF OnePush, DriverPlaces
<1>7. QED  BY <1>1, <1>2, <1>3, <1>6 DEF Inv, OnceScheduled, Staged, EntriesAccepted, QueuedOnce

\* Every step keeps the invariant.
LEMMA InvNext ==
    ASSUME Inv, [Next]_vars
    PROVE  Inv'
BY TypesNext, CallsNext, OnceScheduledNext, PayloadsNext, EntriesNext, QueuedOnceNext, OnePushNext DEF Inv

\* Types, calls, payloads, the queue and the driver's pushes are as Inv says
\* in every reachable state.
THEOREM ServingInvariant == Spec => []Inv
BY InvInit, InvNext, PTL DEF Spec

\* NoPayloadLeak: whatever refuses a request, before the adapter or behind it,
\* leaves nothing of it with adapter, router or scheduler, save the payload of
\* an accept that raised what the handler does not catch.
THEOREM PayloadsAreConsumed == Spec => []NoPayloadLeak
<1>1. ASSUME Inv
      PROVE  NoPayloadLeak
  <2>1. ASSUME NEW id \in Ids, handler[id] \in {"refused", "raised"}
        PROVE  requests[id] = R!NoEntry
    BY <1>1, <2>1 DEF Inv, EntriesAccepted, Unaccepted, CallsInOrder, LoopCall
  <2>2. ASSUME NEW id \in Ids, handler[id] \in {"refused", "raised"}, NEW r \in pending
        PROVE  r.id # id
    BY <1>1, <2>2 DEF Inv, OnceScheduled, QueuedOnce
  <2>3. QED  BY <1>1, <2>1, <2>2 DEF Inv, Staged, NoPayloadLeak
<1>2. QED  BY <1>1, ServingInvariant, PTL

(***************************************************************************)
(* The driver's pushes justify the router's assumption                     *)
(***************************************************************************)
\* A coroutine's call begins when the loop starts it.
LEMMA PushBegins ==
    ASSUME Inv, [Next]_vars, NEW k \in Tasks, call[k] = R!Idle, call'[k] # R!Idle
    PROVE  TaskStart(k) /\ task[k] \in Push
<1>1. ASSUME NEW t \in Threads, EntersRouter(t) \/ R!CallStep(t), t # k
      PROVE  call'[k] = call[k]
  <2>1. \E c : call' = [call EXCEPT ![t] = c]
    BY <1>1 DEF R!CallStep, R!AcceptStep, R!AcceptDuplicate, R!AcceptInsert, R!AcceptSubmitted,
       R!AcceptRollback, R!PushStep, R!PushRefused, R!PushValidate, R!PushBackpressure, R!PushClosed,
       R!PushSend, R!PushFinish, R!SubscribeTake, R!SubscribeUnknown, R!CancelReject, R!CancelMark,
       R!CancelNotified, R!Return, EntersRouter, R!EnsureOpen
  <2>2. QED  BY <1>1, <2>1, OneCall, ThreadsAreApart DEF Inv
<1>2. ASSUME EntersRouter(k)
      PROVE  FALSE
  <2>1. PICK c \in R!Calls : call' = [call EXCEPT ![k] = c] /\ c.op # "push"
    BY <1>2 DEF EntersRouter, R!EnsureOpen
  <2>2. call'[k] = c /\ c.op \in {"accept", "subscribe", "cancel"}
    BY <2>1, OneCall, ThreadsAreApart DEF Inv, R!Calls
  <2>3. call'[k].op \in PushOps
    BY InvNext DEF Inv, CallsInOrder, Runs
  <2>4. QED  BY <2>2, <2>3 DEF PushOps
<1>3. ~ R!CallStep(k)
  BY IdleIsIdle DEF R!CallStep, R!AcceptStep, R!AcceptDuplicate, R!AcceptInsert, R!AcceptSubmitted,
     R!AcceptRollback, R!PushStep, R!PushRefused, R!PushValidate, R!PushBackpressure, R!PushClosed,
     R!PushSend, R!PushFinish, R!SubscribeTake, R!SubscribeUnknown, R!CancelReject, R!CancelMark,
     R!CancelNotified
<1>4. ASSUME NEW j \in Tasks, TaskStart(j), j # k
      PROVE  call'[k] = call[k]
  <2>1. call' = call \/ \E c : call' = [call EXCEPT ![j] = c]
    BY <1>4 DEF TaskStart, R!EnsureOpen, routerVars
  <2>2. QED  BY <1>4, <2>1, OneCall, ThreadsAreApart DEF Inv
<1>5. call' # call
  OBVIOUS
<1>6. TaskStart(k)
  BY <1>1, <1>2, <1>3, <1>4, <1>5, RouterSteps
  DEF Inv, routerVars, R!Shutdown, R!StreamRecv, R!StreamEnd, R!StreamDrop
<1>7. QED  BY <1>6, PushTypes DEF Inv, TaskStart

\* No other push of a queued coroutine's request is in flight.
LEMMA QueuedAlone ==
    ASSUME Inv, NEW k \in Tasks, task[k].st = "queued"
    PROVE  task[k].id \in scheduled /\ ~ R!Pushing(task[k].id)
<1>1. task[k] # Free
  BY PushTypes DEF Inv
<1>2. ASSUME NEW t \in Threads, call[t].op \in PushOps, call[t].id = task[k].id
      PROVE  FALSE
  <2>1. t \in Tasks
    BY <1>2, IdleIsIdle DEF Inv, CallsInOrder, LoopCall, DriverCall, Threads, PushOps
  <2>2. task[t].st = "running" /\ task[t].id = task[k].id
    BY <1>2, <2>1, IdleIsIdle DEF Inv, CallsInOrder, Runs, PushOps
  <2>3. task[t] # Free
    BY <2>1, <2>2, PushTypes DEF Inv
  <2>4. t = k
    BY <1>1, <2>1, <2>2, <2>3 DEF Inv, OnePush
  <2>5. QED  BY <2>2, <2>4
<1>3. QED  BY <1>1, <1>2 DEF Inv, OnePush, Handed, R!Pushing, PushOps

\* DriverPushJustified: what module Router assumes of its caller is so, since
\* the driver awaits each push, never pushes again for a request whose push
\* it gave up on, and takes from the scheduler what was submitted.
THEOREM DriverAwaitsItsPushes == Spec => DriverPushJustified
<1> DEFINE Justified ==
       \A k \in Tasks : (call[k] = R!Idle /\ call'[k] # R!Idle) =>
            task[k].id \in scheduled /\ ~ R!Pushing(task[k].id)
<1>1. ASSUME Inv, [Next]_vars
      PROVE  Justified
  <2>1. ASSUME NEW k \in Tasks, call[k] = R!Idle, call'[k] # R!Idle
        PROVE  task[k].id \in scheduled /\ ~ R!Pushing(task[k].id)
    <3>1. task[k].st = "queued"
      BY <1>1, <2>1, PushBegins DEF TaskStart
    <3>2. QED  BY <1>1, <3>1, QueuedAlone
  <2>2. QED  BY <2>1
<1>2. Inv /\ [Next]_vars => [Justified]_vars
  BY <1>1
<1>3. QED  BY <1>2, ServingInvariant, PTL DEF Spec, DriverPushJustified

(***************************************************************************)
(* The server's router is the driven router                                *)
(***************************************************************************)
LEMMA DrivenNext ==
    ASSUME Inv, [Next]_vars
    PROVE  [Driven!Next]_(Driven!vars)
<1>1. CASE UNCHANGED routerVars
  BY <1>1 DEF routerVars, Driven!vars
<1>2. CASE R!Shutdown
  BY <1>2 DEF R!Shutdown, Driven!Shutdown, Driven!Next
<1>3. ASSUME NEW t \in Threads, R!CallStep(t) \/ EntersRouter(t)
      PROVE  Driven!Next
  <2>1. CASE R!CallStep(t)
    BY <2>1, SameCallSteps
  <2>2. CASE EntersRouter(t)
    <3>1. PICK c \in R!Calls : R!EnsureOpen(t, c) /\ c.op # "push"
      BY <2>2 DEF EntersRouter
    <3>2. QED  BY <3>1, Enters
  <2>3. QED  BY <1>3, <2>1, <2>2
<1>4. ASSUME NEW k \in Tasks, TaskStart(k), ~ UNCHANGED routerVars
      PROVE  Driven!Next
  <2>1. task[k].id \in scheduled /\ ~ R!Pushing(task[k].id) /\ task[k] \in Push
    BY <1>4, QueuedAlone, PushTypes DEF TaskStart, Inv
  <2>2. PICK c : c = [op |-> "push", id |-> task[k].id, frame |-> task[k].frame]
    OBVIOUS
  <2>3. c \in R!Calls /\ c.op = "push" /\ c.id = task[k].id
    BY <2>1, <2>2 DEF Push, R!Calls
  <2>4. R!EnsureOpen(k, c)
    BY <1>4, <2>2 DEF TaskStart
  <2>5. QED  BY <2>1, <2>3, <2>4, Enters, ThreadsAreApart
<1>5. ASSUME NEW n, R!StreamRecv(n) \/ R!StreamEnd(n) \/ R!StreamDrop(n)
      PROVE  [Driven!Next]_(Driven!vars)
  BY <1>5, SameStreamSteps DEF Inv, Types
<1>6. QED
  BY <1>1, <1>2, <1>3, <1>4, <1>5, RouterSteps DEF Inv

\* Whatever handlers, driver, clients and shutdown do, the router they call
\* behaves as module Router with DriverPush says it does.
THEOREM ServingDrivesTheRouter == Spec => Driven!Spec
<1>1. Init => Driven!Init
  BY DEF Init, R!Init, Driven!Init, R!NoEntry, Driven!NoEntry, R!Idle, Driven!Idle
<1>2. QED  BY <1>1, DrivenNext, ServingInvariant, PTL DEF Spec, Driven!Spec

\* EndOfStreamIsTruthful: what RouterProofs shows of a router whose frames come
\* from the driver holds of the server's router, so no client sees the end of a
\* stream before the end of its request.
THEOREM ClientsSeeTheEnd == Spec => []EndOfStreamIsTruthful
<1>1. Driven!Spec => []Driven!EndOfStreamIsTruthful
  BY Driven!EndOfStreamIsTheEnd, RouterIsAssumed DEF Driven!RouterAssumption
<1>2. Driven!EndOfStreamIsTruthful <=> EndOfStreamIsTruthful
  BY DEF EndOfStreamIsTruthful, R!EndOfStreamIsTruthful, Driven!EndOfStreamIsTruthful, R!is_terminal,
     Driven!is_terminal
<1>3. QED  BY <1>1, <1>2, ServingDrivesTheRouter, PTL

\* The server's streams carry frames of increasing index and nothing behind a
\* final one, although a push that timed out may still run later.
THEOREM ClientsStreamsAreOrdered == Spec => []R!StreamWellFormed
<1>1. Driven!Spec => []Driven!StreamWellFormed
  BY Driven!StreamsAreWellFormed, RouterIsAssumed DEF Driven!RouterAssumption
<1>2. Driven!StreamWellFormed <=> R!StreamWellFormed
  BY DEF R!StreamWellFormed, Driven!StreamWellFormed
<1>3. QED  BY <1>1, <1>2, ServingDrivesTheRouter, PTL

===============================================================================
