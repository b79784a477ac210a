------------------------------- MODULE Serving --------------------------------
(***************************************************************************)
(* The v2 generation path of the server, end to end: the HTTP handler      *)
(* (serving/app.py), the scheduler adapter and the engine driver           *)
(* (serving/driver.py), the router (module Router, step by step) and the   *)
(* scheduler (as the priority queue it implements, module PriorityQueue),  *)
(* with client disconnects, engine failures, push timeouts and the         *)
(* lifespan's shutdown.                                                    *)
(*                                                                         *)
(* Threads: the event loop runs every handler, starts every push_frame     *)
(* coroutine and runs the lifespan; the driver thread drains the           *)
(* scheduler; a started push_frame runs on the tokio runtime.              *)
(***************************************************************************)
EXTENDS Integers, Sequences, FiniteSets

CONSTANTS
    Ids,            \* request ids (uuid4 per HTTP request)
    Tasks,          \* names for push_frame coroutines in flight
    Priorities,     \* the priorities clients ask for
    QueueDepth, Capacity,
    MaxFrames       \* bound: an engine yields at most this many frames

ASSUME ServingAssumption ==
    /\ Priorities \subseteq {"High", "Normal", "Low"}
    /\ QueueDepth \in Nat /\ Capacity \in Nat
    /\ MaxFrames \in Nat \ {0}
    /\ IsFiniteSet(Ids)
    \* A coroutine is neither of the threads nor a place of the driver's.
    /\ Tasks \cap {"loop", "driver", "engine", "check", "cancel", "cancelling", "exited"} = {}

Threads == {"loop", "driver"} \cup Tasks

VARIABLES
    requests, channels, shutting_down, call, scheduled,   \* module Router
    pending, taken, withdrawn,                            \* module PriorityQueue
    scheduler_down,  \* the scheduler's shutdown flag
    payloads,        \* _SchedulerAdapter._payloads, the staged ids
    handler,         \* where each POST /v2/generate/stream is
    driver,          \* the driver thread
    task,            \* each push coroutine: free, waiting for the loop, running, or its result
    lifespan,        \* up, joining the driver thread, or over
    unfinished       \* history: requests whose generation ended with no final line pushed

routerVars == <<requests, channels, shutting_down, call, scheduled>>
queueVars  == <<pending, taken, withdrawn>>
vars == <<routerVars, queueVars, scheduler_down, payloads, handler, driver, task, lifespan, unfinished>>

R == INSTANCE Router WITH MaxIndex <- MaxFrames, MaxAccepts <- Cardinality(Ids),
                          DriverPush <- FALSE
Q == INSTANCE PriorityQueue

\* The driver's program counter, the request it runs, the frames it has taken
\* from the engine, whether the last was final by the engine's own total, and
\* num_frames.
Resting == [pc |-> "loop"]
Generating(pc, id, n, final, total) ==
    [pc |-> pc, id |-> id, n |-> n, final |-> final, total |-> total]

Free == [st |-> "free"]

Init ==
    /\ R!Init
    /\ Q!Init
    /\ scheduler_down = FALSE
    /\ payloads = {}
    /\ handler = [id \in Ids |-> "new"]
    /\ driver = Resting
    /\ task = [k \in Tasks |-> Free]
    /\ lifespan = "up"
    /\ unfinished = {}

\* EngineDriver._stop: set by stop() before anything else.
stop == lifespan # "up"

\* The event loop is at an await: no handler is between two awaits and the
\* lifespan is not blocking it in join().
loopFree ==
    /\ call["loop"] = R!Idle
    /\ \A id \in Ids : handler[id] \notin {"staged", "accepted"}
    /\ lifespan # "joining"

(***************************************************************************)
(* POST /v2/generate/stream.  stage, accept and subscribe run without an   *)
(* await in between; uvicorn starts no handler once the lifespan is over.  *)
(***************************************************************************)
Stage(id) ==
    /\ handler[id] = "new"
    /\ loopFree /\ lifespan = "up"
    /\ payloads' = payloads \cup {id}
    /\ handler' = [handler EXCEPT ![id] = "staged"]
    /\ UNCHANGED <<routerVars, queueVars, scheduler_down, driver, task, lifespan, unfinished>>

\* Mutant: the handler does not discard what it staged.
AcceptRejectedKeepsPayload(id) ==
    /\ handler[id] = "staged" /\ call["loop"] = R!Idle
    /\ handler' = [handler EXCEPT ![id] = "refused"]
    /\ UNCHANGED <<routerVars, queueVars, scheduler_down, payloads, driver, task, lifespan, unfinished>>

\* PyRouter::accept before the router and the adapter see the request: the
\* priority or the payload does not parse (serde_json refuses a number it
\* cannot hold) and the handler discards what it staged.
AcceptRejected(id) ==
    /\ handler[id] = "staged" /\ call["loop"] = R!Idle
    /\ payloads' = payloads \ {id}
    /\ handler' = [handler EXCEPT ![id] = "refused"]
    /\ UNCHANGED <<routerVars, queueVars, scheduler_down, driver, task, lifespan, unfinished>>

\* json.dumps raises: no RouterError, so the handler's `except' does not see
\* it, nothing is discarded and the client gets a 500.
AcceptRaises(id) ==
    /\ handler[id] = "staged" /\ call["loop"] = R!Idle
    /\ handler' = [handler EXCEPT ![id] = "raised"]
    /\ UNCHANGED <<routerVars, queueVars, scheduler_down, payloads, driver, task, lifespan, unfinished>>

AcceptBegin(id) ==
    /\ handler[id] = "staged"
    /\ R!EnsureOpen("loop", [op |-> "accept", id |-> id])
    /\ UNCHANGED <<queueVars, scheduler_down, payloads, handler, driver, task, lifespan, unfinished>>

AcceptInsert ==
    /\ R!AcceptInsert("loop")
    /\ UNCHANGED <<queueVars, scheduler_down, payloads, handler, driver, task, lifespan, unfinished>>

\* PySchedulerHandle.submit -> _SchedulerAdapter.submit pops the payload and
\* calls scheduler.submit.
AcceptSubmit(id) ==
    /\ call["loop"] = [op |-> "submit", id |-> id]
    /\ id \in payloads
    /\ ~ scheduler_down
    /\ payloads' = payloads \ {id}
    /\ \E p \in Priorities : Q!Submit(id, p)
    /\ R!AcceptSubmitted("loop")
    /\ handler' = [handler EXCEPT ![id] = "accepted"]
    /\ UNCHANGED <<scheduler_down, driver, task, lifespan, unfinished>>

\* QueueFull or ShuttingDown, after the adapter has popped the payload: the
\* router rolls back; the handler has nothing left to discard.
AcceptRefused(id) ==
    /\ call["loop"] = [op |-> "submit", id |-> id]
    /\ scheduler_down \/ Cardinality(pending) >= Capacity \/ id \notin payloads
    /\ payloads' = payloads \ {id}
    /\ R!AcceptRollback("loop")
    /\ handler' = [handler EXCEPT ![id] = "refused"]
    /\ UNCHANGED <<queueVars, scheduler_down, driver, task, lifespan, unfinished>>

SubscribeBegin(id) ==
    /\ handler[id] = "accepted"
    /\ R!EnsureOpen("loop", [op |-> "subscribe", id |-> id])
    /\ UNCHANGED <<queueVars, scheduler_down, payloads, handler, driver, task, lifespan, unfinished>>

Subscribe(id) ==
    /\ call["loop"] = [op |-> "subscribe", id |-> id]
    /\ R!SubscribeTake("loop")
    /\ handler' = [handler EXCEPT ![id] = "streaming"]
    /\ UNCHANGED <<queueVars, scheduler_down, payloads, driver, task, lifespan, unfinished>>

\* The driver has already cancelled the request: the RouterError is not
\* caught and the client gets a 500.
SubscribeFails(id) ==
    /\ call["loop"] = [op |-> "subscribe", id |-> id]
    /\ R!SubscribeUnknown("loop")
    /\ handler' = [handler EXCEPT ![id] = "failed"]
    /\ UNCHANGED <<queueVars, scheduler_down, payloads, driver, task, lifespan, unfinished>>

\* body_iter(): one frame, or the end of the stream and of the response.
BodyFrame(id) ==
    /\ handler[id] = "streaming" /\ loopFree
    /\ R!StreamRecv(requests[id].chan)
    /\ UNCHANGED <<queueVars, scheduler_down, payloads, handler, driver, task, lifespan, unfinished>>

BodyEnd(id) ==
    /\ handler[id] = "streaming" /\ loopFree
    /\ R!StreamEnd(requests[id].chan)
    /\ handler' = [handler EXCEPT ![id] = "done"]
    /\ UNCHANGED <<queueVars, scheduler_down, payloads, driver, task, lifespan, unfinished>>

\* The client disconnects: the generator is interrupted by a BaseException
\* (CancelledError or GeneratorExit), which `except Exception' lets through,
\* and its stream is dropped.
Disconnect(id) ==
    /\ handler[id] = "streaming" /\ loopFree
    /\ R!StreamDrop(requests[id].chan)
    /\ handler' = [handler EXCEPT ![id] = "gone"]
    /\ UNCHANGED <<queueVars, scheduler_down, payloads, driver, task, lifespan, unfinished>>

(***************************************************************************)
(* router.cancel, from POST /v2/generate/{id}/cancel on the loop and from  *)
(* _cancel_silently on the driver thread.                                  *)
(***************************************************************************)
ClientCancelBegin(id) ==
    /\ loopFree /\ lifespan = "up"
    /\ R!EnsureOpen("loop", [op |-> "cancel", id |-> id])
    /\ UNCHANGED <<queueVars, scheduler_down, payloads, handler, driver, task, lifespan, unfinished>>

CancelLocked(t) ==
    /\ R!CancelReject(t) \/ R!CancelMark(t)
    /\ UNCHANGED <<queueVars, scheduler_down, payloads, handler, driver, task, lifespan, unfinished>>

\* scheduler.cancel through the adapter; NotFound and ShuttingDown are
\* swallowed.
CancelAdapter(t) ==
    /\ call[t].op = "unschedule"
    /\ R!CancelNotified(t)
    /\ payloads' = payloads \ {call[t].id}
    /\ IF ~ scheduler_down /\ \E r \in pending : r.id = call[t].id
         THEN Q!Withdraw(call[t].id)
         ELSE UNCHANGED queueVars
    /\ UNCHANGED <<scheduler_down, handler, driver, task, lifespan, unfinished>>

(***************************************************************************)
(* The driver thread.                                                      *)
(***************************************************************************)

\* _run: next_blocking returned an item.  A None (timeout or shutdown) only
\* goes round the loop.
DriverTake ==
    /\ driver = Resting
    /\ \E r \in pending, total \in 1 .. MaxFrames :
         /\ Q!Take(r)
         /\ driver' = Generating("engine", r.id, 0, FALSE, total)
    /\ UNCHANGED <<routerVars, scheduler_down, payloads, handler, task, lifespan, unfinished>>

DriverExit ==
    /\ driver = Resting
    /\ stop
    /\ driver' = [pc |-> "exited"]
    /\ UNCHANGED <<routerVars, queueVars, scheduler_down, payloads, handler, task, lifespan, unfinished>>

\* The engine yields the next frame, as many as it likes and of whatever total
\* it likes; the stop event is looked at first.
EngineYield ==
    /\ driver.pc = "engine"
    /\ driver.n < MaxFrames
    /\ \E final \in BOOLEAN :
         driver' = [driver EXCEPT !.n = @ + 1, !.final = final,
                                  !.pc = IF stop THEN "cancel" ELSE "check"]
    /\ UNCHANGED <<routerVars, queueVars, scheduler_down, payloads, handler, task, lifespan, unfinished>>

EngineRaises ==
    /\ driver.pc = "engine"
    /\ driver' = [driver EXCEPT !.pc = "cancel"]
    /\ UNCHANGED <<routerVars, queueVars, scheduler_down, payloads, handler, task, lifespan, unfinished>>

\* The line pushed for the frame just yielded, final when its index is the last
\* of its own total, and the pixel-less final marker.
FrameLine == [index |-> driver.n - 1, final |-> driver.final]
MarkerLine == [index |-> driver.n, final |-> TRUE]

Enqueue(k, line) ==
    /\ task[k] = Free
    /\ task' = [task EXCEPT ![k] = [st |-> "queued", id |-> driver.id, frame |-> line]]

\* `Best-effort cancel check before each push': router.state, then a push of
\* the frame just yielded through run_coroutine_threadsafe.
DriverPush ==
    /\ driver.pc = "check"
    /\ IF requests[driver.id].state = "Cancelled"
         THEN driver' = Resting /\ UNCHANGED task
         ELSE \E k \in Tasks :
                /\ Enqueue(k, FrameLine)
                /\ driver' = [driver EXCEPT !.pc = k]
    /\ UNCHANGED <<routerVars, queueVars, scheduler_down, payloads, handler, lifespan, unfinished>>

\* Mutant: no marker behind a stream whose last frame was not final.
EngineDoneNoMarker ==
    /\ driver.pc = "engine"
    /\ driver' = Resting
    /\ UNCHANGED <<routerVars, queueVars, scheduler_down, payloads, handler, task, lifespan, unfinished>>

\* The engine is exhausted, after however many frames: a synthetic final
\* marker if there was a frame and the last is not the one the request asked
\* for.  Without one, the stream ends only if the last frame was final.
EngineDone ==
    /\ driver.pc = "engine"
    /\ IF driver.n > 0 /\ driver.n # driver.total
         THEN \E k \in Tasks :
                /\ Enqueue(k, MarkerLine)
                /\ driver' = [driver EXCEPT !.pc = k]
                /\ UNCHANGED unfinished
         ELSE /\ driver' = Resting
              /\ unfinished' = IF driver.final THEN unfinished ELSE unfinished \cup {driver.id}
              /\ UNCHANGED task
    /\ UNCHANGED <<routerVars, queueVars, scheduler_down, payloads, handler, lifespan>>

\* Mutant: a push that timed out is skipped and the generation goes on.
PushTimeoutContinues(k) ==
    /\ driver.pc = k
    /\ task[k].st \in {"queued", "running"}
    /\ driver' = [driver EXCEPT !.pc = "engine"]
    /\ UNCHANGED <<routerVars, queueVars, scheduler_down, payloads, handler, task, lifespan, unfinished>>

\* _push: fut.result() returns, raises, or times out; a timed-out coroutine
\* is left behind and runs when the loop gets to it.
PushReturned(k) ==
    /\ driver.pc = k
    /\ task[k].st \in {"ok", "error"}
    /\ task' = [task EXCEPT ![k] = Free]
    /\ driver' = IF task[k].st = "error" THEN [driver EXCEPT !.pc = "cancel"]
                 ELSE IF task[k].frame.index = driver.n THEN Resting
                 ELSE [driver EXCEPT !.pc = "engine"]
    /\ UNCHANGED <<routerVars, queueVars, scheduler_down, payloads, handler, lifespan, unfinished>>

PushTimeout(k) ==
    /\ driver.pc = k
    /\ task[k].st \in {"queued", "running"}
    /\ driver' = [driver EXCEPT !.pc = "cancel"]
    /\ UNCHANGED <<routerVars, queueVars, scheduler_down, payloads, handler, task, lifespan, unfinished>>

\* Nobody waits for a coroutine whose caller timed out.
TaskReaped(k) ==
    /\ driver.pc # k
    /\ task[k].st \in {"ok", "error"}
    /\ task' = [task EXCEPT ![k] = Free]
    /\ UNCHANGED <<routerVars, queueVars, scheduler_down, payloads, handler, driver, lifespan, unfinished>>

\* _cancel_silently, and back to the loop.
DriverCancel ==
    /\ driver.pc = "cancel"
    /\ IF shutting_down
         THEN UNCHANGED routerVars
         ELSE R!EnsureOpen("driver", [op |-> "cancel", id |-> driver.id])
    /\ driver' = [pc |-> "cancelling"]
    /\ UNCHANGED <<queueVars, scheduler_down, payloads, handler, task, lifespan, unfinished>>

DriverCancelled ==
    /\ driver.pc = "cancelling"
    /\ call["driver"] = R!Idle
    /\ driver' = Resting
    /\ UNCHANGED <<routerVars, queueVars, scheduler_down, payloads, handler, task, lifespan, unfinished>>

(***************************************************************************)
(* push_frame coroutines.                                                  *)
(***************************************************************************)

\* The loop starts the coroutine; a router that is shutting down refuses.
TaskStart(k) ==
    /\ task[k].st = "queued"
    /\ loopFree
    /\ IF shutting_down
         THEN /\ task' = [task EXCEPT ![k].st = "error"]
              /\ UNCHANGED routerVars
         ELSE /\ task' = [task EXCEPT ![k].st = "running"]
              /\ R!EnsureOpen(k, [op |-> "push", id |-> task[k].id, frame |-> task[k].frame])
    /\ UNCHANGED <<queueVars, scheduler_down, payloads, handler, driver, lifespan, unfinished>>

TaskStep(k) ==
    /\ \/ R!PushValidate(k) /\ UNCHANGED task
       \/ R!PushSend(k) /\ task' = IF task[k].frame.final THEN task
                                    ELSE [task EXCEPT ![k].st = "ok"]
       \/ R!PushFinish(k) /\ task' = [task EXCEPT ![k].st = "ok"]
       \/ /\ R!PushRefused(k) \/ R!PushBackpressure(k) \/ R!PushClosed(k)
          /\ task' = [task EXCEPT ![k].st = "error"]
    /\ UNCHANGED <<queueVars, scheduler_down, payloads, handler, driver, lifespan, unfinished>>

(***************************************************************************)
(* The lifespan's exit: driver.stop() sets the event, shuts the scheduler  *)
(* down and joins the thread, blocking the loop, for at most 5 seconds;    *)
(* then router.shutdown().                                                 *)
(***************************************************************************)
LifespanStop ==
    /\ lifespan = "up" /\ loopFree
    /\ lifespan' = "joining"
    /\ scheduler_down' = TRUE
    /\ UNCHANGED <<routerVars, queueVars, payloads, handler, driver, task, unfinished>>

\* The join returned, because the thread is done or because it timed out.
LifespanOver ==
    /\ lifespan = "joining"
    /\ lifespan' = "over"
    /\ R!Shutdown
    /\ UNCHANGED <<queueVars, scheduler_down, payloads, handler, driver, task, unfinished>>

Handle(id) ==
    \/ AcceptRejected(id) \/ AcceptRaises(id)
    \/ AcceptBegin(id) \/ AcceptSubmit(id) \/ AcceptRefused(id)
    \/ SubscribeBegin(id) \/ Subscribe(id) \/ SubscribeFails(id)
    \/ BodyFrame(id) \/ BodyEnd(id)

DriverStep ==
    \/ DriverTake \/ DriverExit
    \/ EngineYield \/ EngineRaises \/ EngineDone
    \/ DriverPush \/ DriverCancel \/ DriverCancelled
    \/ \E k \in Tasks : PushReturned(k)

Cancel(t) == CancelLocked(t) \/ CancelAdapter(t)

Next ==
    \/ \E id \in Ids : Stage(id) \/ Handle(id) \/ Disconnect(id) \/ ClientCancelBegin(id)
    \/ AcceptInsert
    \/ Cancel("loop") \/ Cancel("driver")
    \/ DriverStep
    \/ \E k \in Tasks : TaskStart(k) \/ TaskStep(k) \/ TaskReaped(k) \/ PushTimeout(k)
    \/ LifespanStop \/ LifespanOver

Spec == Init /\ [][Next]_vars

\* Handlers that have begun, the loop's coroutines, the driver thread and the
\* engine make progress, and a client that stays reads its stream; strongly
\* fair where the loop is shared, because asyncio runs what is ready in FIFO
\* order and no stream of cancel requests can starve a coroutine.  Clients
\* need not come, leave or cancel, no push need time out, and the server need
\* never be stopped.
Fairness ==
    /\ \A id \in Ids : SF_vars(Handle(id))
    /\ WF_vars(AcceptInsert)
    /\ WF_vars(Cancel("loop")) /\ WF_vars(Cancel("driver"))
    /\ WF_vars(DriverStep)
    /\ \A k \in Tasks : SF_vars(TaskStart(k)) /\ WF_vars(TaskStep(k)) /\ WF_vars(TaskReaped(k))
    /\ WF_vars(LifespanOver)

LiveSpec == Spec /\ Fairness

(***************************************************************************)
(* Properties.                                                             *)
(***************************************************************************)

\* Type invariant of the parts this module adds.
TypeOK ==
    /\ R!TypeOK
    /\ payloads \subseteq Ids
    /\ handler \in [Ids -> {"new", "staged", "accepted", "refused", "raised",
                            "streaming", "failed", "done", "gone"}]
    /\ driver.pc \in {"loop", "engine", "check", "cancel", "cancelling", "exited"} \cup Tasks
    /\ \A k \in Tasks : task[k].st \in {"free", "queued", "running", "ok", "error"}
    /\ lifespan \in {"up", "joining", "over"}
    /\ unfinished \subseteq Ids

\* What module Router assumes of its caller when DriverPush is TRUE: frames
\* come for requests the scheduler took and one at a time, although a push
\* may time out and be left behind.
DriverPushJustified ==
    [][\A k \in Tasks : (call[k] = R!Idle /\ call'[k] # R!Idle) =>
            task[k].id \in scheduled /\ ~ R!Pushing(task[k].id)]_vars

\* Whatever refuses a request, and before or after the adapter took its
\* payload, nothing of it stays: no payload with the adapter, no entry with the
\* router, no place in the scheduler.  The one payload left behind is that of
\* an accept that raised something other than a RouterError.
NoPayloadLeak ==
    /\ \A id \in payloads : handler[id] \in {"staged", "raised"}
    /\ \A id \in Ids : handler[id] \in {"refused", "raised"} =>
            requests[id] = R!NoEntry /\ \A r \in pending : r.id # id

\* A response that ended on its own delivered every frame up to the final one
\* or belongs to a cancelled request: timeouts, late pushes and refused frames
\* never make a truncated stream look complete.
EndOfStreamIsTruthful == R!EndOfStreamIsTruthful

\* The router was shut down under a request nobody completed or cancelled: it
\* was still queued, or the driver outlived the 5 s join and its own cancel was
\* refused.  shutdown() leaves the entry its Sender.
Stranded(id) == lifespan = "over" /\ requests[id].state \in {"Scheduled", "Streaming"}

\* Every response ends, whatever the engine yields or raises and whatever the
\* cancels, the timeouts and the shutdown do, except where the code lets it
\* hang: the shutdown strands its request for good, or the engine stopped with
\* no final frame at a place the driver takes for the end (no frame at all, or
\* exactly num_frames of a total it put higher).  (app.py means the shutdown to
\* end those too: "so any in-flight subscribers see end-of-stream cleanly"; and
\* driver.py the marker to be there "so the subscriber closes cleanly".)
EveryResponseEnds ==
    \A id \in Ids : (handler[id] = "streaming") ~>
        (handler[id] # "streaming" \/ []Stranded(id) \/ id \in unfinished)
=============================================================================
