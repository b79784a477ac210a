------------------------------- MODULE Router --------------------------------
(***************************************************************************)
(* The request router of crates/repercep-router: one entry per request id  *)
(* under a mutex, one bounded mpsc channel per entry, and a shutdown flag  *)
(* under a mutex of its own that every operation reads first.              *)
(*                                                                         *)
(* push_frame() runs on the tokio runtime in three phases (validate under  *)
(* the lock, send without it, complete under it again), concurrently with  *)
(* accept / subscribe / cancel on the event loop's thread; each critical   *)
(* section and each access outside one is a step.                          *)
(***************************************************************************)
EXTENDS Integers, Sequences, FiniteSets

CONSTANTS
    Ids,            \* request ids
    Threads,        \* threads and tasks that call the router
    QueueDepth,     \* per_request_queue_depth given to Router::new
    MaxIndex,       \* bound: frame indices are 0 .. MaxIndex
    MaxAccepts,     \* bound: how many entries may be inserted in a behaviour
    DriverPush      \* do frames come only from the engine driver, which pushes for
                    \* requests the scheduler took and awaits each push?

ASSUME RouterAssumption ==
    /\ QueueDepth \in Nat
    /\ MaxIndex \in Nat
    /\ MaxAccepts \in Nat
    /\ DriverPush \in BOOLEAN

VARIABLES
    requests,       \* the entry of each id; NoEntry if the map has none
    channels,       \* the frame channels, in the order accept() made them
    shutting_down,  \* the flag
    call,           \* what each thread still has to do
    scheduled       \* history: the ids that scheduler.submit() took

vars == <<requests, channels, shutting_down, call, scheduled>>

\* Router::new: a channel has at least one slot.
queue_depth == IF QueueDepth < 1 THEN 1 ELSE QueueDepth

Frame == [index : 0 .. MaxIndex, final : BOOLEAN]

\* Generating is entered and left in one critical section; Received and
\* Failed are never entered.
RequestState == {"Scheduled", "Streaming", "Complete", "Cancelled"}
is_terminal(s) == s \in {"Complete", "Cancelled"}

\* sender: the entry still owns its Sender.  last: last_frame_index, -1 for
\* None.  chan: which channel belongs to the entry.
NoEntry == [state |-> "None", sender |-> FALSE, last |-> -1, chan |-> 0]
Entry == [state : RequestState, sender : BOOLEAN, last : -1 .. MaxIndex, chan : Nat]

\* sent: every frame try_send() accepted; the first `taken' of them were
\* received.  rx: the Receiver is parked in the entry, held by a subscriber,
\* dropped, or has reported end-of-stream.
Channel == [sent : Seq(Frame), taken : Nat, rx : {"parked", "held", "dropped", "ended"}]
NewChannel == [sent |-> <<>>, taken |-> 0, rx |-> "parked"]

buffered(ch) == Len(ch.sent) - ch.taken

Idle == [op |-> "idle"]

\* A call that has passed ensure_open(), before its first lock of `requests'.
Calls ==
    [op : {"accept", "subscribe", "cancel"}, id : Ids]
      \cup [op : {"push"}, id : Ids, frame : Frame]

\* The rest of a call after its first critical section.
Rest ==
    [op : {"submit", "unschedule"}, id : Ids]
      \cup [op : {"send", "finish"}, id : Ids, frame : Frame, chan : Nat]

Init ==
    /\ requests = [id \in Ids |-> NoEntry]
    /\ channels = <<>>
    /\ shutting_down = FALSE
    /\ call = [t \in Threads |-> Idle]
    /\ scheduled = {}

Return(t) == call' = [call EXCEPT ![t] = Idle]

\* Somebody owns a Sender of channel n: its entry, or a push_frame() that
\* cloned it and has not returned.
Open(n) ==
    \/ \E id \in Ids : requests[id].chan = n /\ requests[id].sender
    \/ \E t \in Threads : call[t].op \in {"send", "finish"} /\ call[t].chan = n

(***************************************************************************)
(* ensure_open(): every operation starts here.  ShuttingDown changes       *)
(* nothing, so only an open router takes the step.                         *)
(***************************************************************************)
Pushing(id) ==
    \E t \in Threads : call[t].op \in {"push", "send", "finish"} /\ call[t].id = id

accepting == {t \in Threads : call[t].op = "accept"}

EnsureOpen(t, c) ==
    /\ call[t] = Idle
    /\ ~ shutting_down
    /\ (DriverPush /\ c.op = "push") => c.id \in scheduled /\ ~ Pushing(c.id)
    /\ c.op = "accept" => Len(channels) + Cardinality(accepting) < MaxAccepts
    /\ call' = [call EXCEPT ![t] = c]
    /\ UNCHANGED <<requests, channels, shutting_down, scheduled>>

(***************************************************************************)
(* accept()                                                                *)
(***************************************************************************)
AcceptDuplicate(t) ==
    /\ call[t].op = "accept"
    /\ requests[call[t].id] # NoEntry
    /\ Return(t)
    /\ UNCHANGED <<requests, channels, shutting_down, scheduled>>

AcceptInsert(t) ==
    /\ call[t].op = "accept"
    /\ requests[call[t].id] = NoEntry
    /\ channels' = Append(channels, NewChannel)
    /\ requests' = [requests EXCEPT ![call[t].id] =
                        [state |-> "Scheduled", sender |-> TRUE, last |-> -1,
                         chan |-> Len(channels) + 1]]
    /\ call' = [call EXCEPT ![t] = [op |-> "submit", id |-> call[t].id]]
    /\ UNCHANGED <<shutting_down, scheduled>>

AcceptSubmitted(t) ==
    /\ call[t].op = "submit"
    /\ scheduled' = scheduled \cup {call[t].id}
    /\ Return(t)
    /\ UNCHANGED <<requests, channels, shutting_down>>

\* scheduler.submit failed: the entry is removed, whatever became of it in
\* the meantime, and a receiver still parked in it is dropped.
AcceptRollback(t) ==
    /\ call[t].op = "submit"
    /\ LET n == requests[call[t].id].chan
       IN  channels' = IF n # 0 /\ channels[n].rx = "parked"
                         THEN [channels EXCEPT ![n].rx = "dropped"]
                         ELSE channels
    /\ requests' = [requests EXCEPT ![call[t].id] = NoEntry]
    /\ Return(t)
    /\ UNCHANGED <<shutting_down, scheduled>>

(***************************************************************************)
(* push_frame()                                                            *)
(***************************************************************************)
\* The request is live and the frame is ahead of the last one.
Pushable(e, f) == e.state \in {"Scheduled", "Streaming"} /\ f.index > e.last

\* An unknown id, a terminal state or an index that does not advance: an
\* error, and nothing changes.
PushRefused(t) ==
    /\ call[t].op = "push"
    /\ ~ Pushable(requests[call[t].id], call[t].frame)
    /\ Return(t)
    /\ UNCHANGED <<requests, channels, shutting_down, scheduled>>

\* Mutant: an index equal to the last one passes.
PushValidateRepeat(t) ==
    /\ call[t].op = "push"
    /\ LET e == requests[call[t].id]
       IN  /\ e.state \in {"Scheduled", "Streaming"}
           /\ call[t].frame.index >= e.last
           /\ requests' = [requests EXCEPT ![call[t].id].state = "Streaming",
                                           ![call[t].id].last = call[t].frame.index]
           /\ call' = [call EXCEPT ![t] =
                          [op |-> "send", id |-> call[t].id, frame |-> call[t].frame,
                           chan |-> e.chan]]
    /\ UNCHANGED <<channels, shutting_down, scheduled>>

\* Mutant: a final frame completes the request before it is sent.
PushValidateCompletes(t) ==
    /\ call[t].op = "push"
    /\ LET e == requests[call[t].id]
           f == call[t].frame
       IN  /\ e.state \in {"Scheduled", "Streaming"}
           /\ f.index > e.last
           /\ requests' = [requests EXCEPT ![call[t].id] =
                  [e EXCEPT !.state = IF f.final THEN "Complete" ELSE "Streaming",
                            !.sender = ~ f.final, !.last = f.index]]
           /\ call' = [call EXCEPT ![t] =
                          [op |-> "send", id |-> call[t].id, frame |-> f, chan |-> e.chan]]
    /\ UNCHANGED <<channels, shutting_down, scheduled>>

\* Phase 1: a first frame moves the entry through Generating to Streaming;
\* last_frame_index advances before anything is sent.
PushValidate(t) ==
    /\ call[t].op = "push"
    /\ LET e == requests[call[t].id]
       IN  /\ Pushable(e, call[t].frame)
           /\ requests' = [requests EXCEPT ![call[t].id].state = "Streaming",
                                           ![call[t].id].last = call[t].frame.index]
           /\ call' = [call EXCEPT ![t] =
                          [op |-> "send", id |-> call[t].id, frame |-> call[t].frame,
                           chan |-> e.chan]]
    /\ UNCHANGED <<channels, shutting_down, scheduled>>

\* Phase 2: try_send() without the lock.
PushBackpressure(t) ==
    /\ call[t].op = "send"
    /\ channels[call[t].chan].rx \in {"parked", "held"}
    /\ buffered(channels[call[t].chan]) >= queue_depth
    /\ Return(t)
    /\ UNCHANGED <<requests, channels, shutting_down, scheduled>>

PushClosed(t) ==
    /\ call[t].op = "send"
    /\ channels[call[t].chan].rx \in {"dropped", "ended"}
    /\ Return(t)
    /\ UNCHANGED <<requests, channels, shutting_down, scheduled>>

PushSend(t) ==
    /\ call[t].op = "send"
    /\ LET ch == channels[call[t].chan]
       IN  /\ ch.rx \in {"parked", "held"}
           /\ buffered(ch) < queue_depth
           /\ channels' = [channels EXCEPT ![call[t].chan].sent = Append(@, call[t].frame)]
    /\ IF call[t].frame.final
         THEN call' = [call EXCEPT ![t].op = "finish"]
         ELSE Return(t)
    /\ UNCHANGED <<requests, shutting_down, scheduled>>

\* Mutant: the entry keeps its Sender after the final frame.
PushFinishKeepsSender(t) ==
    /\ call[t].op = "finish"
    /\ requests' = IF requests[call[t].id] = NoEntry
                     THEN requests
                     ELSE [requests EXCEPT ![call[t].id].state = "Complete"]
    /\ Return(t)
    /\ UNCHANGED <<channels, shutting_down, scheduled>>

\* Phase 3: the state is not looked at again.
PushFinish(t) ==
    /\ call[t].op = "finish"
    /\ requests' = IF requests[call[t].id] = NoEntry
                     THEN requests
                     ELSE [requests EXCEPT ![call[t].id].state = "Complete",
                                           ![call[t].id].sender = FALSE]
    /\ Return(t)
    /\ UNCHANGED <<channels, shutting_down, scheduled>>

(***************************************************************************)
(* subscribe(), and the stream it returns.                                 *)
(***************************************************************************)
SubscribeTake(t) ==
    /\ call[t].op = "subscribe"
    /\ LET n == requests[call[t].id].chan
       IN  /\ requests[call[t].id] # NoEntry
           /\ channels[n].rx = "parked"
           /\ channels' = [channels EXCEPT ![n].rx = "held"]
    /\ Return(t)
    /\ UNCHANGED <<requests, shutting_down, scheduled>>

SubscribeUnknown(t) ==
    /\ call[t].op = "subscribe"
    /\ requests[call[t].id] # NoEntry => channels[requests[call[t].id].chan].rx # "parked"
    /\ Return(t)
    /\ UNCHANGED <<requests, channels, shutting_down, scheduled>>

\* PyFrameStream.__anext__: a frame, or end-of-stream once every Sender is
\* gone and the buffer is empty.
StreamRecv(n) ==
    /\ channels[n].rx = "held"
    /\ buffered(channels[n]) > 0
    /\ channels' = [channels EXCEPT ![n].taken = @ + 1]
    /\ UNCHANGED <<requests, shutting_down, call, scheduled>>

StreamEnd(n) ==
    /\ channels[n].rx = "held"
    /\ buffered(channels[n]) = 0
    /\ ~ Open(n)
    /\ channels' = [channels EXCEPT ![n].rx = "ended"]
    /\ UNCHANGED <<requests, shutting_down, call, scheduled>>

\* The subscriber goes away and its stream is dropped.
StreamDrop(n) ==
    /\ channels[n].rx = "held"
    /\ channels' = [channels EXCEPT ![n].rx = "dropped"]
    /\ UNCHANGED <<requests, shutting_down, call, scheduled>>

(***************************************************************************)
(* cancel(): mark the entry and drop both channel ends it owns, then tell  *)
(* the scheduler, whose answer is only logged.                             *)
(***************************************************************************)
CancelReject(t) ==
    /\ call[t].op = "cancel"
    /\ \/ requests[call[t].id] = NoEntry
       \/ is_terminal(requests[call[t].id].state)
    /\ Return(t)
    /\ UNCHANGED <<requests, channels, shutting_down, scheduled>>

CancelMark(t) ==
    /\ call[t].op = "cancel"
    /\ LET e == requests[call[t].id]
       IN  /\ e.state \in {"Scheduled", "Streaming"}
           /\ requests' = [requests EXCEPT ![call[t].id].state = "Cancelled",
                                           ![call[t].id].sender = FALSE]
           /\ channels' = IF channels[e.chan].rx = "parked"
                            THEN [channels EXCEPT ![e.chan].rx = "dropped"]
                            ELSE channels
    /\ call' = [call EXCEPT ![t] = [op |-> "unschedule", id |-> call[t].id]]
    /\ UNCHANGED <<shutting_down, scheduled>>

CancelNotified(t) ==
    /\ call[t].op = "unschedule"
    /\ Return(t)
    /\ UNCHANGED <<requests, channels, shutting_down, scheduled>>

\* shutdown(): the flag and nothing else.
Shutdown ==
    /\ shutting_down' = TRUE
    /\ UNCHANGED <<requests, channels, call, scheduled>>

AcceptStep(t) ==
    AcceptDuplicate(t) \/ AcceptInsert(t) \/ AcceptSubmitted(t) \/ AcceptRollback(t)

PushStep(t) ==
    \/ PushRefused(t) \/ PushValidate(t)
    \/ PushBackpressure(t) \/ PushClosed(t) \/ PushSend(t)
    \/ PushFinish(t)

CallStep(t) ==
    \/ AcceptStep(t) \/ PushStep(t)
    \/ SubscribeTake(t) \/ SubscribeUnknown(t)
    \/ CancelReject(t) \/ CancelMark(t) \/ CancelNotified(t)

StreamStep(n) == StreamRecv(n) \/ StreamEnd(n)

Next ==
    \/ \E t \in Threads : (\E c \in Calls : EnsureOpen(t, c)) \/ CallStep(t)
    \/ \E n \in DOMAIN channels : StreamStep(n) \/ StreamDrop(n)
    \/ Shutdown

Spec == Init /\ [][Next]_vars

\* A call that has begun runs to its end, and a subscriber keeps reading.
Fairness ==
    /\ \A t \in Threads : WF_vars(CallStep(t))
    /\ \A n \in 1 .. MaxAccepts : WF_vars(n \in DOMAIN channels /\ StreamStep(n))

LiveSpec == Spec /\ Fairness

(***************************************************************************)
(* Properties.                                                             *)
(***************************************************************************)

\* Type invariant: every entry's channel exists, every call is at a place
\* the code has.
TypeOK ==
    /\ requests \in [Ids -> Entry \cup {NoEntry}]
    /\ channels \in Seq(Channel)
    /\ shutting_down \in BOOLEAN
    /\ call \in [Threads -> {Idle} \cup Calls \cup Rest]
    /\ scheduled \subseteq Ids
    /\ \A id \in Ids : requests[id] # NoEntry => requests[id].chan \in DOMAIN channels
    /\ \A t \in Threads : call[t].op \in {"send", "finish"} => call[t].chan \in DOMAIN channels
    /\ \A n \in DOMAIN channels : channels[n].taken <= Len(channels[n].sent)

\* "The frame is forwarded, in order, to the per-request channel": what a
\* subscriber is sent has increasing indices and nothing after a final frame,
\* although the send happens outside the lock that checked the index.
StreamWellFormed ==
    \A n \in DOMAIN channels :
        LET sent == channels[n].sent
        IN  \A i, j \in DOMAIN sent :
                i < j => sent[i].index < sent[j].index /\ ~ sent[i].final

\* A subscriber that saw end-of-stream saw the end of the request: the entry
\* is terminal, and if it is Complete the subscriber got every frame and the
\* last one was final.  Cancellation, rollback and a push that is still in
\* its last phase must not end the stream early.
EndOfStreamIsTruthful ==
    \A n \in DOMAIN channels : channels[n].rx = "ended" =>
        /\ channels[n].taken = Len(channels[n].sent)
        /\ \A id \in Ids : requests[id].chan = n =>
              /\ is_terminal(requests[id].state)
              /\ requests[id].state = "Complete" =>
                    channels[n].sent # <<>> /\ channels[n].sent[Len(channels[n].sent)].final

\* A subscriber holds the stream of channel n and has not seen its end.
Waiting(n) == n \in DOMAIN channels /\ channels[n].rx = "held"

\* "Any active subscriber sees end-of-stream": when the entry is terminal or
\* was rolled back, its subscriber does not wait for ever.
FinishedStreamsEnd ==
    \A n \in 1 .. MaxAccepts :
        (Waiting(n) /\ \A id \in Ids : requests[id].chan = n => is_terminal(requests[id].state))
          ~> ~ Waiting(n)
=============================================================================
