----------------------------- MODULE RouterProofs -----------------------------
(***************************************************************************)
(* Machine-checked facts about Router, for every set of ids and threads,   *)
(* every queue depth and every bound: the type invariant whoever pushes,   *)
(* and what a subscriber sees when only the engine driver does.            *)
(***************************************************************************)
EXTENDS Router, SequenceTheorems, TLAPS

(***************************************************************************)
(* The inductive invariant                                                 *)
(***************************************************************************)
Live(id) == requests[id].state \in {"Scheduled", "Streaming"}
sentTo(n) == channels[n].sent
PushPcs == {"push", "send", "finish"}

\* A thread that waits for scheduler.submit() owns the entry it inserted: the
\* id is not scheduled yet and nobody else waits for it.
SubmitOwnsEntry(t) == call[t].op = "submit" =>
    /\ requests[call[t].id] # NoEntry
    /\ call[t].id \notin scheduled
    /\ \A u \in Threads : call[u].op = "submit" /\ call[u].id = call[t].id => u = t

\* The driver pushes for scheduled ids, one push of an id at a time.
DriverOwnsPush(t) == call[t].op \in PushPcs =>
    /\ call[t].id \in scheduled
    /\ \A u \in Threads : call[u].op \in PushPcs /\ call[u].id = call[t].id => u = t

\* A scheduled id keeps its entry, a live entry its Sender, and no two entries
\* share a channel.
EntryKept(id) ==
    /\ id \in scheduled => requests[id] # NoEntry
    /\ requests[id] # NoEntry => (requests[id].sender <=> Live(id))
    /\ \A other \in Ids : requests[id].chan # 0 /\ requests[other].chan = requests[id].chan
                            => other = id

Ownership ==
    /\ \A t \in Threads : SubmitOwnsEntry(t) /\ DriverOwnsPush(t)
    /\ \A id \in Ids : EntryKept(id)

\* last_frame_index is ahead of the channel, a final frame in it is the last
\* act of a push that has completed the entry or is about to.
EntryMatchesChannel(id) == requests[id] # NoEntry =>
    LET sent == sentTo(requests[id].chan)
    IN  /\ \A i \in 1 .. Len(sent) : sent[i].index <= requests[id].last
        /\ \A i \in 1 .. Len(sent) : sent[i].final =>
              \/ requests[id].state = "Complete"
              \/ \E t \in Threads : call[t].op = "finish" /\ call[t].id = id
        /\ requests[id].state = "Complete" => sent # <<>> /\ sent[Len(sent)].final

\* A push between its phases holds the channel of its entry; the frame it has
\* to send comes after all that were sent, the one it has sent was final.
SendIsNext(t) == call[t].op = "send" =>
    LET sent == sentTo(call[t].chan)
    IN  /\ call[t].chan = requests[call[t].id].chan
        /\ requests[call[t].id].state # "Complete"
        /\ requests[call[t].id].last = call[t].frame.index
        /\ \A i \in 1 .. Len(sent) : sent[i].index < call[t].frame.index /\ ~ sent[i].final

FinishIsLast(t) == call[t].op = "finish" =>
    LET sent == sentTo(call[t].chan)
    IN  /\ call[t].chan = requests[call[t].id].chan
        /\ sent # <<>> /\ sent[Len(sent)].final

Contents ==
    /\ \A id \in Ids : EntryMatchesChannel(id)
    /\ \A t \in Threads : SendIsNext(t) /\ FinishIsLast(t)

\* An ended channel was read to its end and can get no new Sender.
Ended(n) == channels[n].rx = "ended" =>
    channels[n].taken = Len(channels[n].sent) /\ ~ Open(n)
EndedForGood == \A n \in DOMAIN channels : Ended(n)

Inv == TypeOK /\ Ownership /\ Contents /\ StreamWellFormed /\ EndedForGood

(***************************************************************************)
(* Types                                                                   *)
(***************************************************************************)
\* A channel that is changed in place leaves the others as they were.
LEMMA ChangeOneChannel ==
    ASSUME channels \in Seq(Channel), NEW n \in DOMAIN channels, NEW ch \in Channel,
           channels' = [channels EXCEPT ![n] = ch]
    PROVE  /\ channels' \in Seq(Channel)
           /\ DOMAIN channels' = DOMAIN channels
           /\ Len(channels') = Len(channels)
           /\ channels'[n] = ch
           /\ \A m \in DOMAIN channels : m # n => channels'[m] = channels[m]
<1>1. n \in 1 .. Len(channels)
  OBVIOUS
<1>2. QED  BY <1>1, ExceptSeq

\* A channel that is added comes after the others.
LEMMA AddChannel ==
    ASSUME channels \in Seq(Channel), channels' = Append(channels, NewChannel)
    PROVE  /\ channels' \in Seq(Channel)
           /\ Len(channels') = Len(channels) + 1
           /\ DOMAIN channels' = DOMAIN channels \cup {Len(channels) + 1}
           /\ channels'[Len(channels) + 1] = NewChannel
           /\ \A m \in DOMAIN channels : channels'[m] = channels[m]
<1>1. NewChannel \in Channel
  BY DEF NewChannel, Channel
<1>2. QED  BY <1>1

\* What the type invariant says of one thread's call.
LEMMA CallTypes ==
    ASSUME TypeOK, NEW t \in Threads
    PROVE  /\ call[t].op \in {"accept", "subscribe", "cancel", "submit", "unschedule"}
                => call[t].id \in Ids
           /\ call[t].op = "push" => call[t].id \in Ids /\ call[t].frame \in Frame
           /\ call[t].op \in {"send", "finish"} =>
                 /\ call[t].id \in Ids /\ call[t].frame \in Frame /\ call[t].chan \in Nat
                 /\ call[t].chan \in DOMAIN channels
                 /\ channels[call[t].chan] \in Channel
<1>1. call[t] \in {Idle} \cup Calls \cup Rest
  BY DEF TypeOK
<1>2. call[t].op \in {"send", "finish"} => call[t].chan \in DOMAIN channels
  BY DEF TypeOK
<1>3. channels \in Seq(Channel)
  BY DEF TypeOK
<1>4. call[t].op \in {"send", "finish"} => channels[call[t].chan] \in Channel
  BY <1>2, <1>3
<1>5. CASE call[t] = Idle
  BY <1>5 DEF Idle
<1>6. CASE call[t] \in Calls
  BY <1>6 DEF Calls
<1>7. CASE call[t] \in Rest
  BY <1>2, <1>4, <1>7 DEF Rest
<1>8. QED  BY <1>1, <1>5, <1>6, <1>7

\* What it says of one id's entry.
LEMMA EntryTypes ==
    ASSUME TypeOK, NEW id \in Ids
    PROVE  /\ requests[id] = NoEntry \/ requests[id] \in Entry
           /\ requests[id] = NoEntry => requests[id].chan = 0 /\ requests[id].state = "None"
           /\ requests[id].chan \in Nat
           /\ requests[id] # NoEntry =>
                 /\ requests[id] \in Entry /\ requests[id].state \in RequestState
                 /\ requests[id].chan \in DOMAIN channels
                 /\ requests[id].chan \in 1 .. Len(channels)
                 /\ channels[requests[id].chan] \in Channel
<1>1. requests[id] \in Entry \cup {NoEntry} /\ channels \in Seq(Channel)
  BY DEF TypeOK
<1>2. requests[id] # NoEntry => requests[id].chan \in DOMAIN channels
  BY DEF TypeOK
<1>3. requests[id] = NoEntry => requests[id].chan = 0 /\ requests[id].state = "None"
  BY DEF NoEntry
<1>4. requests[id].chan \in Nat
  BY <1>1, <1>3 DEF Entry
<1>5. DOMAIN channels = 1 .. Len(channels)
  BY <1>1
<1>6. QED  BY <1>1, <1>2, <1>3, <1>4, <1>5 DEF Entry

\* A call that returns, or goes to its next place, is at a place the code has.
LEMMA CallMoves ==
    ASSUME TypeOK, NEW t \in Threads, NEW c \in {Idle} \cup Calls \cup Rest,
           c.op \in {"send", "finish"} => c.chan \in DOMAIN channels,
           call' = [call EXCEPT ![t] = c], DOMAIN channels \subseteq DOMAIN channels'
    PROVE  /\ call' \in [Threads -> {Idle} \cup Calls \cup Rest]
           /\ \A u \in Threads :
                call'[u].op \in {"send", "finish"} => call'[u].chan \in DOMAIN channels'
BY DEF TypeOK

\* An entry that is changed has a channel that exists.
LEMMA EntryMoves ==
    ASSUME TypeOK, NEW id \in Ids, NEW e \in Entry \cup {NoEntry},
           requests' = [requests EXCEPT ![id] = e], DOMAIN channels \subseteq DOMAIN channels',
           e # NoEntry => e.chan \in DOMAIN channels'
    PROVE  /\ requests' \in [Ids -> Entry \cup {NoEntry}]
           /\ \A i \in Ids : requests'[i] # NoEntry => requests'[i].chan \in DOMAIN channels'
BY DEF TypeOK

\* A step that changes one channel leaves every channel well typed, and none
\* with more frames received than sent.
LEMMA ChannelMoves ==
    ASSUME TypeOK, NEW n \in DOMAIN channels, NEW ch \in Channel, ch.taken <= Len(ch.sent),
           channels' = [channels EXCEPT ![n] = ch]
    PROVE  /\ channels' \in Seq(Channel)
           /\ DOMAIN channels' = DOMAIN channels
           /\ \A m \in DOMAIN channels' : channels'[m].taken <= Len(channels'[m].sent)
<1>1. channels \in Seq(Channel) /\ \A m \in DOMAIN channels : channels[m].taken <= Len(channels[m].sent)
  BY DEF TypeOK
<1>2. QED  BY <1>1, ChangeOneChannel

\* The steps of accept() keep the types.
LEMMA TypeAccept ==
    ASSUME TypeOK, NEW t \in Threads, AcceptStep(t)
    PROVE  TypeOK'
<1>1. Idle \in {Idle} \cup Calls \cup Rest /\ Idle.op = "idle"
  BY DEF Idle
<1>2. CASE AcceptDuplicate(t)
  BY <1>1, <1>2, CallMoves DEF AcceptDuplicate, Return, TypeOK
<1>3. CASE AcceptInsert(t)
  <2>1. channels \in Seq(Channel) /\ call[t].id \in Ids
    BY <1>3, CallTypes DEF AcceptInsert, TypeOK
  <2> DEFINE c == [op |-> "submit", id |-> call[t].id]
             e == [state |-> "Scheduled", sender |-> TRUE, last |-> -1,
                   chan |-> Len(channels) + 1]
  <2>2. c \in {Idle} \cup Calls \cup Rest /\ c.op = "submit"
    BY <2>1 DEF Rest
  <2>3. e \in Entry /\ e.chan = Len(channels) + 1
    BY <2>1, RouterAssumption DEF Entry, RequestState
  <2>4. channels' = Append(channels, NewChannel)
    BY <1>3 DEF AcceptInsert
  <2>5. DOMAIN channels' = DOMAIN channels \cup {Len(channels) + 1}
    BY <2>1, <2>4, AddChannel
  <2>6. \A n \in DOMAIN channels' : channels'[n].taken <= Len(channels'[n].sent)
    BY <2>1, <2>4, AddChannel DEF TypeOK, NewChannel
  <2>7. requests' = [requests EXCEPT ![call[t].id] = e] /\ call' = [call EXCEPT ![t] = c]
    BY <1>3 DEF AcceptInsert
  <2> HIDE DEF c, e
  <2>8. /\ requests' \in [Ids -> Entry \cup {NoEntry}]
        /\ \A i \in Ids : requests'[i] # NoEntry => requests'[i].chan \in DOMAIN channels'
    BY <2>1, <2>3, <2>5, <2>7, EntryMoves
  <2>9. /\ call' \in [Threads -> {Idle} \cup Calls \cup Rest]
        /\ \A u \in Threads :
              call'[u].op \in {"send", "finish"} => call'[u].chan \in DOMAIN channels'
    BY <2>2, <2>5, <2>7, CallMoves
  <2>10. channels' \in Seq(Channel)
    BY <2>1, <2>4, AddChannel
  <2>11. QED  BY <1>3, <2>6, <2>8, <2>9, <2>10 DEF AcceptInsert, TypeOK
<1>4. CASE AcceptSubmitted(t)
  BY <1>1, <1>4, CallMoves, CallTypes DEF AcceptSubmitted, Return, TypeOK
<1>5. CASE AcceptRollback(t)
  <2> DEFINE id == call[t].id
             n == requests[id].chan
             ch == [channels[n] EXCEPT !.rx = "dropped"]
  <2>1. id \in Ids
    BY <1>5, CallTypes DEF AcceptRollback
  <2>2. CASE n # 0 /\ channels[n].rx = "parked"
    <3>1. n \in DOMAIN channels /\ channels[n] \in Channel /\ channels[n].taken <= Len(channels[n].sent)
      BY <2>1, <2>2, EntryTypes DEF TypeOK
    <3>2. ch \in Channel /\ ch.taken <= Len(ch.sent)
      BY <3>1 DEF Channel
    <3>3. channels' = [channels EXCEPT ![n] = ch]
      BY <1>5, <2>2 DEF AcceptRollback
    <3>4. /\ channels' \in Seq(Channel) /\ DOMAIN channels' = DOMAIN channels
          /\ \A m \in DOMAIN channels' : channels'[m].taken <= Len(channels'[m].sent)
      BY <3>1, <3>2, <3>3, ChannelMoves
    <3>5. QED
      BY <1>1, <1>5, <2>1, <3>4, CallMoves, EntryMoves DEF AcceptRollback, Return, TypeOK
  <2>3. CASE ~(n # 0 /\ channels[n].rx = "parked")
    <3>1. channels' = channels
      BY <1>5, <2>3 DEF AcceptRollback
    <3>2. QED
      BY <1>1, <1>5, <2>1, <3>1, CallMoves, EntryMoves DEF AcceptRollback, Return, TypeOK
  <2>4. QED  BY <2>2, <2>3
<1>6. QED  BY <1>2, <1>3, <1>4, <1>5 DEF AcceptStep

\* The phases of push_frame() keep the types.
LEMMA TypePush ==
    ASSUME TypeOK, NEW t \in Threads, PushStep(t)
    PROVE  TypeOK'
<1>1. Idle \in {Idle} \cup Calls \cup Rest /\ Idle.op = "idle"
  BY DEF Idle
<1>2. CASE PushRefused(t) \/ PushBackpressure(t) \/ PushClosed(t)
  BY <1>1, <1>2, CallMoves DEF PushRefused, PushBackpressure, PushClosed, Return, TypeOK
<1>3. CASE PushValidate(t)
  <2> DEFINE id == call[t].id
             e == [requests[id] EXCEPT !.state = "Streaming", !.last = call[t].frame.index]
             c == [op |-> "send", id |-> id, frame |-> call[t].frame, chan |-> requests[id].chan]
  <2>1. id \in Ids /\ call[t].frame \in Frame /\ requests[id].state \in {"Scheduled", "Streaming"}
    BY <1>3, CallTypes DEF PushValidate, Pushable
  <2>2. requests[id] \in Entry /\ requests[id].chan \in DOMAIN channels /\ requests[id].chan \in Nat
    BY <2>1, EntryTypes DEF NoEntry
  <2>3. e \in Entry /\ e.chan = requests[id].chan
    <3>1. call[t].frame.index \in -1 .. MaxIndex
      BY <2>1, RouterAssumption DEF Frame
    <3>2. [requests[id] EXCEPT !.state = "Streaming"] \in Entry
      BY <2>2 DEF Entry, RequestState
    <3>3. QED  BY <2>2, <3>1, <3>2 DEF Entry
  <2>4. c \in {Idle} \cup Calls \cup Rest /\ c.chan \in DOMAIN channels
    BY <2>1, <2>2 DEF Rest
  <2>5. requests' = [requests EXCEPT ![id] = e] /\ call' = [call EXCEPT ![t] = c]
    BY <1>3, <2>1 DEF PushValidate, TypeOK
  <2> HIDE DEF c, e, id
  <2>6. channels' = channels /\ shutting_down' = shutting_down /\ scheduled' = scheduled
    BY <1>3 DEF PushValidate
  <2>7. /\ requests' \in [Ids -> Entry \cup {NoEntry}]
        /\ \A i \in Ids : requests'[i] # NoEntry => requests'[i].chan \in DOMAIN channels'
    BY <2>1, <2>2, <2>3, <2>5, <2>6, EntryMoves
  <2>8. /\ call' \in [Threads -> {Idle} \cup Calls \cup Rest]
        /\ \A u \in Threads :
              call'[u].op \in {"send", "finish"} => call'[u].chan \in DOMAIN channels'
    BY <2>4, <2>5, <2>6, CallMoves
  <2>9. QED  BY <2>6, <2>7, <2>8 DEF TypeOK
<1>4. CASE PushSend(t)
  <2> DEFINE n == call[t].chan
             f == call[t].frame
             ch == [channels[n] EXCEPT !.sent = Append(@, f)]
             c == IF f.final THEN [call[t] EXCEPT !.op = "finish"] ELSE Idle
  <2>1. /\ call[t].id \in Ids /\ f \in Frame /\ n \in Nat /\ n \in DOMAIN channels
        /\ channels[n] \in Channel /\ channels[n].taken <= Len(channels[n].sent)
    BY <1>4, CallTypes DEF PushSend, TypeOK
  <2>2. ch \in Channel /\ Len(ch.sent) = Len(channels[n].sent) + 1 /\ ch.taken = channels[n].taken
    <3>1. channels[n].sent \in Seq(Frame)
      BY <2>1 DEF Channel
    <3>2. Append(channels[n].sent, f) \in Seq(Frame)
          /\ Len(Append(channels[n].sent, f)) = Len(channels[n].sent) + 1
      BY <2>1, <3>1
    <3>3. QED  BY <2>1, <3>2 DEF Channel
  <2>3. ch.taken <= Len(ch.sent)
    BY <2>1, <2>2 DEF Channel
  <2>4. channels' = [channels EXCEPT ![n] = ch]
    BY <1>4 DEF PushSend
  <2>5. call[t] \in Rest
    BY <1>4 DEF PushSend, TypeOK, Calls, Idle
  <2>6. /\ [call[t] EXCEPT !.op = "finish"] \in Rest
        /\ c.op \in {"send", "finish"} => c.chan = n
    BY <1>4, <2>5 DEF PushSend, Rest, Idle
  <2>7. call' = [call EXCEPT ![t] = c]
    BY <1>4 DEF PushSend, Return, TypeOK
  <2>8. c \in {Idle} \cup Calls \cup Rest
    BY <1>4, <2>5, <2>6 DEF PushSend, Rest
  <2> HIDE DEF c, ch
  <2>9. /\ channels' \in Seq(Channel) /\ DOMAIN channels' = DOMAIN channels
        /\ \A m \in DOMAIN channels' : channels'[m].taken <= Len(channels'[m].sent)
    BY <2>1, <2>2, <2>3, <2>4, ChannelMoves
  <2>10. /\ call' \in [Threads -> {Idle} \cup Calls \cup Rest]
         /\ \A u \in Threads :
              call'[u].op \in {"send", "finish"} => call'[u].chan \in DOMAIN channels'
    BY <2>1, <2>6, <2>7, <2>8, <2>9, CallMoves
  <2>11. QED  BY <1>4, <2>9, <2>10 DEF PushSend, TypeOK
<1>5. CASE PushFinish(t)
  <2> DEFINE id == call[t].id
             e == IF requests[id] = NoEntry THEN NoEntry
                  ELSE [requests[id] EXCEPT !.state = "Complete", !.sender = FALSE]
  <2>1. id \in Ids
    BY <1>5, CallTypes DEF PushFinish
  <2>2. e \in Entry \cup {NoEntry} /\ (e # NoEntry => e.chan \in DOMAIN channels)
    BY <2>1, EntryTypes DEF Entry, RequestState
  <2>3. requests' = [requests EXCEPT ![id] = e]
    BY <1>5, <2>1 DEF PushFinish, TypeOK
  <2> HIDE DEF e
  <2>4. channels' = channels
    BY <1>5 DEF PushFinish
  <2>5. /\ requests' \in [Ids -> Entry \cup {NoEntry}]
        /\ \A i \in Ids : requests'[i] # NoEntry => requests'[i].chan \in DOMAIN channels'
    BY <2>1, <2>2, <2>3, <2>4, EntryMoves
  <2>6. QED  BY <1>1, <1>5, <2>4, <2>5, CallMoves DEF PushFinish, Return, TypeOK
<1>6. QED  BY <1>2, <1>3, <1>4, <1>5 DEF PushStep

\* subscribe(), cancel() and the operations that only read keep the types.
LEMMA TypeOthers ==
    ASSUME TypeOK, NEW t \in Threads,
           \/ SubscribeTake(t) \/ SubscribeUnknown(t)
           \/ CancelReject(t) \/ CancelMark(t) \/ CancelNotified(t)
    PROVE  TypeOK'
<1>1. Idle \in {Idle} \cup Calls \cup Rest /\ Idle.op = "idle"
  BY DEF Idle
<1> DEFINE id == call[t].id
           n == requests[id].chan
<1>2. CASE SubscribeTake(t)
  <2> DEFINE ch == [channels[n] EXCEPT !.rx = "held"]
  <2>1. n \in DOMAIN channels /\ channels[n] \in Channel /\ channels[n].taken <= Len(channels[n].sent)
    BY <1>2, CallTypes, EntryTypes DEF SubscribeTake, TypeOK
  <2>2. ch \in Channel /\ ch.taken <= Len(ch.sent)
    BY <2>1 DEF Channel
  <2>3. channels' = [channels EXCEPT ![n] = ch]
    BY <1>2 DEF SubscribeTake
  <2>4. /\ channels' \in Seq(Channel) /\ DOMAIN channels' = DOMAIN channels
        /\ \A m \in DOMAIN channels' : channels'[m].taken <= Len(channels'[m].sent)
    BY <2>1, <2>2, <2>3, ChannelMoves
  <2>5. QED  BY <1>1, <1>2, <2>4, CallMoves DEF SubscribeTake, Return, TypeOK
<1>3. CASE SubscribeUnknown(t) \/ CancelReject(t) \/ CancelNotified(t)
  BY <1>1, <1>3, CallMoves DEF SubscribeUnknown, CancelReject, CancelNotified, Return, TypeOK
<1>4. CASE CancelMark(t)
  <2> DEFINE ch == [channels[n] EXCEPT !.rx = "dropped"]
             e == [requests[id] EXCEPT !.state = "Cancelled", !.sender = FALSE]
             c == [op |-> "unschedule", id |-> id]
  <2>1. id \in Ids /\ requests[id].state \in {"Scheduled", "Streaming"}
    BY <1>4, CallTypes DEF CancelMark
  <2>2. /\ requests[id] \in Entry /\ n \in DOMAIN channels /\ channels[n] \in Channel
        /\ channels[n].taken <= Len(channels[n].sent)
    BY <2>1, EntryTypes DEF NoEntry, TypeOK
  <2>3. ch \in Channel /\ ch.taken <= Len(ch.sent) /\ e \in Entry /\ e.chan = n
    BY <2>2 DEF Channel, Entry, RequestState
  <2>4. c \in {Idle} \cup Calls \cup Rest /\ c.op = "unschedule"
    BY <2>1 DEF Rest
  <2>5. /\ requests' = [requests EXCEPT ![id] = e] /\ call' = [call EXCEPT ![t] = c]
        /\ channels' = [channels EXCEPT ![n] = ch] \/ channels' = channels
    BY <1>4, <2>1 DEF CancelMark, TypeOK
  <2> HIDE DEF c, e, ch, n, id
  <2>6. /\ channels' \in Seq(Channel) /\ DOMAIN channels' = DOMAIN channels
        /\ \A m \in DOMAIN channels' : channels'[m].taken <= Len(channels'[m].sent)
    BY <2>2, <2>3, <2>5, ChannelMoves DEF TypeOK
  <2>7. /\ requests' \in [Ids -> Entry \cup {NoEntry}]
        /\ \A i \in Ids : requests'[i] # NoEntry => requests'[i].chan \in DOMAIN channels'
    BY <2>1, <2>2, <2>3, <2>5, <2>6, EntryMoves
  <2>8. /\ call' \in [Threads -> {Idle} \cup Calls \cup Rest]
        /\ \A u \in Threads :
              call'[u].op \in {"send", "finish"} => call'[u].chan \in DOMAIN channels'
    BY <2>4, <2>5, <2>6, CallMoves
  <2>9. QED  BY <1>4, <2>6, <2>7, <2>8 DEF CancelMark, TypeOK
<1>5. QED  BY <1>2, <1>3, <1>4

\* Reading, ending and dropping a stream keeps the types.
LEMMA TypeStream ==
    ASSUME TypeOK, NEW n \in DOMAIN channels, StreamStep(n) \/ StreamDrop(n)
    PROVE  TypeOK'
<1>1. channels[n] \in Channel /\ channels[n].taken <= Len(channels[n].sent)
  BY DEF TypeOK
<1>2. PICK ch \in Channel : channels' = [channels EXCEPT ![n] = ch] /\ ch.taken <= Len(ch.sent)
  <2>1. CASE StreamRecv(n)
    <3>1. [channels[n] EXCEPT !.taken = @ + 1] \in Channel
      BY <1>1 DEF Channel
    <3>2. channels[n].taken + 1 <= Len(channels[n].sent)
      BY <1>1, <2>1 DEF StreamRecv, buffered, Channel
    <3>3. QED  BY <2>1, <3>1, <3>2 DEF StreamRecv, Channel
  <2>2. CASE StreamEnd(n)
    <3>1. [channels[n] EXCEPT !.rx = "ended"] \in Channel
      BY <1>1 DEF Channel
    <3>2. QED  BY <1>1, <2>2, <3>1 DEF StreamEnd, Channel
  <2>3. CASE StreamDrop(n)
    <3>1. [channels[n] EXCEPT !.rx = "dropped"] \in Channel
      BY <1>1 DEF Channel
    <3>2. QED  BY <1>1, <2>3, <3>1 DEF StreamDrop, Channel
  <2>4. QED  BY <2>1, <2>2, <2>3 DEF StreamStep
<1>3. /\ channels' \in Seq(Channel) /\ DOMAIN channels' = DOMAIN channels
      /\ \A m \in DOMAIN channels' : channels'[m].taken <= Len(channels'[m].sent)
  BY <1>2, ChannelMoves
<1>4. UNCHANGED <<requests, shutting_down, call, scheduled>>
  BY DEF StreamStep, StreamRecv, StreamEnd, StreamDrop
<1>5. QED  BY <1>3, <1>4 DEF TypeOK

\* Every step of the router keeps the types.
LEMMA TypeNext ==
    ASSUME TypeOK, [Next]_vars
    PROVE  TypeOK'
<1>1. ASSUME NEW t \in Threads, NEW c \in Calls, EnsureOpen(t, c)
      PROVE  TypeOK'
  <2>1. c.op \notin {"send", "finish"}
    BY DEF Calls
  <2>2. QED  BY <1>1, <2>1, CallMoves DEF EnsureOpen, TypeOK
<1>2. ASSUME NEW t \in Threads, CallStep(t)
      PROVE  TypeOK'
  BY <1>2, TypeAccept, TypePush, TypeOthers DEF CallStep
<1>3. ASSUME NEW n \in DOMAIN channels, StreamStep(n) \/ StreamDrop(n)
      PROVE  TypeOK'
  BY <1>3, TypeStream
<1>4. CASE Shutdown
  BY <1>4 DEF Shutdown, TypeOK
<1>5. CASE UNCHANGED vars
  BY <1>5 DEF vars, TypeOK
<1>6. QED  BY <1>1, <1>2, <1>3, <1>4, <1>5 DEF Next

(***************************************************************************)
(* Who owns an entry and its pushes                                        *)
(***************************************************************************)
\* The domains of the two tables.
LEMMA Domains ==
    ASSUME TypeOK
    PROVE  /\ DOMAIN call = Threads /\ call = [t \in Threads |-> call[t]]
           /\ DOMAIN requests = Ids /\ requests = [id \in Ids |-> requests[id]]
BY DEF TypeOK

\* A step that returns, changes no entry and schedules nothing, keeps the
\* ownership.
LEMMA OwnershipReturn ==
    ASSUME TypeOK, Ownership, NEW t \in Threads, Return(t), UNCHANGED <<requests, scheduled>>
    PROVE  Ownership'
<1>1. \A u \in Threads : call'[u] = IF u = t THEN Idle ELSE call[u]
  BY Domains DEF Return
<1>2. QED  BY <1>1 DEF Ownership, SubmitOwnsEntry, DriverOwnsPush, EntryKept, Idle, PushPcs, Live

\* The steps of accept(): the entry that is inserted or removed is its own.
LEMMA OwnershipAccept ==
    ASSUME TypeOK, Ownership, NEW t \in Threads, AcceptStep(t)
    PROVE  Ownership'
<1>1. CASE AcceptDuplicate(t)
  BY <1>1, OwnershipReturn DEF AcceptDuplicate
<1>2. CASE AcceptInsert(t)
  <2> DEFINE id == call[t].id
             c == [op |-> "submit", id |-> id]
             e == [state |-> "Scheduled", sender |-> TRUE, last |-> -1,
                   chan |-> Len(channels) + 1]
  <2>1. id \in Ids /\ requests[id] = NoEntry /\ scheduled' = scheduled
    BY <1>2, CallTypes DEF AcceptInsert
  <2>2. \A u \in Threads : call'[u] = IF u = t THEN c ELSE call[u]
    BY <1>2, Domains DEF AcceptInsert
  <2>3. \A i \in Ids : requests'[i] = IF i = id THEN e ELSE requests[i]
    BY <1>2, <2>1, Domains DEF AcceptInsert
  <2>4. \A i \in Ids : requests[i].chan # Len(channels) + 1
    <3>1. TAKE i \in Ids
    <3>2. Len(channels) \in Nat
      BY DEF TypeOK
    <3>3. QED  BY <3>2, EntryTypes
  <2>5. e # NoEntry /\ e.chan = Len(channels) + 1 /\ e.sender = TRUE /\ e.state = "Scheduled"
    BY DEF NoEntry
  <2>6. id \notin scheduled
    BY <2>1 DEF Ownership, EntryKept
  <2>7. ASSUME NEW u \in Threads
        PROVE  SubmitOwnsEntry(u)' /\ DriverOwnsPush(u)'
    <3>1. \A v \in Threads : call[v].op = "submit" => call[v].id # id
      BY <2>1 DEF Ownership, SubmitOwnsEntry
    <3> HIDE DEF e, id
    <3>2. QED
      BY <2>1, <2>2, <2>3, <2>5, <2>6, <3>1, CallTypes
      DEF Ownership, SubmitOwnsEntry, DriverOwnsPush, PushPcs
  <2>8. ASSUME NEW i \in Ids
        PROVE  EntryKept(i)'
    <3> HIDE DEF e, id
    <3>1. QED  BY <2>1, <2>3, <2>4, <2>5 DEF Ownership, EntryKept, Live
  <2>9. QED  BY <2>7, <2>8 DEF Ownership
<1>3. CASE AcceptSubmitted(t)
  <2>1. /\ \A u \in Threads : call'[u] = IF u = t THEN Idle ELSE call[u]
        /\ requests' = requests /\ scheduled' = scheduled \cup {call[t].id}
        /\ call[t].op = "submit"
    BY <1>3, Domains DEF AcceptSubmitted, Return
  <2>2. QED
    BY <2>1 DEF Ownership, SubmitOwnsEntry, DriverOwnsPush, EntryKept, Idle, PushPcs, Live
<1>4. CASE AcceptRollback(t)
  <2> DEFINE id == call[t].id
  <2>1. id \in Ids /\ call[t].op = "submit" /\ scheduled' = scheduled
    BY <1>4, CallTypes DEF AcceptRollback
  <2>2. /\ \A u \in Threads : call'[u] = IF u = t THEN Idle ELSE call[u]
        /\ \A i \in Ids : requests'[i] = IF i = id THEN NoEntry ELSE requests[i]
    BY <1>4, <2>1, Domains DEF AcceptRollback, Return
  <2>3. id \notin scheduled
    BY <2>1 DEF Ownership, SubmitOwnsEntry
  <2>4. NoEntry.chan = 0
    BY DEF NoEntry
  <2>5. ASSUME NEW u \in Threads
        PROVE  SubmitOwnsEntry(u)' /\ DriverOwnsPush(u)'
    <3>1. u # t /\ call[u].op = "submit" => call[u].id # id
      BY <2>1 DEF Ownership, SubmitOwnsEntry
    <3> HIDE DEF id
    <3>2. QED
      BY <2>1, <2>2, <3>1, CallTypes
      DEF Ownership, SubmitOwnsEntry, DriverOwnsPush, Idle, PushPcs
  <2>6. ASSUME NEW i \in Ids
        PROVE  EntryKept(i)'
    <3> HIDE DEF id
    <3>1. QED  BY <2>1, <2>2, <2>3, <2>4 DEF Ownership, EntryKept, Live
  <2>7. QED  BY <2>5, <2>6 DEF Ownership
<1>5. QED  BY <1>1, <1>2, <1>3, <1>4 DEF AcceptStep

\* An entry whose state moves on keeps its channel, and its Sender with it as
\* long as it is live.
LEMMA OwnershipMoves ==
    ASSUME TypeOK, Ownership, NEW t \in Threads, NEW c, call' = [call EXCEPT ![t] = c],
           call[t].op \notin PushPcs => c.op \notin PushPcs,
           c.op \in PushPcs => c.id = call[t].id, c.op # "submit",
           NEW id \in Ids, NEW e \in Entry, requests[id] # NoEntry,
           requests' = [requests EXCEPT ![id] = e], e.chan = requests[id].chan,
           e.sender <=> e.state \in {"Scheduled", "Streaming"},
           scheduled' = scheduled
    PROVE  Ownership'
<1>1. /\ \A u \in Threads : call'[u] = IF u = t THEN c ELSE call[u]
      /\ \A i \in Ids : requests'[i] = IF i = id THEN e ELSE requests[i]
  BY Domains
<1>2. e # NoEntry
  BY DEF NoEntry, Entry, RequestState
<1>3. ASSUME NEW u \in Threads
      PROVE  SubmitOwnsEntry(u)' /\ DriverOwnsPush(u)'
  BY <1>1, <1>2 DEF Ownership, SubmitOwnsEntry, DriverOwnsPush
<1>4. ASSUME NEW i \in Ids
      PROVE  EntryKept(i)'
  BY <1>1, <1>2 DEF Ownership, EntryKept, Live
<1>5. QED  BY <1>3, <1>4 DEF Ownership

\* Every step keeps the ownership, when frames come from the engine driver.
LEMMA OwnershipNext ==
    ASSUME TypeOK, DriverPush, Ownership, [Next]_vars
    PROVE  Ownership'
<1>1. ASSUME NEW t \in Threads, NEW c \in Calls, EnsureOpen(t, c)
      PROVE  Ownership'
  <2>1. /\ \A u \in Threads : call'[u] = IF u = t THEN c ELSE call[u]
        /\ UNCHANGED <<requests, scheduled>>
    BY <1>1, Domains DEF EnsureOpen
  <2>2. c.op \in PushPcs => c.id \in scheduled /\ ~ Pushing(c.id)
    BY <1>1 DEF EnsureOpen, Calls, PushPcs
  <2>3. c.op # "submit"
    BY DEF Calls
  <2>4. QED
    BY <2>1, <2>2, <2>3
    DEF Ownership, SubmitOwnsEntry, DriverOwnsPush, EntryKept, Pushing, PushPcs, Live
<1>2. ASSUME NEW t \in Threads, PushStep(t)
      PROVE  Ownership'
  <2> DEFINE id == call[t].id
  <2>1. CASE PushRefused(t) \/ PushBackpressure(t) \/ PushClosed(t)
    BY <2>1, OwnershipReturn DEF PushRefused, PushBackpressure, PushClosed
  <2>2. CASE PushValidate(t)
    <3> DEFINE e == [requests[id] EXCEPT !.state = "Streaming", !.last = call[t].frame.index]
               c == [op |-> "send", id |-> id, frame |-> call[t].frame, chan |-> requests[id].chan]
    <3>1. /\ call[t].op = "push" /\ id \in Ids
          /\ requests[id].state \in {"Scheduled", "Streaming"}
      BY <2>2, CallTypes DEF PushValidate, Pushable
    <3>2. requests[id] # NoEntry /\ requests[id] \in Entry
      BY <3>1, EntryTypes DEF NoEntry
    <3>3. requests[id].sender
      BY <3>1, <3>2 DEF Ownership, EntryKept, Live
    <3>4. /\ call' = [call EXCEPT ![t] = c] /\ scheduled' = scheduled
          /\ requests' = [requests EXCEPT ![id] = e]
      BY <2>2, <3>1, <3>2, Domains DEF PushValidate
    <3>5. call[t].frame.index \in -1 .. MaxIndex
      BY <3>1, CallTypes, RouterAssumption DEF Frame
    <3>6. [requests[id] EXCEPT !.state = "Streaming"] \in Entry
      BY <3>2 DEF Entry, RequestState
    <3>7. /\ e \in Entry /\ e.chan = requests[id].chan /\ e.state = "Streaming"
          /\ e.sender = requests[id].sender
      BY <3>2, <3>5, <3>6 DEF Entry
    <3>8. c.op = "send" /\ c.id = id
      OBVIOUS
    <3> HIDE DEF c, e
    <3>9. QED  BY <3>1, <3>2, <3>3, <3>4, <3>7, <3>8, OwnershipMoves DEF PushPcs
  <2>3. CASE PushSend(t)
    <3>1. /\ call[t].op = "send" /\ UNCHANGED <<requests, scheduled>>
          /\ \/ call' = [call EXCEPT ![t].op = "finish"]
             \/ call' = [call EXCEPT ![t] = Idle]
      BY <2>3 DEF PushSend, Return
    <3>2. CASE call' = [call EXCEPT ![t] = Idle]
      BY <3>1, <3>2, OwnershipReturn DEF Return
    <3>3. CASE call' = [call EXCEPT ![t].op = "finish"]
      <4>1. call[t] \in Rest
        BY <3>1 DEF TypeOK, Idle, Calls
      <4>2. call'[t].op = "finish" /\ call'[t].id = call[t].id
        BY <3>1, <3>3, <4>1, Domains DEF Rest
      <4>3. \A u \in Threads : u # t => call'[u] = call[u]
        BY <3>3, Domains
      <4>4. QED
        BY <3>1, <4>2, <4>3
        DEF Ownership, SubmitOwnsEntry, DriverOwnsPush, EntryKept, PushPcs, Live
    <3>4. QED  BY <3>1, <3>2, <3>3
  <2>4. CASE PushFinish(t)
    <3> DEFINE e == [requests[id] EXCEPT !.state = "Complete", !.sender = FALSE]
    <3>1. call[t].op = "finish" /\ id \in Ids
      BY <2>4, CallTypes DEF PushFinish
    <3>2. requests[id] # NoEntry /\ requests[id] \in Entry
      BY <3>1, EntryTypes DEF Ownership, DriverOwnsPush, EntryKept, PushPcs
    <3>3. /\ call' = [call EXCEPT ![t] = Idle] /\ scheduled' = scheduled
          /\ requests' = [requests EXCEPT ![id] = e]
      BY <2>4, <3>1, <3>2, Domains DEF PushFinish, Return
    <3>4. e \in Entry /\ e.chan = requests[id].chan /\ e.sender = FALSE /\ e.state = "Complete"
      BY <3>2 DEF Entry, RequestState
    <3>5. Idle.op = "idle"
      BY DEF Idle
    <3> HIDE DEF e
    <3>6. QED  BY <3>1, <3>2, <3>3, <3>4, <3>5, OwnershipMoves DEF PushPcs
  <2>5. QED  BY <1>2, <2>1, <2>2, <2>3, <2>4 DEF PushStep
<1>3. ASSUME NEW t \in Threads, CancelMark(t)
      PROVE  Ownership'
  <2> DEFINE id == call[t].id
             e == [requests[id] EXCEPT !.state = "Cancelled", !.sender = FALSE]
             c == [op |-> "unschedule", id |-> id]
  <2>1. id \in Ids /\ requests[id].state \in {"Scheduled", "Streaming"} /\ call[t].op = "cancel"
    BY <1>3, CallTypes DEF CancelMark
  <2>2. requests[id] # NoEntry /\ requests[id] \in Entry
    BY <2>1, EntryTypes DEF NoEntry
  <2>3. /\ call' = [call EXCEPT ![t] = c] /\ scheduled' = scheduled
        /\ requests' = [requests EXCEPT ![id] = e]
    BY <1>3, <2>1, <2>2, Domains DEF CancelMark
  <2>4. e \in Entry /\ e.chan = requests[id].chan /\ e.sender = FALSE /\ e.state = "Cancelled"
    BY <2>2 DEF Entry, RequestState
  <2>5. c.op = "unschedule"
    OBVIOUS
  <2> HIDE DEF c, e
  <2>6. QED  BY <2>1, <2>2, <2>3, <2>4, <2>5, OwnershipMoves DEF PushPcs
<1>4. ASSUME NEW t \in Threads,
             SubscribeTake(t) \/ SubscribeUnknown(t) \/ CancelReject(t) \/ CancelNotified(t)
      PROVE  Ownership'
  BY <1>4, OwnershipReturn DEF SubscribeTake, SubscribeUnknown, CancelReject, CancelNotified
<1>5. CASE UNCHANGED <<requests, call, scheduled>>
  BY <1>5 DEF Ownership, SubmitOwnsEntry, DriverOwnsPush, EntryKept, Live
<1>6. ASSUME NEW n \in DOMAIN channels, StreamStep(n) \/ StreamDrop(n)
      PROVE  Ownership'
  BY <1>5, <1>6 DEF StreamStep, StreamRecv, StreamEnd, StreamDrop
<1>7. CASE Shutdown \/ UNCHANGED vars
  BY <1>5, <1>7 DEF Shutdown, vars
<1>8. QED
  BY <1>1, <1>2, <1>3, <1>4, <1>6, <1>7, OwnershipAccept DEF Next, CallStep

(***************************************************************************)
(* What was sent                                                           *)
(***************************************************************************)
\* A step after which every channel has the frames it had, and a new one none.
NothingSent ==
    /\ DOMAIN channels \subseteq DOMAIN channels'
    /\ \A n \in DOMAIN channels : channels'[n].sent = channels[n].sent
    /\ \A n \in DOMAIN channels' \ DOMAIN channels : channels'[n].sent = <<>>

\* Channels stay, and only a push of a thread adds a frame to one.
LEMMA SentKept ==
    ASSUME TypeOK, [Next]_vars, \A t \in Threads : ~ PushSend(t)
    PROVE  NothingSent
<1>1. channels \in Seq(Channel)
  BY DEF TypeOK
<1>2. ASSUME UNCHANGED channels
      PROVE  NothingSent
  BY <1>2 DEF NothingSent
<1>3. ASSUME NEW n \in DOMAIN channels, NEW rx, channels' = [channels EXCEPT ![n].rx = rx]
      PROVE  NothingSent
  <2>1. channels[n] \in Channel
    BY <1>1
  <2>2. DOMAIN channels' = DOMAIN channels
    BY <1>3
  <2>3. \A m \in DOMAIN channels : channels'[m].sent = channels[m].sent
    BY <1>1, <1>3, <2>1 DEF Channel
  <2>4. QED  BY <2>2, <2>3 DEF NothingSent
<1>4. ASSUME NEW t \in Threads, AcceptInsert(t)
      PROVE  NothingSent
  BY <1>1, <1>4, AddChannel DEF AcceptInsert, NewChannel, NothingSent
<1>5. ASSUME NEW t \in Threads, AcceptRollback(t)
      PROVE  NothingSent
  <2>1. call[t].id \in Ids
    BY <1>5, CallTypes DEF AcceptRollback
  <2>2. CASE channels' = channels
    BY <1>2, <2>2
  <2>3. CASE channels' # channels
    <3>1. requests[call[t].id].chan \in DOMAIN channels
      BY <1>5, <2>1, <2>3, EntryTypes DEF AcceptRollback
    <3>2. channels' = [channels EXCEPT ![requests[call[t].id].chan].rx = "dropped"]
      BY <1>5, <2>3 DEF AcceptRollback
    <3>3. QED  BY <1>3, <3>1, <3>2
  <2>4. QED  BY <2>2, <2>3
<1>6. ASSUME NEW t \in Threads, SubscribeTake(t)
      PROVE  NothingSent
  <2>1. requests[call[t].id].chan \in DOMAIN channels
    BY <1>6, CallTypes, EntryTypes DEF SubscribeTake
  <2>2. channels' = [channels EXCEPT ![requests[call[t].id].chan].rx = "held"]
    BY <1>6 DEF SubscribeTake
  <2>3. QED  BY <1>3, <2>1, <2>2
<1>7. ASSUME NEW t \in Threads, CancelMark(t)
      PROVE  NothingSent
  <2>1. call[t].id \in Ids
    BY <1>7, CallTypes DEF CancelMark
  <2>2. requests[call[t].id].chan \in DOMAIN channels
    BY <1>7, <2>1, EntryTypes DEF CancelMark, NoEntry
  <2>3. \/ channels' = channels
        \/ channels' = [channels EXCEPT ![requests[call[t].id].chan].rx = "dropped"]
    BY <1>7 DEF CancelMark
  <2>4. QED  BY <1>2, <1>3, <2>2, <2>3
<1>8. ASSUME NEW n \in DOMAIN channels, StreamStep(n) \/ StreamDrop(n)
      PROVE  NothingSent
  <2>1. CASE StreamRecv(n)
    <3>1. channels[n] \in Channel /\ channels' = [channels EXCEPT ![n].taken = @ + 1]
      BY <1>1, <2>1 DEF StreamRecv
    <3>2. DOMAIN channels' = DOMAIN channels
      BY <3>1
    <3>3. \A m \in DOMAIN channels : channels'[m].sent = channels[m].sent
      BY <1>1, <3>1 DEF Channel
    <3>4. QED  BY <3>2, <3>3 DEF NothingSent
  <2>2. CASE StreamEnd(n) \/ StreamDrop(n)
    BY <1>3, <2>2 DEF StreamEnd, StreamDrop
  <2>3. QED  BY <1>8, <2>1, <2>2 DEF StreamStep
<1>9. ASSUME NEW t \in Threads, NEW c \in Calls, EnsureOpen(t, c)
      PROVE  NothingSent
  BY <1>2, <1>9 DEF EnsureOpen
<1>10. ASSUME NEW t \in Threads, CallStep(t)
       PROVE  NothingSent
  <2>1. CASE AcceptStep(t)
    BY <1>2, <1>4, <1>5, <2>1 DEF AcceptStep, AcceptDuplicate, AcceptSubmitted
  <2>2. CASE PushStep(t)
    BY <1>2, <2>2
    DEF PushStep, PushRefused, PushValidate, PushBackpressure, PushClosed, PushFinish
  <2>3. CASE SubscribeTake(t) \/ CancelMark(t)
    BY <1>6, <1>7, <2>3
  <2>4. CASE SubscribeUnknown(t) \/ CancelReject(t) \/ CancelNotified(t)
    BY <1>2, <2>4 DEF SubscribeUnknown, CancelReject, CancelNotified
  <2>5. QED  BY <1>10, <2>1, <2>2, <2>3, <2>4 DEF CallStep
<1>11. CASE Shutdown
  BY <1>2, <1>11 DEF Shutdown
<1>12. CASE UNCHANGED vars
  BY <1>2, <1>12 DEF vars
<1>13. QED  BY <1>8, <1>9, <1>10, <1>11, <1>12 DEF Next

\* Contents holds on where nothing is sent, no push enters or leaves a phase
\* that has sent, and no entry that stays becomes complete.
LEMMA ContentsKept ==
    ASSUME TypeOK, Contents, TypeOK',
           \A n \in DOMAIN channels : channels'[n].sent = channels[n].sent,
           \A i \in Ids : requests[i] # NoEntry /\ requests'[i] # NoEntry =>
              /\ requests'[i].chan = requests[i].chan /\ requests'[i].last = requests[i].last
              /\ requests'[i].state = "Complete" <=> requests[i].state = "Complete",
           \A i \in Ids : requests[i] = NoEntry /\ requests'[i] # NoEntry =>
              channels'[requests'[i].chan].sent = <<>> /\ requests'[i].state # "Complete",
           \A u \in Threads : call'[u].op \in {"send", "finish"} =>
              /\ call'[u] = call[u]
              /\ requests[call[u].id] # NoEntry /\ requests'[call[u].id] # NoEntry,
           \A u \in Threads : call[u].op = "finish" => call'[u] = call[u]
    PROVE  Contents'
<1>1. ASSUME NEW i \in Ids
      PROVE  EntryMatchesChannel(i)'
  <2>1. CASE requests[i] = NoEntry
    BY <2>1 DEF EntryMatchesChannel, sentTo
  <2>2. CASE requests[i] # NoEntry /\ requests'[i] # NoEntry
    <3>1. EntryMatchesChannel(i) /\ requests[i].chan \in DOMAIN channels
      BY <2>2, EntryTypes DEF Contents
    <3>2. sentTo(requests[i].chan)' = sentTo(requests[i].chan)
      BY <2>2, <3>1 DEF sentTo
    <3>3. QED  BY <2>2, <3>1, <3>2 DEF EntryMatchesChannel
  <2>3. CASE requests'[i] = NoEntry
    BY <2>3 DEF EntryMatchesChannel
  <2>4. QED  BY <2>1, <2>2, <2>3
<1>2. ASSUME NEW u \in Threads
      PROVE  SendIsNext(u)' /\ FinishIsLast(u)'
  <2>1. SendIsNext(u) /\ FinishIsLast(u)
    BY DEF Contents
  <2>2. CASE call'[u].op \in {"send", "finish"}
    <3>1. /\ call'[u] = call[u] /\ call[u].id \in Ids /\ call[u].chan \in DOMAIN channels
          /\ requests[call[u].id] # NoEntry /\ requests'[call[u].id] # NoEntry
      BY <2>2, CallTypes
    <3>2. sentTo(call[u].chan)' = sentTo(call[u].chan)
      BY <3>1 DEF sentTo
    <3>3. QED  BY <2>1, <3>1, <3>2 DEF SendIsNext, FinishIsLast
  <2>3. CASE call'[u].op \notin {"send", "finish"}
    BY <2>3 DEF SendIsNext, FinishIsLast
  <2>4. QED  BY <2>2, <2>3
<1>3. QED  BY <1>1, <1>2 DEF Contents

\* A push that has passed the first phase belongs to the entry of its id, and
\* to no other.
LEMMA PushEntry ==
    ASSUME TypeOK, Ownership, Contents, NEW t \in Threads, call[t].op \in {"send", "finish"}
    PROVE  /\ call[t].id \in Ids /\ requests[call[t].id] # NoEntry
           /\ requests[call[t].id] \in Entry
           /\ call[t].chan = requests[call[t].id].chan /\ call[t].chan \in DOMAIN channels
           /\ \A i \in Ids : requests[i].chan = call[t].chan => i = call[t].id
           /\ \A u \in Threads : call[u].op \in PushPcs /\ u # t => call[u].id # call[t].id
           /\ \A u \in Threads :
                call[u].op \in {"send", "finish"} /\ u # t => call[u].chan # call[t].chan
<1>1. call[t].id \in Ids /\ call[t].id \in scheduled
  BY CallTypes DEF Ownership, DriverOwnsPush, PushPcs
<1>2. requests[call[t].id] # NoEntry
  BY <1>1 DEF Ownership, EntryKept
<1>3. /\ requests[call[t].id] \in Entry /\ requests[call[t].id].chan \in 1 .. Len(channels)
      /\ requests[call[t].id].chan \in DOMAIN channels
  BY <1>1, <1>2, EntryTypes
<1>4. \A u \in Threads : call[u].op \in {"send", "finish"} =>
          call[u].chan = requests[call[u].id].chan /\ call[u].id \in Ids
  BY CallTypes DEF Contents, SendIsNext, FinishIsLast
<1>5. \A u \in Threads : call[u].op \in PushPcs /\ u # t => call[u].id # call[t].id
  BY DEF Ownership, DriverOwnsPush, PushPcs
<1>6. \A i \in Ids : requests[i].chan = requests[call[t].id].chan => i = call[t].id
  BY <1>1, <1>3 DEF Ownership, EntryKept
<1>7. \A u \in Threads :
         call[u].op \in {"send", "finish"} /\ u # t => call[u].chan # call[t].chan
  BY <1>4, <1>5, <1>6 DEF PushPcs
<1>8. QED  BY <1>1, <1>2, <1>3, <1>4, <1>5, <1>6, <1>7

\* The first phase: the frame that passes comes after all that were sent.
LEMMA ContentsValidate ==
    ASSUME TypeOK, Ownership, Contents, NEW t \in Threads, PushValidate(t)
    PROVE  Contents'
<1> DEFINE id == call[t].id
           f == call[t].frame
           e == [requests[id] EXCEPT !.state = "Streaming", !.last = f.index]
           c == [op |-> "send", id |-> id, frame |-> f, chan |-> requests[id].chan]
           sent == sentTo(requests[id].chan)
<1>1. /\ call[t].op = "push" /\ id \in Ids /\ f \in Frame
      /\ requests[id].state \in {"Scheduled", "Streaming"} /\ f.index > requests[id].last
  BY CallTypes DEF PushValidate, Pushable
<1>2. /\ requests[id] # NoEntry /\ requests[id] \in Entry /\ requests[id].chan \in DOMAIN channels
      /\ channels[requests[id].chan] \in Channel
  BY <1>1, EntryTypes DEF NoEntry
<1>3. /\ \A u \in Threads : call'[u] = IF u = t THEN c ELSE call[u]
      /\ \A i \in Ids : requests'[i] = IF i = id THEN e ELSE requests[i]
      /\ channels' = channels
  BY <1>1, Domains DEF PushValidate
<1>4. \A u \in Threads : call[u].op \in {"send", "finish"} => call[u].id # id
  BY <1>1 DEF Ownership, DriverOwnsPush, PushPcs
<1>5. sent \in Seq(Frame)
  BY <1>2 DEF sentTo, Channel
<1>6. \A i \in 1 .. Len(sent) : sent[i].index < f.index /\ ~ sent[i].final
  <2>1. TAKE i \in 1 .. Len(sent)
  <2>2. EntryMatchesChannel(id)
    BY <1>1 DEF Contents
  <2>3. sent[i].index <= requests[id].last
    BY <1>2, <2>2 DEF EntryMatchesChannel
  <2>4. ~ sent[i].final
    BY <1>1, <1>2, <1>4, <2>2 DEF EntryMatchesChannel
  <2>5. sent[i] \in Frame /\ requests[id].last \in -1 .. MaxIndex
    BY <1>2, <1>5 DEF Entry
  <2>6. sent[i].index \in Int /\ requests[id].last \in Int /\ f.index \in Int
    BY <1>1, <2>5, RouterAssumption DEF Frame
  <2>7. QED  BY <1>1, <2>3, <2>4, <2>6
<1>7. e.chan = requests[id].chan /\ e.state = "Streaming" /\ e.last = f.index /\ e # NoEntry
  BY <1>2 DEF Entry, NoEntry
<1>8. c.op = "send" /\ c.id = id /\ c.frame = f /\ c.chan = requests[id].chan
  OBVIOUS
<1> HIDE DEF c, e, id, f
<1>9. ASSUME NEW i \in Ids
      PROVE  EntryMatchesChannel(i)'
  <2>1. CASE i = id
    <3>1. requests'[i] = e /\ channels'[e.chan].sent = sent
      BY <1>3, <1>7, <2>1 DEF sentTo
    <3>2. \A j \in 1 .. Len(sent) : sent[j].index <= f.index /\ ~ sent[j].final
      <4>1. TAKE j \in 1 .. Len(sent)
      <4>2. sent[j] \in Frame
        BY <1>5
      <4>3. sent[j].index \in Int /\ f.index \in Int
        BY <1>1, <4>2, RouterAssumption DEF Frame
      <4>4. QED  BY <1>6, <4>3
    <3> HIDE DEF sent
    <3>3. QED  BY <1>7, <3>1, <3>2 DEF EntryMatchesChannel, sentTo
  <2>2. CASE i # id
    <3>1. requests'[i] = requests[i] /\ sentTo(requests[i].chan)' = sentTo(requests[i].chan)
      BY <1>3, <2>2 DEF sentTo
    <3>2. EntryMatchesChannel(i)
      BY DEF Contents
    <3>3. \A u \in Threads : call[u].op = "finish" /\ call[u].id = i =>
             call'[u].op = "finish" /\ call'[u].id = i
      BY <1>1, <1>3
    <3>4. QED  BY <3>1, <3>2, <3>3 DEF EntryMatchesChannel
  <2>3. QED  BY <2>1, <2>2
<1>10. ASSUME NEW u \in Threads
       PROVE  SendIsNext(u)' /\ FinishIsLast(u)'
  <2>1. CASE u = t
    <3>1. call'[u] = c /\ requests'[id] = e /\ channels'[e.chan].sent = sent
      BY <1>1, <1>3, <1>7, <2>1 DEF sentTo
    <3> HIDE DEF sent
    <3>2. QED  BY <1>6, <1>7, <1>8, <3>1 DEF SendIsNext, FinishIsLast, sentTo
  <2>2. CASE u # t
    <3>1. call'[u] = call[u] /\ sentTo(call[u].chan)' = sentTo(call[u].chan)
      BY <1>3, <2>2 DEF sentTo
    <3>2. call[u].op \in {"send", "finish"} => requests'[call[u].id] = requests[call[u].id]
      BY <1>3, <1>4, CallTypes
    <3>3. SendIsNext(u) /\ FinishIsLast(u)
      BY DEF Contents
    <3>4. QED  BY <3>1, <3>2, <3>3 DEF SendIsNext, FinishIsLast
  <2>3. QED  BY <2>1, <2>2
<1>11. QED  BY <1>9, <1>10 DEF Contents

\* The second phase: the frame goes behind all the others, none of them final,
\* and no other push can add to the channel.
LEMMA ContentsSend ==
    ASSUME TypeOK, Ownership, Contents, StreamWellFormed, NEW t \in Threads, PushSend(t)
    PROVE  Contents' /\ StreamWellFormed'
<1> DEFINE id == call[t].id
           f == call[t].frame
           n == call[t].chan
           sent == channels[n].sent
           new == Append(sent, f)
<1>1. /\ call[t].op = "send" /\ id \in Ids /\ f \in Frame /\ n \in DOMAIN channels
      /\ channels[n] \in Channel /\ channels \in Seq(Channel)
  BY CallTypes DEF PushSend, TypeOK
<1>2. sent \in Seq(Frame)
  BY <1>1 DEF Channel
<1>3. /\ new \in Seq(Frame) /\ Len(new) = Len(sent) + 1 /\ Len(sent) \in Nat
      /\ new[Len(sent) + 1] = f
      /\ \A i \in 1 .. Len(sent) : new[i] = sent[i]
  <2> HIDE DEF sent, f
  <2>1. QED  BY <1>1, <1>2, AppendProperties
<1>4. /\ requests' = requests /\ DOMAIN channels' = DOMAIN channels
      /\ channels'[n].sent = new
      /\ \A m \in DOMAIN channels : m # n => channels'[m] = channels[m]
  BY <1>1 DEF PushSend, Channel
<1>5. /\ \A u \in Threads : u # t => call'[u] = call[u]
      /\ call'[t].op # "send"
      /\ call'[t].op = "finish" => f.final /\ call'[t].id = id /\ call'[t].chan = n
      /\ f.final => call'[t].op = "finish"
  <2>1. call[t] \in Rest
    BY <1>1 DEF TypeOK, Idle, Calls
  <2>2. CASE f.final
    <3>1. call' = [call EXCEPT ![t].op = "finish"]
      BY <2>2 DEF PushSend
    <3>2. call'[t] = [call[t] EXCEPT !.op = "finish"] /\ \A u \in Threads : u # t => call'[u] = call[u]
      BY <3>1, Domains
    <3>3. [call[t] EXCEPT !.op = "finish"].id = id /\ [call[t] EXCEPT !.op = "finish"].chan = n
          /\ [call[t] EXCEPT !.op = "finish"].op = "finish"
      BY <1>1, <2>1 DEF Rest
    <3>4. QED  BY <2>2, <3>2, <3>3
  <2>3. CASE ~ f.final
    BY <2>3, Domains DEF PushSend, Return, Idle
  <2>4. QED  BY <2>2, <2>3
<1>6. /\ requests[id] # NoEntry /\ requests[id].chan = n
      /\ \A i \in Ids : requests[i].chan = n => i = id
      /\ \A u \in Threads : call[u].op \in {"send", "finish"} /\ u # t => call[u].chan # n
      /\ \A u \in Threads : call[u].op = "finish" => call[u].id # id
  BY <1>1, PushEntry DEF PushPcs
<1>7. /\ requests[id].state # "Complete" /\ requests[id].last = f.index
      /\ \A i \in 1 .. Len(sent) : sent[i].index < f.index /\ ~ sent[i].final
  BY <1>1, <1>6 DEF Contents, SendIsNext, sentTo
<1>8. \A i \in 1 .. Len(new) : new[i].index \in Int
  <2> HIDE DEF new
  <2>1. TAKE i \in 1 .. Len(new)
  <2>2. new[i] \in Frame
    BY <1>3
  <2>3. QED  BY <2>2, RouterAssumption DEF Frame
<1> HIDE DEF id, f, n, sent, new
<1>9. ASSUME NEW i \in Ids
      PROVE  EntryMatchesChannel(i)'
  <2>1. CASE i = id
    <3>1. ASSUME NEW j \in 1 .. Len(new)
          PROVE  /\ new[j].index <= f.index
                 /\ new[j].final => j = Len(sent) + 1 /\ f.final
      <4>1. CASE j = Len(sent) + 1
        BY <1>3, <1>8, <4>1
      <4>2. CASE j # Len(sent) + 1
        <5>1. j \in 1 .. Len(sent) /\ new[j] = sent[j] /\ Len(sent) + 1 \in 1 .. Len(new)
          BY <1>3, <4>2
        <5>2. f.index \in Int /\ new[j].index \in Int
          BY <1>3, <1>8, <5>1
        <5>3. QED  BY <1>7, <5>1, <5>2
      <4>3. QED  BY <4>1, <4>2
    <3>2. \A j \in 1 .. Len(new) : new[j].final =>
             \E u \in Threads : call'[u].op = "finish" /\ call'[u].id = id
      BY <1>5, <3>1
    <3>3. requests'[i] = requests[id] /\ channels'[requests[id].chan].sent = new
      BY <1>4, <1>6, <2>1
    <3>4. QED  BY <1>7, <2>1, <3>1, <3>2, <3>3 DEF EntryMatchesChannel, sentTo
  <2>2. CASE i # id /\ requests[i] # NoEntry
    <3>1. requests[i].chan \in DOMAIN channels /\ requests[i].chan # n
      BY <1>6, <2>2, EntryTypes
    <3>2. requests'[i] = requests[i] /\ channels'[requests[i].chan] = channels[requests[i].chan]
      BY <1>4, <3>1
    <3>3. \A u \in Threads : call[u].op = "finish" /\ call[u].id = i =>
             call'[u].op = "finish" /\ call'[u].id = i
      BY <1>1, <1>5
    <3>4. EntryMatchesChannel(i)
      BY DEF Contents
    <3>5. QED  BY <3>2, <3>3, <3>4 DEF EntryMatchesChannel, sentTo
  <2>3. CASE requests[i] = NoEntry
    BY <1>4, <2>3 DEF EntryMatchesChannel
  <2>4. QED  BY <2>1, <2>2, <2>3
<1>10. ASSUME NEW u \in Threads
       PROVE  SendIsNext(u)' /\ FinishIsLast(u)'
  <2>1. CASE u = t
    <3>1. new # <<>> /\ new[Len(new)] = f
      BY <1>3
    <3>2. CASE call'[t].op = "finish"
      BY <1>4, <1>5, <1>6, <2>1, <3>1, <3>2 DEF SendIsNext, FinishIsLast, sentTo
    <3>3. CASE call'[t].op # "finish"
      BY <1>5, <2>1, <3>3 DEF SendIsNext, FinishIsLast
    <3>4. QED  BY <3>2, <3>3
  <2>2. CASE u # t /\ call[u].op \in {"send", "finish"}
    <3>1. call'[u] = call[u] /\ call[u].chan # n /\ call[u].chan \in DOMAIN channels
      BY <1>5, <1>6, <2>2, CallTypes
    <3>2. channels'[call[u].chan] = channels[call[u].chan] /\ requests' = requests
      BY <1>4, <3>1
    <3>3. SendIsNext(u) /\ FinishIsLast(u)
      BY DEF Contents
    <3>4. QED  BY <3>1, <3>2, <3>3 DEF SendIsNext, FinishIsLast, sentTo
  <2>3. CASE u # t /\ call[u].op \notin {"send", "finish"}
    BY <1>5, <2>3 DEF SendIsNext, FinishIsLast
  <2>4. QED  BY <2>1, <2>2, <2>3
<1>11. StreamWellFormed'
  <2>1. SUFFICES ASSUME NEW m \in DOMAIN channels, NEW i \in DOMAIN channels'[m].sent,
                        NEW j \in DOMAIN channels'[m].sent, i < j
                 PROVE  /\ channels'[m].sent[i].index < channels'[m].sent[j].index
                        /\ ~ channels'[m].sent[i].final
    BY <1>4 DEF StreamWellFormed
  <2>2. CASE m # n
    BY <1>4, <2>1, <2>2 DEF StreamWellFormed
  <2>3. CASE m = n
    <3>1. i \in 1 .. Len(new) /\ j \in 1 .. Len(new)
      BY <1>3, <1>4, <2>3
    <3>2. i \in 1 .. Len(sent) /\ new[i] = sent[i]
      BY <1>3, <2>1, <3>1
    <3>3. CASE j = Len(sent) + 1
      BY <1>3, <1>4, <1>7, <2>3, <3>2, <3>3
    <3>4. CASE j # Len(sent) + 1
      <4>1. j \in 1 .. Len(sent) /\ new[j] = sent[j]
        BY <1>3, <3>1, <3>4
      <4>2. DOMAIN sent = 1 .. Len(sent)
        BY <1>2
      <4>3. sent[i].index < sent[j].index /\ ~ sent[i].final
        BY <1>1, <2>1, <3>2, <4>1, <4>2 DEF StreamWellFormed, sent, n
      <4>4. QED  BY <1>4, <2>3, <3>2, <4>1, <4>3
    <3>5. QED  BY <3>3, <3>4
  <2>4. QED  BY <2>2, <2>3
<1>12. QED  BY <1>9, <1>10, <1>11 DEF Contents

\* The third phase: the entry becomes complete behind its final frame.
LEMMA ContentsFinish ==
    ASSUME TypeOK, Ownership, Contents, NEW t \in Threads, PushFinish(t)
    PROVE  Contents'
<1> DEFINE id == call[t].id
           e == [requests[id] EXCEPT !.state = "Complete", !.sender = FALSE]
<1>1. call[t].op = "finish"
  BY DEF PushFinish
<1>2. /\ id \in Ids /\ requests[id] # NoEntry /\ requests[id] \in Entry
      /\ requests[id].chan = call[t].chan
      /\ \A u \in Threads : call[u].op \in {"send", "finish"} /\ u # t => call[u].id # id
  BY <1>1, PushEntry DEF PushPcs
<1>3. /\ \A u \in Threads : call'[u] = IF u = t THEN Idle ELSE call[u]
      /\ \A i \in Ids : requests'[i] = IF i = id THEN e ELSE requests[i]
      /\ channels' = channels
  BY <1>2, Domains DEF PushFinish, Return
<1>4. e.chan = requests[id].chan /\ e.last = requests[id].last /\ e.state = "Complete"
  BY <1>2 DEF Entry
<1>5. Idle.op = "idle"
  BY DEF Idle
<1>6. FinishIsLast(t) /\ EntryMatchesChannel(id)
  BY <1>2 DEF Contents
<1> HIDE DEF id, e
<1>7. ASSUME NEW i \in Ids
      PROVE  EntryMatchesChannel(i)'
  <2>1. CASE i = id
    BY <1>1, <1>2, <1>3, <1>4, <1>6, <2>1 DEF EntryMatchesChannel, FinishIsLast, sentTo
  <2>2. CASE i # id
    <3>1. \A u \in Threads : call[u].op = "finish" /\ call[u].id = i =>
             call'[u].op = "finish" /\ call'[u].id = i
      BY <1>3, <2>2 DEF id
    <3>2. EntryMatchesChannel(i) /\ requests'[i] = requests[i]
      BY <1>3, <2>2 DEF Contents
    <3>3. QED  BY <1>3, <3>1, <3>2 DEF EntryMatchesChannel, sentTo
  <2>3. QED  BY <2>1, <2>2
<1>8. ASSUME NEW u \in Threads
      PROVE  SendIsNext(u)' /\ FinishIsLast(u)'
  <2>1. CASE u = t
    BY <1>3, <1>5, <2>1 DEF SendIsNext, FinishIsLast
  <2>2. CASE u # t
    <3>1. call[u].op \in {"send", "finish"} => requests'[call[u].id] = requests[call[u].id]
      BY <1>2, <1>3, <2>2, CallTypes
    <3>2. SendIsNext(u) /\ FinishIsLast(u) /\ call'[u] = call[u]
      BY <1>3, <2>2 DEF Contents
    <3>3. QED  BY <1>3, <3>1, <3>2 DEF SendIsNext, FinishIsLast, sentTo
  <2>3. QED  BY <2>1, <2>2
<1>9. QED  BY <1>7, <1>8 DEF Contents

\* A thread goes to a place that is not inside a push, or stays in it.
LEMMA ContentsReturn ==
    ASSUME TypeOK, TypeOK', Ownership, Contents, NothingSent, UNCHANGED requests,
           NEW t \in Threads, call[t].op # "finish",
           \A u \in Threads : u # t => call'[u] = call[u],
           call'[t].op \notin {"send", "finish"}
    PROVE  Contents'
<1>1. \A u \in Threads : call'[u].op \in {"send", "finish"} =>
         call'[u] = call[u] /\ requests[call[u].id] # NoEntry
  BY PushEntry
<1>2. QED  BY <1>1, ContentsKept DEF NothingSent

\* Contents is kept by every step, when frames come from the engine driver.
LEMMA ContentsNext ==
    ASSUME TypeOK, TypeOK', Ownership, Contents, StreamWellFormed, [Next]_vars
    PROVE  Contents' /\ StreamWellFormed'
<1>1. CASE \E t \in Threads : PushSend(t)
  BY <1>1, ContentsSend
<1>2. CASE \A t \in Threads : ~ PushSend(t)
  <2>1. NothingSent
    BY <1>2, SentKept
  <2>2. StreamWellFormed'
    BY <2>1 DEF NothingSent, StreamWellFormed
  <2>3. ASSUME requests' = requests, call' = call
        PROVE  Contents'
    <3>1. \A u \in Threads : call[u].op \in {"send", "finish"} => requests[call[u].id] # NoEntry
      BY PushEntry
    <3>2. QED  BY <2>1, <2>3, <3>1, ContentsKept DEF NothingSent
  <2>4. Idle.op = "idle"
    BY DEF Idle
  <2>5. ASSUME NEW t \in Threads, NEW c \in Calls, EnsureOpen(t, c)
        PROVE  Contents'
    <3>1. c.op \notin {"send", "finish"}
      BY DEF Calls
    <3>2. \A u \in Threads : call'[u] = IF u = t THEN c ELSE call[u]
      BY <2>5, Domains DEF EnsureOpen
    <3>3. call[t].op # "finish" /\ UNCHANGED requests
      BY <2>4, <2>5 DEF EnsureOpen
    <3>4. QED  BY <2>1, <3>1, <3>2, <3>3, ContentsReturn
  <2>6. ASSUME NEW t \in Threads, Return(t), UNCHANGED requests, call[t].op # "finish"
        PROVE  Contents'
    <3>1. \A u \in Threads : call'[u] = IF u = t THEN Idle ELSE call[u]
      BY <2>6, Domains DEF Return
    <3>2. QED  BY <2>1, <2>4, <2>6, <3>1, ContentsReturn
  <2>7. ASSUME NEW t \in Threads, AcceptInsert(t)
        PROVE  Contents'
    <3> DEFINE id == call[t].id
               e == [state |-> "Scheduled", sender |-> TRUE, last |-> -1,
                     chan |-> Len(channels) + 1]
    <3>1. id \in Ids /\ requests[id] = NoEntry /\ call[t].op = "accept" /\ channels \in Seq(Channel)
      BY <2>7, CallTypes DEF AcceptInsert, TypeOK
    <3>2. /\ \A u \in Threads : u # t => call'[u] = call[u]
          /\ call'[t].op = "submit"
          /\ \A i \in Ids : requests'[i] = IF i = id THEN e ELSE requests[i]
      BY <2>7, <3>1, Domains DEF AcceptInsert
    <3>3. channels'[e.chan].sent = <<>> /\ e.state # "Complete"
      BY <2>7, <3>1, AddChannel DEF AcceptInsert, NewChannel
    <3>4. \A u \in Threads : call'[u].op \in {"send", "finish"} =>
             /\ call'[u] = call[u] /\ call[u].id \in Ids
             /\ requests[call[u].id] # NoEntry /\ requests'[call[u].id] = requests[call[u].id]
      BY <3>1, <3>2, PushEntry
    <3> HIDE DEF e, id
    <3>5. QED  BY <2>1, <3>1, <3>2, <3>3, <3>4, ContentsKept DEF NothingSent
  <2>8. ASSUME NEW t \in Threads, AcceptRollback(t)
        PROVE  Contents'
    <3>1. call[t].id \in Ids /\ call[t].op = "submit"
      BY <2>8, CallTypes DEF AcceptRollback
    <3>2. /\ \A u \in Threads : call'[u] = IF u = t THEN Idle ELSE call[u]
          /\ \A i \in Ids : requests'[i] = IF i = call[t].id THEN NoEntry ELSE requests[i]
      BY <2>8, <3>1, Domains DEF AcceptRollback, Return
    <3>3. call[t].id \notin scheduled
      BY <3>1 DEF Ownership, SubmitOwnsEntry
    <3>4. \A u \in Threads : call[u].op \in {"send", "finish"} =>
             call[u].id \in scheduled /\ call[u].id \in Ids /\ requests[call[u].id] # NoEntry
      BY PushEntry DEF Ownership, DriverOwnsPush, PushPcs
    <3>5. QED  BY <2>1, <2>4, <3>1, <3>2, <3>3, <3>4, ContentsKept DEF NothingSent
  <2>9. ASSUME NEW t \in Threads, CancelMark(t)
        PROVE  Contents'
    <3> DEFINE id == call[t].id
               e == [requests[id] EXCEPT !.state = "Cancelled", !.sender = FALSE]
    <3>1. id \in Ids /\ requests[id].state \in {"Scheduled", "Streaming"} /\ call[t].op = "cancel"
      BY <2>9, CallTypes DEF CancelMark
    <3>2. requests[id] # NoEntry /\ requests[id] \in Entry
      BY <3>1, EntryTypes DEF NoEntry
    <3>3. /\ \A u \in Threads : u # t => call'[u] = call[u]
          /\ call'[t].op = "unschedule"
          /\ \A i \in Ids : requests'[i] = IF i = id THEN e ELSE requests[i]
      BY <2>9, <3>1, Domains DEF CancelMark
    <3>4. /\ e.chan = requests[id].chan /\ e.last = requests[id].last /\ e.state = "Cancelled"
          /\ e # NoEntry
      BY <3>2 DEF Entry, NoEntry
    <3>5. \A u \in Threads : call'[u].op \in {"send", "finish"} =>
             /\ call'[u] = call[u] /\ call[u].id \in Ids /\ requests[call[u].id] # NoEntry
      BY <3>3, PushEntry
    <3> HIDE DEF e, id
    <3>6. QED  BY <2>1, <3>1, <3>2, <3>3, <3>4, <3>5, ContentsKept DEF NothingSent
  <2>10. ASSUME NEW t \in Threads, CallStep(t)
         PROVE  Contents'
    <3>1. CASE AcceptStep(t)
      BY <2>6, <2>7, <2>8, <3>1 DEF AcceptStep, AcceptDuplicate, AcceptSubmitted
    <3>2. CASE PushStep(t)
      BY <1>2, <2>6, <3>2, ContentsValidate, ContentsFinish
      DEF PushStep, PushRefused, PushBackpressure, PushClosed
    <3>3. CASE SubscribeTake(t) \/ SubscribeUnknown(t) \/ CancelReject(t) \/ CancelNotified(t)
      BY <2>6, <3>3 DEF SubscribeTake, SubscribeUnknown, CancelReject, CancelNotified
    <3>4. CASE CancelMark(t)
      BY <2>9, <3>4
    <3>5. QED  BY <2>10, <3>1, <3>2, <3>3, <3>4 DEF CallStep
  <2>11. ASSUME NEW n \in DOMAIN channels, StreamStep(n) \/ StreamDrop(n)
         PROVE  Contents'
    BY <2>3, <2>11 DEF StreamStep, StreamRecv, StreamEnd, StreamDrop
  <2>12. ASSUME Shutdown
         PROVE  Contents'
    BY <2>3, <2>12 DEF Shutdown
  <2>13. ASSUME UNCHANGED vars
         PROVE  Contents'
    BY <2>3, <2>13 DEF vars
  <2>14. Contents'
    BY <2>5, <2>10, <2>11, <2>12, <2>13 DEF Next
  <2>15. QED  BY <2>2, <2>14
<1>3. QED  BY <1>1, <1>2

(***************************************************************************)
(* The end of a stream                                                     *)
(***************************************************************************)
\* A channel without a Sender never gets one again: the first phase of a push
\* clones the Sender of a live entry, which still owns it.
LEMMA NoNewSender ==
    ASSUME TypeOK, Ownership, [Next]_vars, NEW n \in DOMAIN channels, Open(n)'
    PROVE  Open(n)
<1>1. ASSUME NEW id \in Ids, requests'[id].chan = n, requests'[id].sender, ~ Open(n)
      PROVE  requests[id].chan # n
  <2>1. requests'[id] # requests[id]
    BY <1>1 DEF Open
  <2>2. SUFFICES ASSUME requests[id].chan = n
                 PROVE  FALSE
    BY <2>1
  <2>3. requests[id].sender = FALSE /\ requests[id] \in Entry /\ requests[id] # NoEntry
    <3>1. n # 0
      BY DEF TypeOK
    <3>2. requests[id] # NoEntry /\ requests[id] \in Entry
      BY <2>2, <3>1, EntryTypes
    <3>3. requests[id].sender \in BOOLEAN /\ ~ requests[id].sender
      BY <1>1, <2>2, <3>2 DEF Open, Entry
    <3>4. QED  BY <3>2, <3>3
  <2>4. ~ Live(id)
    BY <2>3 DEF Ownership, EntryKept
  <2>5. CASE UNCHANGED requests
    BY <2>1, <2>5
  <2>6. ASSUME NEW t \in Threads, AcceptStep(t)
        PROVE  FALSE
    BY <1>1, <2>1, <2>3, <2>6, Domains, CallTypes
    DEF AcceptStep, AcceptDuplicate, AcceptInsert, AcceptSubmitted, AcceptRollback, NoEntry
  <2>7. ASSUME NEW t \in Threads, PushStep(t)
        PROVE  FALSE
    <3>1. CASE PushValidate(t)
      <4>1. call[t].id \in Ids /\ Live(call[t].id)
        BY <3>1, CallTypes DEF PushValidate, Pushable, Live
      <4>2. \A i \in Ids : i # call[t].id => requests'[i] = requests[i]
        BY <3>1, <4>1, Domains DEF PushValidate
      <4>3. QED  BY <2>1, <2>4, <4>1, <4>2
    <3>2. CASE PushFinish(t)
      <4>1. call[t].id \in Ids
        BY <3>2, CallTypes DEF PushFinish
      <4>2. requests' = [requests EXCEPT ![call[t].id].state = "Complete",
                                         ![call[t].id].sender = FALSE]
        BY <2>1, <3>2 DEF PushFinish
      <4>3. id = call[t].id /\ requests'[id].sender = FALSE
        BY <2>1, <2>3, <4>1, <4>2, Domains DEF Entry
      <4>4. QED  BY <1>1, <4>3
    <3>3. CASE PushRefused(t) \/ PushBackpressure(t) \/ PushClosed(t) \/ PushSend(t)
      BY <2>1, <3>3 DEF PushRefused, PushBackpressure, PushClosed, PushSend
    <3>4. QED  BY <2>7, <3>1, <3>2, <3>3 DEF PushStep
  <2>8. ASSUME NEW t \in Threads, CancelMark(t)
        PROVE  FALSE
    <3>1. call[t].id \in Ids
      BY <2>8, CallTypes DEF CancelMark
    <3>2. id = call[t].id /\ requests'[id].sender = FALSE
      BY <2>1, <2>3, <2>8, <3>1, Domains DEF CancelMark, Entry
    <3>3. QED  BY <1>1, <3>2
  <2>9. QED
    BY <2>1, <2>6, <2>7, <2>8
    DEF Next, CallStep, EnsureOpen, SubscribeTake, SubscribeUnknown, CancelReject,
        CancelNotified, StreamStep, StreamRecv, StreamEnd, StreamDrop, Shutdown, vars
<1>2. ASSUME NEW id \in Ids, requests'[id].chan = n
      PROVE  requests[id].chan = n
  <2>1. n # 0 /\ n # Len(channels) + 1
    BY DEF TypeOK
  <2>2. SUFFICES ASSUME requests'[id].chan # requests[id].chan
                 PROVE  FALSE
    BY <1>2
  <2>3. ASSUME NEW t \in Threads, AcceptStep(t)
        PROVE  FALSE
    <3>1. CASE AcceptInsert(t)
      <4>1. call[t].id \in Ids
        BY <3>1, CallTypes DEF AcceptInsert
      <4>2. requests'[call[t].id].chan = Len(channels) + 1
        BY <3>1, <4>1, Domains DEF AcceptInsert
      <4>3. \A j \in Ids : j # call[t].id => requests'[j] = requests[j]
        BY <3>1, <4>1, Domains DEF AcceptInsert
      <4>4. QED  BY <1>2, <2>1, <2>2, <4>2, <4>3
    <3>2. CASE AcceptRollback(t)
      <4>1. call[t].id \in Ids
        BY <3>2, CallTypes DEF AcceptRollback
      <4>2. requests'[call[t].id].chan = 0
        BY <3>2, <4>1, Domains DEF AcceptRollback, NoEntry
      <4>3. \A j \in Ids : j # call[t].id => requests'[j] = requests[j]
        BY <3>2, <4>1, Domains DEF AcceptRollback
      <4>4. QED  BY <1>2, <2>1, <2>2, <4>2, <4>3
    <3>3. CASE AcceptDuplicate(t) \/ AcceptSubmitted(t)
      BY <2>2, <3>3 DEF AcceptDuplicate, AcceptSubmitted
    <3>4. QED  BY <2>3, <3>1, <3>2, <3>3 DEF AcceptStep
  <2>4. ASSUME NEW t \in Threads, PushStep(t)
        PROVE  FALSE
    <3> DEFINE i == call[t].id
    <3>1. CASE PushValidate(t)
      <4>1. i \in Ids /\ requests[i] \in Entry
        BY <3>1, CallTypes, EntryTypes DEF PushValidate, Pushable, NoEntry
      <4>2. requests'[i].chan = requests[i].chan
        BY <3>1, <4>1, Domains DEF PushValidate, Entry
      <4>3. \A j \in Ids : j # i => requests'[j] = requests[j]
        BY <3>1, <4>1, Domains DEF PushValidate
      <4>4. QED  BY <2>2, <4>1, <4>2, <4>3
    <3>2. CASE PushFinish(t)
      <4>1. i \in Ids
        BY <3>2, CallTypes DEF PushFinish
      <4>2. requests[i] # NoEntry => requests'[i].chan = requests[i].chan
        BY <3>2, <4>1, Domains, EntryTypes DEF PushFinish, Entry
      <4>3. \A j \in Ids : j # i => requests'[j] = requests[j]
        BY <3>2, <4>1, Domains DEF PushFinish
      <4>4. requests[i] = NoEntry => requests' = requests
        BY <3>2 DEF PushFinish
      <4>5. QED  BY <2>2, <4>1, <4>2, <4>3, <4>4
    <3>3. CASE PushRefused(t) \/ PushBackpressure(t) \/ PushClosed(t) \/ PushSend(t)
      BY <2>2, <3>3 DEF PushRefused, PushBackpressure, PushClosed, PushSend
    <3>4. QED  BY <2>4, <3>1, <3>2, <3>3 DEF PushStep
  <2>5. ASSUME NEW t \in Threads, CancelMark(t)
        PROVE  FALSE
    <3> DEFINE i == call[t].id
    <3>1. i \in Ids /\ requests[i] \in Entry
      BY <2>5, CallTypes, EntryTypes DEF CancelMark, NoEntry
    <3>2. requests'[i].chan = requests[i].chan
      BY <2>5, <3>1, Domains DEF CancelMark, Entry
    <3>3. \A j \in Ids : j # i => requests'[j] = requests[j]
      BY <2>5, <3>1, Domains DEF CancelMark
    <3>4. QED  BY <2>2, <3>1, <3>2, <3>3
  <2>6. QED
    BY <2>2, <2>3, <2>4, <2>5
    DEF Next, CallStep, EnsureOpen, SubscribeTake, SubscribeUnknown, CancelReject,
        CancelNotified, StreamStep, StreamRecv, StreamEnd, StreamDrop, Shutdown, vars
<1>3. ASSUME NEW u \in Threads, call'[u].op \in {"send", "finish"}, call'[u].chan = n
      PROVE  Open(n)
  <2>1. CASE call'[u] = call[u]
    BY <1>3, <2>1 DEF Open
  <2>2. ASSUME NEW t \in Threads, PushStep(t), call'[u] # call[u]
        PROVE  Open(n)
    <3>1. Idle.op = "idle"
      BY DEF Idle
    <3>2. CASE PushValidate(t)
      <4>1. u = t /\ call'[t].chan = requests[call[t].id].chan
        BY <2>2, <3>2, Domains DEF PushValidate
      <4>2. call[t].id \in Ids /\ Live(call[t].id) /\ requests[call[t].id] # NoEntry
        BY <3>2, CallTypes DEF PushValidate, Pushable, Live, NoEntry
      <4>3. requests[call[t].id].sender
        BY <4>2 DEF Ownership, EntryKept
      <4>4. QED  BY <1>3, <4>1, <4>2, <4>3 DEF Open
    <3>3. CASE PushSend(t)
      <4>1. call[t] \in Rest /\ call[t].op = "send"
        BY <3>3 DEF PushSend, TypeOK, Idle, Calls
      <4>2. CASE call[t].frame.final
        <5>1. call' = [call EXCEPT ![t].op = "finish"]
          BY <3>3, <4>2 DEF PushSend
        <5>2. u = t /\ call'[t] = [call[t] EXCEPT !.op = "finish"]
          BY <2>2, <5>1, Domains
        <5>3. call'[t].chan = call[t].chan
          BY <4>1, <5>2 DEF Rest
        <5>4. QED  BY <1>3, <4>1, <5>2, <5>3 DEF Open
      <4>3. CASE ~ call[t].frame.final
        BY <1>3, <2>2, <3>1, <3>3, <4>3, Domains DEF PushSend, Return
      <4>4. QED  BY <4>2, <4>3
    <3>4. CASE PushRefused(t) \/ PushBackpressure(t) \/ PushClosed(t) \/ PushFinish(t)
      BY <1>3, <2>2, <3>1, <3>4, Domains
      DEF PushRefused, PushBackpressure, PushClosed, PushFinish, Return
    <3>5. QED  BY <2>2, <3>2, <3>3, <3>4 DEF PushStep
  <2>3. ASSUME NEW t \in Threads, CallStep(t), ~ PushStep(t), call'[u] # call[u]
        PROVE  Open(n)
    <3>1. Idle.op = "idle"
      BY DEF Idle
    <3>2. u = t => call'[u].op \notin {"send", "finish"}
      BY <2>3, <3>1, Domains
      DEF CallStep, AcceptStep, AcceptDuplicate, AcceptInsert, AcceptSubmitted, AcceptRollback,
          SubscribeTake, SubscribeUnknown, CancelReject, CancelMark, CancelNotified, Return
    <3>3. u # t => call'[u] = call[u]
      BY <2>3, Domains
      DEF CallStep, AcceptStep, AcceptDuplicate, AcceptInsert, AcceptSubmitted, AcceptRollback,
          SubscribeTake, SubscribeUnknown, CancelReject, CancelMark, CancelNotified, Return
    <3>4. QED  BY <1>3, <2>3, <3>2, <3>3
  <2>4. ASSUME NEW t \in Threads, NEW c \in Calls, EnsureOpen(t, c), call'[u] # call[u]
        PROVE  Open(n)
    <3>1. call'[u] = c
      BY <2>4, Domains DEF EnsureOpen
    <3>2. QED  BY <1>3, <3>1 DEF Calls
  <2>5. CASE UNCHANGED call
    BY <2>1, <2>5
  <2>6. QED
    BY <2>1, <2>2, <2>3, <2>4, <2>5
    DEF Next, StreamStep, StreamRecv, StreamEnd, StreamDrop, Shutdown, vars
<1>4. QED  BY <1>1, <1>2, <1>3 DEF Open

\* A channel that is seen to have ended has just been ended by its reader, or
\* is what it was.
LEMMA EndedStays ==
    ASSUME TypeOK, [Next]_vars, NEW n \in DOMAIN channels, channels'[n].rx = "ended"
    PROVE  channels'[n] = channels[n] \/ StreamEnd(n)
<1>1. channels \in Seq(Channel) /\ channels[n] \in Channel
  BY DEF TypeOK
<1>2. SUFFICES ASSUME channels'[n] # channels[n]
               PROVE  StreamEnd(n)
  OBVIOUS
<1>3. ASSUME NEW m \in DOMAIN channels, NEW rx, rx # "ended",
             channels' = [channels EXCEPT ![m].rx = rx]
      PROVE  FALSE
  BY <1>1, <1>2, <1>3 DEF Channel
<1>4. ASSUME NEW t \in Threads, AcceptStep(t)
      PROVE  FALSE
  <2>1. CASE AcceptInsert(t)
    BY <1>1, <1>2, <2>1, AddChannel DEF AcceptInsert
  <2>2. CASE AcceptRollback(t)
    <3>1. requests[call[t].id].chan \in DOMAIN channels
      BY <1>2, <2>2, CallTypes, EntryTypes DEF AcceptRollback
    <3>2. channels' = [channels EXCEPT ![requests[call[t].id].chan].rx = "dropped"]
      BY <1>2, <2>2 DEF AcceptRollback
    <3>3. QED  BY <1>3, <3>1, <3>2
  <2>3. CASE AcceptDuplicate(t) \/ AcceptSubmitted(t)
    BY <1>2, <2>3 DEF AcceptDuplicate, AcceptSubmitted
  <2>4. QED  BY <1>4, <2>1, <2>2, <2>3 DEF AcceptStep
<1>5. ASSUME NEW t \in Threads, PushStep(t)
      PROVE  FALSE
  <2>1. CASE PushSend(t)
    <3>1. call[t].chan \in DOMAIN channels /\ channels[call[t].chan] \in Channel
      BY <2>1, CallTypes DEF PushSend
    <3>2. /\ channels' = [channels EXCEPT ![call[t].chan].sent = Append(@, call[t].frame)]
          /\ channels[call[t].chan].rx # "ended"
      BY <2>1 DEF PushSend
    <3>3. channels'[call[t].chan].rx = channels[call[t].chan].rx
      BY <3>1, <3>2 DEF Channel
    <3>4. n # call[t].chan
      BY <3>2, <3>3
    <3>5. QED  BY <1>1, <1>2, <3>1, <3>2, <3>4
  <2>2. CASE ~ PushSend(t)
    BY <1>2, <1>5, <2>2
    DEF PushStep, PushRefused, PushValidate, PushBackpressure, PushClosed, PushFinish
  <2>3. QED  BY <2>1, <2>2
<1>6. ASSUME NEW t \in Threads, SubscribeTake(t)
      PROVE  FALSE
  <2>1. requests[call[t].id].chan \in DOMAIN channels
    BY <1>6, CallTypes, EntryTypes DEF SubscribeTake
  <2>2. channels' = [channels EXCEPT ![requests[call[t].id].chan].rx = "held"]
    BY <1>6 DEF SubscribeTake
  <2>3. QED  BY <1>3, <2>1, <2>2
<1>7. ASSUME NEW t \in Threads, CancelMark(t)
      PROVE  FALSE
  <2>1. call[t].id \in Ids
    BY <1>7, CallTypes DEF CancelMark
  <2>2. requests[call[t].id].chan \in DOMAIN channels
    BY <1>7, <2>1, EntryTypes DEF CancelMark, NoEntry
  <2>3. channels' = [channels EXCEPT ![requests[call[t].id].chan].rx = "dropped"]
    BY <1>2, <1>7 DEF CancelMark
  <2>4. QED  BY <1>3, <2>2, <2>3
<1>8. ASSUME NEW m \in DOMAIN channels, StreamStep(m) \/ StreamDrop(m)
      PROVE  StreamEnd(n)
  <2>1. channels[m] \in Channel
    BY <1>1
  <2>2. m = n
    BY <1>1, <1>2, <1>8 DEF StreamStep, StreamRecv, StreamEnd, StreamDrop
  <2>3. ~ StreamDrop(n)
    BY <1>3 DEF StreamDrop
  <2>4. ~ StreamRecv(n)
    <3>1. SUFFICES ASSUME StreamRecv(n)
                   PROVE  FALSE
      OBVIOUS
    <3>2. channels'[n] = [channels[n] EXCEPT !.taken = @ + 1] /\ channels[n].rx = "held"
      BY <1>1, <3>1 DEF StreamRecv
    <3>3. QED  BY <1>1, <3>2 DEF Channel
  <2>5. QED  BY <1>8, <2>2, <2>3, <2>4 DEF StreamStep
<1>9. ASSUME NEW t \in Threads, NEW c \in Calls, EnsureOpen(t, c)
      PROVE  FALSE
  BY <1>2, <1>9 DEF EnsureOpen
<1>10. ASSUME NEW t \in Threads, CallStep(t)
       PROVE  FALSE
  BY <1>2, <1>4, <1>5, <1>6, <1>7, <1>10
  DEF CallStep, SubscribeUnknown, CancelReject, CancelNotified
<1>11. CASE Shutdown
  BY <1>2, <1>11 DEF Shutdown
<1>12. CASE UNCHANGED vars
  BY <1>2, <1>12 DEF vars
<1>13. QED  BY <1>8, <1>9, <1>10, <1>11, <1>12 DEF Next

\* An ended channel stays at its end.
LEMMA EndedNext ==
    ASSUME TypeOK, TypeOK', Ownership, EndedForGood, [Next]_vars
    PROVE  EndedForGood'
<1>1. SUFFICES ASSUME NEW n \in DOMAIN channels', channels'[n].rx = "ended"
               PROVE  channels'[n].taken = Len(channels'[n].sent) /\ ~ Open(n)'
  BY DEF EndedForGood, Ended
<1>2. n \in DOMAIN channels
  <2>1. SUFFICES ASSUME n \notin DOMAIN channels
                 PROVE  FALSE
    OBVIOUS
  <2>2. channels \in Seq(Channel)
    BY DEF TypeOK
  <2>3. PICK t \in Threads : AcceptInsert(t)
    BY <1>1, <2>1, <2>2
    DEF Next, EnsureOpen, CallStep, AcceptStep, AcceptDuplicate, AcceptSubmitted, AcceptRollback,
        PushStep, PushRefused, PushValidate, PushBackpressure, PushClosed, PushSend, PushFinish,
        SubscribeTake, SubscribeUnknown, CancelReject, CancelMark, CancelNotified,
        StreamStep, StreamRecv, StreamEnd, StreamDrop, Shutdown, vars
  <2>4. channels'[n] = NewChannel
    BY <1>1, <2>1, <2>2, <2>3, AddChannel DEF AcceptInsert
  <2>5. QED  BY <1>1, <2>4 DEF NewChannel
<1>3. Open(n)' => Open(n)
  BY <1>2, NoNewSender
<1>4. CASE channels'[n] = channels[n]
  BY <1>1, <1>2, <1>3, <1>4 DEF EndedForGood, Ended
<1>5. CASE StreamEnd(n)
  <2>1. channels \in Seq(Channel) /\ channels[n] \in Channel
    BY <1>2 DEF TypeOK
  <2>2. channels'[n].sent = channels[n].sent /\ channels'[n].taken = channels[n].taken
    BY <1>2, <1>5, <2>1 DEF StreamEnd, Channel
  <2>3. channels[n].taken \in Nat /\ Len(channels[n].sent) \in Nat
    BY <2>1 DEF Channel
  <2>4. Len(channels[n].sent) - channels[n].taken = 0 /\ ~ Open(n)
    BY <1>5 DEF StreamEnd, buffered
  <2>5. QED  BY <1>3, <2>2, <2>3, <2>4
<1>6. QED  BY <1>1, <1>2, <1>4, <1>5, EndedStays

(***************************************************************************)
(* The theorems                                                            *)
(***************************************************************************)
\* The invariant holds of a router that has just been made.
LEMMA InvInit ==
    ASSUME Init
    PROVE  Inv
<1>1. DOMAIN channels = {} /\ channels \in Seq(Channel)
  BY DEF Init
<1>2. \A t \in Threads : call[t] = Idle /\ call[t].op = "idle"
  BY DEF Init, Idle
<1>3. \A id \in Ids : requests[id] = NoEntry /\ requests[id].chan = 0
  BY DEF Init, NoEntry
<1>4. TypeOK
  <2>1. requests \in [Ids -> Entry \cup {NoEntry}] /\ call \in [Threads -> {Idle} \cup Calls \cup Rest]
    BY DEF Init
  <2>2. QED  BY <1>1, <1>2, <1>3, <2>1 DEF Init, TypeOK
<1>5. Ownership
  BY <1>2, <1>3 DEF Init, Ownership, SubmitOwnsEntry, DriverOwnsPush, EntryKept, PushPcs
<1>6. Contents
  BY <1>2, <1>3 DEF Contents, EntryMatchesChannel, SendIsNext, FinishIsLast
<1>7. StreamWellFormed /\ EndedForGood
  BY <1>1 DEF StreamWellFormed, EndedForGood
<1>8. QED  BY <1>4, <1>5, <1>6, <1>7 DEF Inv

\* Types (Router::new and the three phases of push_frame): every entry's
\* channel exists, every call is at a place the code has and no more frames are
\* received than were sent, whoever pushes.
THEOREM RouterTypeCorrect == Spec => []TypeOK
<1>1. Init => TypeOK
  BY InvInit DEF Inv
<1>2. TypeOK /\ [Next]_vars => TypeOK'
  BY TypeNext
<1>3. QED  BY <1>1, <1>2, PTL DEF Spec

\* The inductive invariant of the router, when its frames come from the engine
\* driver: who owns an entry, what its channel holds, which ends are final.
THEOREM RouterInvariant ==
    ASSUME DriverPush
    PROVE  Spec => []Inv
<1>1. Init => Inv
  BY InvInit
<1>2. Inv /\ [Next]_vars => Inv'
  BY TypeNext, OwnershipNext, ContentsNext, EndedNext DEF Inv
<1>3. QED  BY <1>1, <1>2, PTL DEF Spec

\* "The frame is forwarded, in order": what a subscriber is sent has increasing
\* indices and nothing behind a final frame, although push_frame() sends
\* outside the lock that checked the index.
THEOREM StreamsAreWellFormed ==
    ASSUME DriverPush
    PROVE  Spec => []StreamWellFormed
<1>1. Inv => StreamWellFormed
  BY DEF Inv
<1>2. QED  BY <1>1, RouterInvariant, PTL

\* End-of-stream means the end of the request: the entry is terminal, and if it
\* is complete the subscriber got every frame and the last one was final,
\* whatever cancel(), a rollback of accept() or a push in its last phase did
\* beside it.
THEOREM EndOfStreamIsTheEnd ==
    ASSUME DriverPush
    PROVE  Spec => []EndOfStreamIsTruthful
<1>1. Inv => EndOfStreamIsTruthful
  <2>1. SUFFICES ASSUME Inv, NEW n \in DOMAIN channels, channels[n].rx = "ended"
                 PROVE  /\ channels[n].taken = Len(channels[n].sent)
                        /\ \A id \in Ids : requests[id].chan = n =>
                              /\ is_terminal(requests[id].state)
                              /\ requests[id].state = "Complete" =>
                                   /\ channels[n].sent # <<>>
                                   /\ channels[n].sent[Len(channels[n].sent)].final
    BY DEF EndOfStreamIsTruthful
  <2>2. channels[n].taken = Len(channels[n].sent) /\ ~ Open(n)
    BY <2>1 DEF Inv, EndedForGood, Ended
  <2>3. ASSUME NEW id \in Ids, requests[id].chan = n
        PROVE  /\ is_terminal(requests[id].state)
               /\ requests[id].state = "Complete" =>
                    channels[n].sent # <<>> /\ channels[n].sent[Len(channels[n].sent)].final
    <3>1. n # 0
      BY <2>1 DEF Inv, TypeOK
    <3>2. requests[id] # NoEntry /\ requests[id] \in Entry /\ requests[id].state \in RequestState
      BY <2>1, <2>3, <3>1, EntryTypes DEF Inv
    <3>3. requests[id].sender \in BOOLEAN /\ ~ requests[id].sender
      BY <2>2, <2>3, <3>2 DEF Open, Entry
    <3>4. ~ Live(id)
      BY <2>1, <3>2, <3>3 DEF Inv, Ownership, EntryKept
    <3>5. is_terminal(requests[id].state)
      BY <3>2, <3>4 DEF Live, RequestState, is_terminal
    <3>6. EntryMatchesChannel(id)
      BY <2>1 DEF Inv, Contents
    <3>7. QED  BY <2>3, <3>2, <3>5, <3>6 DEF EntryMatchesChannel, sentTo
  <2>4. QED  BY <2>2, <2>3
<1>2. QED  BY <1>1, RouterInvariant, PTL
===============================================================================
