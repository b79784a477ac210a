------------------------------- MODULE Metering -------------------------------
(***************************************************************************)
(* Token accounting of a proxied completion (serving/metering.py): what    *)
(* plan_request decides, and the ResponseMeter that metered()              *)
(* (serving/llm_proxy.py) feeds with the upstream's chunks, cut anywhere,  *)
(* until the stream ends or is given up.                                   *)
(*                                                                         *)
(* A payload (the JSON of one SSE data line, or a whole non-streamed body) *)
(* is a sequence of bytes of which only the place and the payload it       *)
(* belongs to are kept: it parses when all of its bytes are there.         *)
(***************************************************************************)
EXTENDS Integers, Sequences, FiniteSets, FiniteSetsExt, SequencesExt

CONSTANTS
    Counts,     \* token counts an upstream reports
    MaxLines,   \* bound: lines of a streamed response
    MaxBody     \* _MAX_ACCUMULATE_BYTES

ASSUME MeteringAssumption ==
    Counts \subseteq Nat /\ MaxLines \in Nat /\ MaxBody \in Nat \ {0}

(***************************************************************************)
(* The bytes                                                               *)
(***************************************************************************)
None == -1

\* delta: content, no usage; other: a comment, [DONE], or a chunk without
\* content; usage: a usage object and empty choices; both: usage and content.
PayloadKinds == {<<"delta", None>>, <<"other", None>>}
                  \cup ({"usage", "both"} \X Counts)

Blank == <<"blank", None>>
Byte(payload, part, of) == [payload |-> payload, part |-> part, of |-> of]
NL == Byte(Blank, 1, 1)
Bytes(payload, of) == [i \in 1 .. of |-> Byte(payload, i, of)]

\* The two-byte payload of a data line, and the line; or an empty line.
Line(payload) == IF payload = Blank THEN <<NL>> ELSE Bytes(payload, 2) \o <<NL>>

SseStreams ==
    LET Whole(ls) == FlattenSeq([i \in DOMAIN ls |-> Line(ls[i])])
        Ended == {Whole(ls) : ls \in UNION {[1 .. n -> PayloadKinds \cup {Blank}] :
                                              n \in 1 .. MaxLines}}
    IN  Ended \cup {SubSeq(s, 1, Len(s) - 1) : s \in Ended}

Bodies == {Bytes(p, of) : p \in PayloadKinds, of \in 1 .. MaxBody + 1}

\* A line without its newline; a body has none.
Strip(bytes) == IF bytes # <<>> /\ bytes[Len(bytes)] = NL THEN SubSeq(bytes, 1, Len(bytes) - 1)
                                                         ELSE bytes

\* json.loads on a line or a body.
Loads(bytes) ==
    LET s == Strip(bytes)
    IN  IF s # <<>> /\ s = Bytes(s[1].payload, s[1].of) THEN s[1].payload
                                                        ELSE <<"invalid", None>>

\* _usage_from_obj: the count, or None.
UsageOf(payload) == payload[2]

(***************************************************************************)
(* plan_request                                                            *)
(***************************************************************************)
\* body: the request is not a JSON object, asks for one answer, or streams;
\* include_usage: what its stream_options say, if they say it.
ClientRequests == [body : {"opaque", "plain", "stream"},
                   include_usage : {"unset", "true", "false"}]

plan_request(req) ==
    [streaming |-> req.body = "stream",
     injected_usage |-> req.body = "stream" /\ req.include_usage = "unset"]

VARIABLES
    request,   \* the client's request
    response,  \* the bytes the upstream is going to send
    received,  \* how many have been fed to the meter
    meter,     \* the ResponseMeter
    out,       \* the bytes metered() has yielded
    phase      \* feeding, flushed (the tail yielded), or closed

meterVars == <<request, response, received, meter, out, phase>>

plan == plan_request(request)

MeterInit ==
    /\ request \in ClientRequests
    /\ response \in IF request.body = "stream" THEN SseStreams ELSE Bodies
    /\ received = 0
    /\ meter = [buffer |-> <<>>, body |-> <<>>, truncated |-> FALSE, usage |-> None,
                delta_chunks |-> 0, drop_next_blank |-> FALSE, forward |-> <<>>]
    /\ out = <<>>
    /\ phase = "feeding"

(***************************************************************************)
(* ResponseMeter                                                           *)
(***************************************************************************)
\* _inspect_sse_line: the meter after it, and whether to suppress the line.
Inspect(m, line) ==
    LET payload == Loads(line)
    IN  IF UsageOf(payload) # None THEN [m EXCEPT !.usage = UsageOf(payload)]
        ELSE IF payload[1] = "delta" THEN [m EXCEPT !.delta_chunks = @ + 1]
        ELSE m

Suppressed(line) == plan.injected_usage /\ Loads(line)[1] = "usage"

\* Mutant: a line that is forwarded leaves drop_next_blank set.
ForwardLineSticky(m, line) ==
    IF line = <<NL>> THEN
        IF m.drop_next_blank THEN [m EXCEPT !.drop_next_blank = FALSE]
                             ELSE [m EXCEPT !.forward = @ \o line]
    ELSE IF Suppressed(line) THEN [Inspect(m, line) EXCEPT !.drop_next_blank = TRUE]
    ELSE [Inspect(m, line) EXCEPT !.forward = @ \o line]

ForwardLine(m, line) ==
    IF line = <<NL>> THEN
        IF m.drop_next_blank THEN [m EXCEPT !.drop_next_blank = FALSE]
                             ELSE [m EXCEPT !.forward = @ \o line]
    ELSE IF Suppressed(line) THEN [Inspect(m, line) EXCEPT !.drop_next_blank = TRUE]
    ELSE [Inspect(m, line) EXCEPT !.drop_next_blank = FALSE, !.forward = @ \o line]

\* One byte more in the buffer, and a line when it is a newline.
FeedByte(m, b) ==
    LET line == Append(m.buffer, b)
    IN  IF b = NL THEN ForwardLine([m EXCEPT !.buffer = <<>>], line)
                  ELSE [m EXCEPT !.buffer = line]

Accumulate(m, chunk) ==
    IF m.truncated THEN m
    ELSE IF Len(m.body) + Len(chunk) > MaxBody
      THEN [m EXCEPT !.truncated = TRUE, !.body = <<>>]
      ELSE [m EXCEPT !.body = @ \o chunk]

\* _feed_sse(): the meter after the chunk, byte by byte.
Fed(m, chunk) ==
    LET fed[n \in 0 .. Len(chunk)] ==
            IF n = 0 THEN [m EXCEPT !.forward = <<>>] ELSE FeedByte(fed[n - 1], chunk[n])
    IN  fed[Len(chunk)]

\* feed(): what it returns is in the field forward.
feed(m, chunk) == IF plan.streaming THEN Fed(m, chunk)
                                    ELSE [Accumulate(m, chunk) EXCEPT !.forward = chunk]

\* Mutant: the tail is flushed but not inspected.
finish_blind(m) ==
    IF plan.streaming THEN [m EXCEPT !.buffer = <<>>, !.forward = m.buffer]
    ELSE [m EXCEPT !.forward = <<>>,
                   !.usage = IF m.truncated THEN @ ELSE UsageOf(Loads(m.body))]

finish(m) ==
    IF plan.streaming THEN
        LET seen == IF m.buffer = <<>> THEN m ELSE Inspect(m, m.buffer)
        IN  [seen EXCEPT !.buffer = <<>>, !.forward = m.buffer]
    ELSE [m EXCEPT !.forward = <<>>,
                   !.usage = IF m.truncated THEN @ ELSE UsageOf(Loads(m.body))]

\* The properties usage and exact.
exact(m) == m.usage # None
tokens(m) == IF exact(m) THEN m.usage ELSE m.delta_chunks

(***************************************************************************)
(* metered()                                                               *)
(***************************************************************************)
Chunk(n) ==
    /\ phase = "feeding"
    /\ meter' = feed(meter, SubSeq(response, received + 1, received + n))
    /\ out' = out \o meter'.forward
    /\ received' = received + n
    /\ UNCHANGED <<request, response, phase>>

EndOfStream ==
    /\ phase = "feeding"
    /\ received = Len(response)
    /\ meter' = finish(meter)
    /\ out' = out \o meter'.forward
    /\ phase' = "flushed"
    /\ UNCHANGED <<request, response, received>>

\* The finally block, after the end of the stream or, when the client
\* disconnects or the upstream breaks, at any point before it.  What finish()
\* returns is dropped.
Finally ==
    /\ phase \in {"feeding", "flushed"}
    /\ meter' = finish(meter)
    /\ phase' = "closed"
    /\ UNCHANGED <<request, response, received, out>>

MeterNext ==
    \/ \E n \in 1 .. Len(response) - received : Chunk(n)
    \/ EndOfStream
    \/ Finally

MeterSpec == MeterInit /\ [][MeterNext]_meterVars

(***************************************************************************)
(* Properties                                                              *)
(***************************************************************************)
\* The meter is well typed; its buffer never holds a complete line and its
\* body never more than the limit (_MAX_ACCUMULATE_BYTES).
MeterTypeOK ==
    /\ request \in ClientRequests
    /\ received \in 0 .. Len(response)
    /\ phase \in {"feeding", "flushed", "closed"}
    /\ \A i \in DOMAIN meter.buffer : meter.buffer[i] # NL
    /\ Len(meter.body) <= MaxBody
    /\ meter.usage \in Counts \cup {None}
    /\ meter.delta_chunks \in Nat
    /\ meter.truncated \in BOOLEAN /\ meter.drop_next_blank \in BOOLEAN

(* The reference: the lines of a byte sequence by the places of their first *)
(* and last bytes, with no memory between lines.                            *)
Starts(s) == {i \in DOMAIN s : i = 1 \/ s[i - 1] = NL}
EndOf(s, i) == LET ends == {j \in i .. Len(s) : s[j] = NL}
               IN  IF ends = {} THEN Len(s) ELSE Min(ends)
LineAt(s, i) == SubSeq(s, i, EndOf(s, i))
Complete(s, i) == s[EndOf(s, i)] = NL
Ended(s) == {i \in Starts(s) : Complete(s, i)}

\* A line is hidden when it is the usage event the injection caused, or the
\* empty line that ends that event.
IsUsageEvent(s, i) == Loads(LineAt(s, i))[1] = "usage"
Hidden(s, i) ==
    /\ plan.injected_usage
    /\ Complete(s, i)
    /\ \/ IsUsageEvent(s, i)
       \/ s[i] = NL /\ \E h \in Starts(s) : EndOf(s, h) = i - 1 /\ IsUsageEvent(s, h)

\* The places of the bytes of those lines that are not hidden.
Shown(s, lines) == UNION {i .. EndOf(s, i) : i \in {j \in lines : ~Hidden(s, j)}}

\* o is what s has at the places K, in their order.
Selects(o, s, K) ==
    /\ Len(o) = Cardinality(K)
    /\ \A i \in K : o[Cardinality({j \in K : j <= i})] = s[i]

Sent == SubSeq(response, 1, received)

\* However the upstream's bytes are cut into chunks, the client has got every
\* complete line, in order and at once, except the injected usage event and
\* its empty line, and at the end of the stream the unterminated rest; a
\* response that is not streamed is forwarded verbatim
\* (ResponseMeter.feed, finish).
ForwardedByTheLine ==
    IF plan.streaming
      THEN \/ phase # "flushed" /\ Selects(out, Sent, Shown(Sent, Ended(Sent)))
           \/ phase # "feeding" /\ Selects(out, Sent, Shown(Sent, Starts(Sent)))
      ELSE out = Sent

\* The lines the meter counts: the complete ones, and once it has finished
\* the unterminated rest.
Counted == {i \in Starts(Sent) : Complete(Sent, i) \/ phase # "feeding"}
Reports == {i \in Counted : UsageOf(Loads(LineAt(Sent, i))) # None}

\* What is billed: the last count the upstream reported in the bytes that
\* arrived, and exact exactly then; else one token for each content delta.  A
\* non-streamed body is counted when all of it arrived and it was not too
\* large (ResponseMeter.usage, exact).
BilledIsReported ==
    phase # "feeding" =>
        IF plan.streaming THEN
            /\ exact(meter) = (Reports # {})
            /\ Reports # {} =>
                 tokens(meter) = UsageOf(Loads(LineAt(Sent, Max(Reports))))
            /\ Reports = {} =>
                 tokens(meter) =
                   Cardinality({i \in Counted : Loads(LineAt(Sent, i))[1] = "delta"})
        ELSE
            /\ exact(meter) = (/\ received = Len(response) /\ received <= MaxBody
                               /\ UsageOf(Loads(response)) # None)
            /\ tokens(meter) = IF exact(meter) THEN UsageOf(Loads(response)) ELSE 0
=============================================================================
