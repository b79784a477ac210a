------------------------------- MODULE Gateway --------------------------------
(***************************************************************************)
(* Tenancy and billing of the gateway: the API key store                   *)
(* (serving/tenancy.py), the append-only usage ledger (serving/usage.py),  *)
(* the authentication dependency of serving/app.py and the life of a       *)
(* proxied completion (serving/llm_proxy.py), with an upstream that fails, *)
(* clients that disconnect, a ledger that cannot be written and an         *)
(* operator who manages keys from another process (cli.py).                *)
(*                                                                         *)
(* The dependency runs on a threadpool thread of its own per request and   *)
(* takes the store's lock and the ledger's lock one after the other, so    *)
(* authenticating, checking the quota and serving are separate steps.      *)
(* Time is the number of the current UTC month.                            *)
(***************************************************************************)
EXTENDS Integers, Sequences, FiniteSets, SequencesExt

CONSTANTS
    Keys,        \* key ids an operator may mint
    Calls,       \* requests the server works on at the same time
    Quotas,      \* monthly_token_quota values the operator gives
    NoQuota,     \* monthly_token_quota = None
    MaxTokens,   \* bound: tokens of one call
    MaxCalls,    \* bound: calls ever made
    MaxMonths    \* bound: months

ASSUME GatewayAssumption ==
    /\ Quotas \subseteq Nat /\ NoQuota \notin Quotas
    /\ MaxTokens \in Nat /\ MaxCalls \in Nat /\ MaxMonths \in Nat \ {0}
    /\ IsFiniteSet(Calls) /\ Calls # {}
    /\ Keys \cap {"legacy-shared", "anonymous"} = {}

Principals == Keys \cup {"legacy-shared", "anonymous"}

\* What a client may present: a minted key, the shared token, a malformed,
\* unknown or wrong-secret credential, or no Authorization header.
Bearers == Keys \cup {"token", "garbage", "missing"}

VARIABLES
    config,    \* create_app's key_store, api_token and usage_ledger: given or None
    api_keys,  \* the key table: absent, active, or revoked, and the quota
    ledger,    \* usage_events, in the order of the inserts
    month,
    call,      \* each request being served
    count,     \* calls started so far; a call is known by its number
    refused,   \* history: calls answered 401, 429, or 500 before they were sent
    lost,      \* history: calls that were let in and ended without a row
    revoked_at \* history: the value of count when a key was revoked

vars == <<config, api_keys, ledger, month, call, count, refused, lost, revoked_at>>

Idle == [pc |-> "idle"]

\* n: the call's number; who: request.state.principal and its quota as
\* authenticate() read them; tokens, exact: the ResponseMeter's usage.
Request(pc, n, who, quota, since, tokens, exact) ==
    [pc |-> pc, n |-> n, who |-> who, quota |-> quota, since |-> since,
     tokens |-> tokens, exact |-> exact]

UsageEvent(n, key_id, tokens, exact) ==
    [n |-> n, key_id |-> key_id, tokens |-> tokens, exact |-> exact, ts |-> month]

Init ==
    /\ config \in [key_store : BOOLEAN, api_token : BOOLEAN, usage_ledger : BOOLEAN]
    /\ api_keys = [k \in Keys |-> [st |-> "absent", quota |-> NoQuota]]
    /\ ledger = <<>>
    /\ month = 1
    /\ call = [c \in Calls |-> Idle]
    /\ count = 0
    /\ refused = {} /\ lost = {}
    /\ revoked_at = [k \in Keys |-> 0]

(***************************************************************************)
(* The operator's process and the calendar                                 *)
(***************************************************************************)
Create(k, q) ==
    /\ config.key_store
    /\ api_keys[k].st = "absent"
    /\ api_keys' = [api_keys EXCEPT ![k] = [st |-> "active", quota |-> q]]
    /\ UNCHANGED <<config, ledger, month, call, count, refused, lost, revoked_at>>

\* A tombstone: the row stays, and revoking it again changes nothing.
Revoke(k) ==
    /\ api_keys[k].st = "active"
    /\ api_keys' = [api_keys EXCEPT ![k].st = "revoked"]
    /\ revoked_at' = [revoked_at EXCEPT ![k] = count]
    /\ UNCHANGED <<config, ledger, month, call, count, refused, lost>>

\* `repercep keys' create and revoke; list changes nothing.
_keys == \E k \in Keys : Revoke(k) \/ \E q \in Quotas \cup {NoQuota} : Create(k, q)

NewMonth ==
    /\ month < MaxMonths
    /\ month' = month + 1
    /\ UNCHANGED <<config, api_keys, ledger, call, count, refused, lost, revoked_at>>

(***************************************************************************)
(* _require_api_token                                                      *)
(***************************************************************************)
\* Mutant: authenticate() does not look at revoked_at.
AuthenticateRevoked(bearer) ==
    IF bearer \in Keys /\ api_keys[bearer].st # "absent" THEN {bearer} ELSE {}

\* The principal, or no principal.
Authenticate(bearer) ==
    IF bearer \in Keys /\ api_keys[bearer].st = "active" THEN {bearer} ELSE {}

Resolve(bearer) ==
    IF ~config.key_store /\ ~config.api_token THEN {"anonymous"}
    ELSE IF config.key_store /\ Authenticate(bearer) # {} THEN Authenticate(bearer)
    ELSE IF config.api_token /\ bearer = "token" THEN {"legacy-shared"}
    ELSE {}

Reject(c, n) ==
    /\ call' = [call EXCEPT ![c] = Idle]
    /\ refused' = refused \cup {n}

\* A key's row is read from the key store; a read that raises fails the call.
Arrive(c, bearer) ==
    /\ call[c].pc = "idle"
    /\ count < MaxCalls
    /\ count' = count + 1
    /\ \/ Resolve(bearer) = {} /\ Reject(c, count')
       \/ config.key_store /\ bearer \in Keys /\ Reject(c, count')
       \/ /\ \E who \in Resolve(bearer) :
                LET quota == IF who \in Keys THEN api_keys[who].quota ELSE NoQuota
                IN  call' = [call EXCEPT ![c] =
                               Request("checking", count', who, quota, month, 0, FALSE)]
          /\ UNCHANGED refused
    /\ UNCHANGED <<config, api_keys, ledger, month, lost, revoked_at>>

\* WHERE key_id = ? AND ts >= ?, the row numbers.
Selected(rows, k, since) == {i \in DOMAIN rows : rows[i].key_id = k /\ rows[i].ts >= since}

\* SUM(column) of the lines of a table that are selected; 0 if there are none.
SumOf(column, table, selected) == MapThenSumSet(LAMBDA i : table[i][column], selected)

tokens_since(rows, k, since) == SumOf("tokens", rows, Selected(rows, k, since))

\* The invoice, GROUP BY key_id: what each key has to pay since a month.
summary(since) ==
    LET rows(k) == Selected(ledger, k, since)
    IN  [k \in {p \in Principals : rows(p) # {}} |->
            [calls |-> Cardinality(rows(k)), total |-> SumOf("tokens", ledger, rows(k)),
             estimated |-> SumOf("tokens", ledger, {i \in rows(k) : ~ledger[i].exact})]]

\* The totals of `repercep usage': the lines of all keys added up.
_usage(since) ==
    LET bill == summary(since)
        total(column) == SumOf(column, bill, DOMAIN bill)
    IN  [calls |-> total("calls"), total |-> total("total"), estimated |-> total("estimated")]

\* GET /v1/usage: a key's own line of the month's invoice.
usage(k) ==
    LET bill == summary(month)
    IN  IF k \in DOMAIN bill THEN bill[k] ELSE [calls |-> 0, total |-> 0, estimated |-> 0]

\* There is a quota, and a ledger to read what is spent of it.
HasQuota(c) == call[c].quota # NoQuota /\ config.usage_ledger

\* Mutant: a caller is refused only once it is beyond its quota.
ExhaustedLate(c, since) ==
    /\ HasQuota(c)
    /\ tokens_since(ledger, call[c].who, since) > call[c].quota

Exhausted(c, since) ==
    /\ HasQuota(c)
    /\ tokens_since(ledger, call[c].who, since) >= call[c].quota

\* month_start() is read before the ledger's lock is taken: since may be the
\* month of the arrival or any later one up to now. A read that raises fails the
\* call before it is sent.
CheckQuota(c) ==
    /\ call[c].pc = "checking"
    /\ \/ \E since \in call[c].since .. month :
            IF Exhausted(c, since) THEN Reject(c, call[c].n)
            ELSE /\ call' = [call EXCEPT ![c].pc = "sending"]
                 /\ UNCHANGED refused
       \/ HasQuota(c) /\ Reject(c, call[c].n)
    /\ UNCHANGED <<config, api_keys, ledger, month, count, lost, revoked_at>>

(***************************************************************************)
(* _proxy_post_stream                                                      *)
(***************************************************************************)
\* UsageLedger.record, with the clock's time.
Record(n, who, tokens, exact) ==
    /\ config.usage_ledger
    /\ ledger' = Append(ledger, UsageEvent(n, who, tokens, exact))
    /\ UNCHANGED lost

\* No ledger, an insert that fails, or a sink attached before the ledger's that
\* raises and so keeps the chain from reaching it.
Unrecorded(n) ==
    /\ lost' = lost \cup {n}
    /\ UNCHANGED ledger

\* _emit: a sink that raises is logged and the call goes on.
Emit(n, who, tokens, exact) == Record(n, who, tokens, exact) \/ Unrecorded(n)

\* The upstream is unreachable, or answers 4xx or 5xx: a row of zero tokens.
Fails(c) ==
    /\ call[c].pc = "sending"
    /\ Emit(call[c].n, call[c].who, 0, TRUE)
    /\ call' = [call EXCEPT ![c] = Idle]
    /\ UNCHANGED <<config, api_keys, month, count, refused, revoked_at>>

\* The body of an error response cannot be read, or the handler is cancelled
\* before there is a response: the exception leaves _proxy_post_stream before
\* any call of _emit.
Abandoned(c) ==
    /\ call[c].pc = "sending"
    /\ call' = [call EXCEPT ![c] = Idle]
    /\ lost' = lost \cup {call[c].n}
    /\ UNCHANGED <<config, api_keys, ledger, month, count, refused, revoked_at>>

Respond(c) ==
    /\ call[c].pc = "sending"
    /\ call' = [call EXCEPT ![c].pc = "streaming"]
    /\ UNCHANGED <<config, api_keys, ledger, month, count, refused, lost, revoked_at>>

\* A content delta: one estimated token, while no usage has been seen.
Delta(c) ==
    /\ call[c].pc = "streaming"
    /\ ~call[c].exact
    /\ call[c].tokens < MaxTokens
    /\ call' = [call EXCEPT ![c].tokens = @ + 1]
    /\ UNCHANGED <<config, api_keys, ledger, month, count, refused, lost, revoked_at>>

\* The upstream's own count, which replaces the estimate.
Usage(c, t) ==
    /\ call[c].pc = "streaming"
    /\ ~call[c].exact
    /\ call' = [call EXCEPT ![c].tokens = t, ![c].exact = TRUE]
    /\ UNCHANGED <<config, api_keys, ledger, month, count, refused, lost, revoked_at>>

\* Mutant: usage is reported where the stream ends and again in finally.
EndBodyReports(c) ==
    /\ call[c].pc = "streaming"
    /\ Emit(call[c].n, call[c].who, call[c].tokens, call[c].exact)
    /\ call' = [call EXCEPT ![c].pc = "closing"]
    /\ UNCHANGED <<config, api_keys, month, count, refused, revoked_at>>

\* The upstream's stream ends or breaks, or the client disconnects and
\* metered() is cancelled or left to be closed: the finally block is next.
EndBody(c) ==
    /\ call[c].pc = "streaming"
    /\ call' = [call EXCEPT ![c].pc = "closing"]
    /\ UNCHANGED <<config, api_keys, ledger, month, count, refused, lost, revoked_at>>

\* The finally block: upstream.aclose(), finish(), _emit.
Close(c) ==
    /\ call[c].pc = "closing"
    /\ Emit(call[c].n, call[c].who, call[c].tokens, call[c].exact)
    /\ call' = [call EXCEPT ![c] = Idle]
    /\ UNCHANGED <<config, api_keys, month, count, refused, revoked_at>>

Next ==
    \/ _keys
    \/ NewMonth
    \/ \E c \in Calls :
         \/ \E bearer \in Bearers : Arrive(c, bearer)
         \/ CheckQuota(c)
         \/ Fails(c) \/ Abandoned(c) \/ Respond(c)
         \/ Delta(c) \/ EndBody(c) \/ Close(c)
         \/ \E t \in 0 .. MaxTokens : Usage(c, t)

Spec == Init /\ [][Next]_vars

(***************************************************************************)
(* Properties                                                              *)
(***************************************************************************)
RequestType ==
    [pc : {"checking", "sending", "streaming", "closing"}, n : 1 .. count,
     who : Principals, quota : Quotas \cup {NoQuota}, since : 1 .. month,
     tokens : 0 .. MaxTokens, exact : BOOLEAN]

RowType ==
    [n : 1 .. count, key_id : Principals, tokens : 0 .. MaxTokens,
     exact : BOOLEAN, ts : 1 .. month]

\* The tables, the calls in flight and the history variables are well typed.
TypeOK ==
    /\ config \in [key_store : BOOLEAN, api_token : BOOLEAN, usage_ledger : BOOLEAN]
    /\ api_keys \in [Keys -> [st : {"absent", "active", "revoked"},
                              quota : Quotas \cup {NoQuota}]]
    /\ ledger \in Seq(RowType)
    /\ month \in 1 .. MaxMonths
    /\ count \in 0 .. MaxCalls
    /\ call \in [Calls -> RequestType \cup {Idle}]
    /\ refused \subseteq 1 .. count /\ lost \subseteq 1 .. count
    /\ revoked_at \in [Keys -> 0 .. count]

InFlight == {c \in Calls : call[c].pc # "idle"}
Numbers  == {call[c].n : c \in InFlight}
Billed   == {ledger[i].n : i \in DOMAIN ledger}

\* Whatever fails and whoever disconnects, every call is exactly one of in
\* flight, refused, billed by one row, or ended by a failure that is known not
\* to write a row.  No call is billed twice and none vanishes.
EveryCallOnce ==
    /\ 1 .. count = Numbers \cup refused \cup Billed \cup lost
    /\ Len(ledger) = Cardinality(Billed)
    /\ Cardinality(InFlight) = Cardinality(Numbers)
    /\ Billed \cap (Numbers \cup refused \cup lost) = {}
    /\ Numbers \cap (refused \cup lost) = {}
    /\ refused \cap lost = {}

\* Accounting: the invoice lists each billed call once, and what a key is shown
\* to have spent is what its quota is checked against.
CallsAreAccounted ==
    /\ EveryCallOnce
    /\ _usage(1).calls = Cardinality(Billed)
    /\ _usage(1).estimated <= _usage(1).total
    /\ \A k \in Principals : usage(k).total = tokens_since(ledger, k, month)

\* Revocation: a call that arrived after its key was revoked is never billed
\* to the key, while calls let in before may still add their rows.
RevokedKeyBillsNothingNew ==
    \A i \in DOMAIN ledger :
        LET k == ledger[i].key_id
        IN  k \in Keys /\ api_keys[k].st = "revoked" => ledger[i].n <= revoked_at[k]

\* The rows billed to key k in month mo after its rows of that month had
\* already reached its quota.
RowsBeyondQuota(k, mo) ==
    {i \in DOMAIN ledger :
        /\ ledger[i].key_id = k /\ ledger[i].ts = mo
        /\ tokens_since(SubSeq(ledger, 1, i - 1), k, mo) >= api_keys[k].quota}

\* What the check at the call boundary really bounds (_check_quota): a key
\* that has used up its month is let in no more, so beyond the quota come
\* only the calls that were in flight when it was reached.
OvershootIsInFlightOnly ==
    \A k \in Keys, mo \in 1 .. month :
        api_keys[k].quota # NoQuota =>
            Cardinality(RowsBeyondQuota(k, mo)) <= Cardinality(Calls) - 1
=============================================================================
