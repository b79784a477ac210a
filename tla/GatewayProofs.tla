----------------------------- MODULE GatewayProofs -----------------------------
(***************************************************************************)
(* Machine-checked facts about Gateway and Metering, for every set of      *)
(* keys, calls, quotas and token counts and every bound.                   *)
(***************************************************************************)
EXTENDS Gateway, Metering, FiniteSetTheorems, FunctionTheorems, SequenceTheorems,
        WellFoundedInduction, TLAPS

(***************************************************************************)
(* The inductive invariant                                                 *)
(***************************************************************************)
\* The rows and the requests without the bounds that move.
Rows ==
    [n : Nat, key_id : Principals, tokens : 0 .. MaxTokens, exact : BOOLEAN, ts : Nat]
Requests ==
    [pc : {"checking", "sending", "streaming", "closing"}, n : Nat, who : Principals,
     quota : Quotas \cup {NoQuota}, since : Nat, tokens : 0 .. MaxTokens, exact : BOOLEAN]

Types ==
    /\ config \in [key_store : BOOLEAN, api_token : BOOLEAN, usage_ledger : BOOLEAN]
    /\ api_keys \in [Keys -> [st : {"absent", "active", "revoked"}, quota : Quotas \cup {NoQuota}]]
    /\ ledger \in Seq(Rows)
    /\ month \in 1 .. MaxMonths /\ count \in 0 .. MaxCalls
    /\ call \in [Calls -> Requests \cup {Idle}]
    /\ refused \subseteq 1 .. count /\ lost \subseteq 1 .. count
    /\ revoked_at \in [Keys -> 0 .. count]

\* Numbers and times are those of calls and months that have been.
InThePast ==
    /\ \A i \in DOMAIN ledger : ledger[i].n \in 1 .. count /\ ledger[i].ts \in 1 .. month
    /\ \A c \in InFlight : call[c].n \in 1 .. count /\ call[c].since \in 1 .. month

\* A call's number is in one place.
OnePlace ==
    /\ \A n \in 1 .. count : n \in Numbers \cup refused \cup Billed \cup lost
    /\ \A i, j \in DOMAIN ledger : ledger[i].n = ledger[j].n => i = j
    /\ \A c, d \in InFlight : call[c].n = call[d].n => c = d
    /\ Billed \cap (Numbers \cup refused \cup lost) = {}
    /\ Numbers \cap (refused \cup lost) = {}
    /\ refused \cap lost = {}

\* Whoever was let in before the revocation has an older number, in flight or
\* billed.
LetInBefore ==
    /\ RevokedKeyBillsNothingNew
    /\ \A c \in InFlight :
          call[c].who \in Keys /\ api_keys[call[c].who].st = "revoked" =>
             call[c].n <= revoked_at[call[c].who]

Inv == Types /\ InThePast /\ OnePlace /\ LetInBefore

(***************************************************************************)
(* What a call in flight is, and what changes when it moves or ends        *)
(***************************************************************************)
LEMMA CallTypes ==
    ASSUME Types, NEW c \in Calls
    PROVE  /\ c \in InFlight => call[c] \in Requests
           /\ c \notin InFlight => call[c] = Idle
           /\ call[c].pc = "idle" <=> c \notin InFlight
<1>1. call[c] \in Requests \/ call[c] = Idle
  BY DEF Types
<1>2. call[c] \in Requests => call[c].pc # "idle"
  BY DEF Requests
<1>3. QED  BY <1>1, <1>2 DEF InFlight, Idle

\* A call that moves on stays in flight under its number.
LEMMA MovesOn ==
    ASSUME Types, NEW c \in InFlight, NEW l \in Requests, call' = [call EXCEPT ![c] = l],
           l.n = call[c].n, l.who = call[c].who, l.since = call[c].since
    PROVE  /\ call' \in [Calls -> Requests \cup {Idle}] /\ InFlight' = InFlight /\ Numbers' = Numbers
           /\ \A d \in InFlight : /\ call'[d].n = call[d].n /\ call'[d].who = call[d].who
                                  /\ call'[d].since = call[d].since
<1>1. c \in Calls /\ call[c] \in Requests
  BY CallTypes DEF InFlight
<1>2. \A d \in Calls : call'[d] = IF d = c THEN l ELSE call[d]
  BY <1>1 DEF Types
<1>3. l.pc # "idle" /\ call[c].pc # "idle"
  BY <1>1 DEF Requests
<1>4. InFlight' = InFlight
  BY <1>2, <1>3 DEF InFlight
<1>5. \A d \in InFlight : /\ call'[d].n = call[d].n /\ call'[d].who = call[d].who
                          /\ call'[d].since = call[d].since
  BY <1>2 DEF InFlight
<1>6. Numbers' = Numbers
  BY <1>4, <1>5 DEF Numbers
<1>7. call' \in [Calls -> Requests \cup {Idle}]
  BY <1>1 DEF Types
<1>8. QED  BY <1>4, <1>5, <1>6, <1>7

\* A call that ends takes its number along, and only that.
LEMMA EndsWithItsNumber ==
    ASSUME Types, OnePlace, NEW c \in InFlight, call' = [call EXCEPT ![c] = Idle]
    PROVE  /\ call' \in [Calls -> Requests \cup {Idle}]
           /\ InFlight' = InFlight \ {c} /\ Numbers' = Numbers \ {call[c].n}
           /\ \A d \in InFlight' : call'[d] = call[d]
<1>1. c \in Calls /\ call[c].pc # "idle"
  BY DEF InFlight
<1>2. \A d \in Calls : call'[d] = IF d = c THEN Idle ELSE call[d]
  BY <1>1 DEF Types
<1>3. InFlight' = InFlight \ {c}
  BY <1>2 DEF InFlight, Idle
<1>4. \A d \in InFlight' : call'[d] = call[d]
  BY <1>2, <1>3 DEF InFlight
<1>5. \A d \in InFlight \ {c} : call[d].n # call[c].n
  BY DEF OnePlace
<1>6. Numbers' = Numbers \ {call[c].n}
  BY <1>3, <1>4, <1>5 DEF Numbers
<1>7. call' \in [Calls -> Requests \cup {Idle}]
  BY <1>1 DEF Types
<1>8. QED  BY <1>3, <1>4, <1>6, <1>7

\* A row that is inserted stays behind those that are there.
LEMMA RowInserted ==
    ASSUME Types, NEW row \in Rows, ledger' = Append(ledger, row)
    PROVE  /\ ledger' \in Seq(Rows) /\ DOMAIN ledger' = 1 .. Len(ledger) + 1 /\ Len(ledger) \in Nat
           /\ DOMAIN ledger = 1 .. Len(ledger)
           /\ ledger'[Len(ledger) + 1] = row /\ \A i \in DOMAIN ledger : ledger'[i] = ledger[i]
           /\ Billed' = Billed \cup {row.n}
<1>1. ledger \in Seq(Rows) /\ Len(ledger) \in Nat /\ DOMAIN ledger = 1 .. Len(ledger)
  BY LenProperties DEF Types
<1>2. /\ ledger' \in Seq(Rows) /\ Len(ledger') = Len(ledger) + 1
      /\ ledger'[Len(ledger) + 1] = row /\ \A i \in 1 .. Len(ledger) : ledger'[i] = ledger[i]
  BY <1>1, AppendProperties
<1>3. DOMAIN ledger' = 1 .. Len(ledger) + 1
  BY <1>2, LenProperties
<1>4. \A i \in 1 .. Len(ledger) + 1 : i = Len(ledger) + 1 \/ i \in DOMAIN ledger
  BY <1>1
<1>5. Len(ledger) + 1 \in 1 .. Len(ledger) + 1 /\ DOMAIN ledger \subseteq 1 .. Len(ledger) + 1
  BY <1>1
<1>6. Billed' = {ledger'[i].n : i \in 1 .. Len(ledger) + 1}
  BY <1>3 DEF Billed
<1>7. Billed' = Billed \cup {row.n}
  BY <1>1, <1>2, <1>4, <1>5, <1>6 DEF Billed
<1>8. QED  BY <1>1, <1>2, <1>3, <1>7

(***************************************************************************)
(* The steps of a call, by what they do to the accounts                    *)
(***************************************************************************)
\* It moves on.
LEMMA MoveKeeps ==
    ASSUME Inv, NEW c \in InFlight, NEW l \in Requests, call' = [call EXCEPT ![c] = l],
           l.n = call[c].n, l.who = call[c].who, l.since = call[c].since,
           UNCHANGED <<config, api_keys, ledger, month, count, refused, lost, revoked_at>>
    PROVE  Inv'
<1>1. /\ call' \in [Calls -> Requests \cup {Idle}] /\ InFlight' = InFlight /\ Numbers' = Numbers
      /\ \A d \in InFlight : /\ call'[d].n = call[d].n /\ call'[d].who = call[d].who
                             /\ call'[d].since = call[d].since
  BY MovesOn DEF Inv
<1>2. Types'
  BY <1>1 DEF Inv, Types
<1>3. InThePast'
  BY <1>1 DEF Inv, InThePast
<1>4. OnePlace'
  <2>1. Billed' = Billed
    BY DEF Billed
  <2>2. QED  BY <1>1, <2>1 DEF Inv, OnePlace
<1>5. LetInBefore'
  BY <1>1 DEF Inv, LetInBefore, RevokedKeyBillsNothingNew
<1>6. QED  BY <1>2, <1>3, <1>4, <1>5 DEF Inv

\* It ends without a row: answered 429, or one of the failures that write none.
LEMMA EndsUnbilled ==
    ASSUME Inv, NEW c \in InFlight, call' = [call EXCEPT ![c] = Idle],
           \/ refused' = refused \cup {call[c].n} /\ lost' = lost
           \/ lost' = lost \cup {call[c].n} /\ refused' = refused,
           UNCHANGED <<config, api_keys, ledger, month, count, revoked_at>>
    PROVE  Inv'
<1>1. /\ call' \in [Calls -> Requests \cup {Idle}]
      /\ InFlight' = InFlight \ {c} /\ Numbers' = Numbers \ {call[c].n}
      /\ \A d \in InFlight' : call'[d] = call[d]
  BY EndsWithItsNumber DEF Inv
<1>2. call[c].n \in Numbers /\ call[c].n \in 1 .. count
  BY DEF Inv, InThePast, Numbers
<1>3. Types'
  BY <1>1, <1>2 DEF Inv, Types
<1>4. InThePast'
  BY <1>1 DEF Inv, InThePast
<1>5. OnePlace'
  <2>1. Billed' = Billed
    BY DEF Billed
  <2>2. /\ \A n \in 1 .. count' : n \in Numbers' \cup refused' \cup Billed' \cup lost'
        /\ Billed' \cap (Numbers' \cup refused' \cup lost') = {}
        /\ Numbers' \cap (refused' \cup lost') = {}
        /\ refused' \cap lost' = {}
    BY <1>1, <1>2, <2>1 DEF Inv, OnePlace
  <2>3. /\ \A i, j \in DOMAIN ledger' : ledger'[i].n = ledger'[j].n => i = j
        /\ \A d, e \in InFlight' : call'[d].n = call'[e].n => d = e
    BY <1>1 DEF Inv, OnePlace
  <2>4. QED  BY <2>2, <2>3 DEF OnePlace
<1>6. LetInBefore'
  BY <1>1 DEF Inv, LetInBefore, RevokedKeyBillsNothingNew
<1>7. QED  BY <1>3, <1>4, <1>5, <1>6 DEF Inv

\* It ends with its one row.
LEMMA EndsBilled ==
    ASSUME Inv, NEW c \in InFlight, NEW spent \in 0 .. MaxTokens, NEW known \in BOOLEAN,
           call' = [call EXCEPT ![c] = Idle],
           ledger' = Append(ledger, UsageEvent(call[c].n, call[c].who, spent, known)),
           UNCHANGED <<config, api_keys, month, count, refused, lost, revoked_at>>
    PROVE  Inv'
<1>1. /\ call' \in [Calls -> Requests \cup {Idle}]
      /\ InFlight' = InFlight \ {c} /\ Numbers' = Numbers \ {call[c].n}
      /\ \A d \in InFlight' : call'[d] = call[d]
  BY EndsWithItsNumber DEF Inv
<1>2. /\ call[c].n \in Numbers /\ call[c].n \in 1 .. count /\ call[c].n \in Nat
      /\ call[c].who \in Principals /\ month \in 1 .. MaxMonths /\ month \in Nat
  <2>1. c \in Calls /\ call[c] \in Requests /\ MaxMonths \in Nat
    BY CallTypes, GatewayAssumption DEF Inv, InFlight
  <2>2. QED  BY <2>1 DEF Inv, InThePast, Numbers, Types, Requests
<1>3. PICK row \in Rows : /\ row.n = call[c].n /\ row.key_id = call[c].who /\ row.ts = month
                          /\ row = UsageEvent(call[c].n, call[c].who, spent, known)
  BY <1>2 DEF UsageEvent, Rows
<1>4. /\ ledger' \in Seq(Rows) /\ DOMAIN ledger' = 1 .. Len(ledger) + 1 /\ Len(ledger) \in Nat
      /\ DOMAIN ledger = 1 .. Len(ledger)
      /\ ledger'[Len(ledger) + 1] = row /\ \A i \in DOMAIN ledger : ledger'[i] = ledger[i]
      /\ Billed' = Billed \cup {row.n}
  BY <1>3, RowInserted DEF Inv
<1>5. \A i \in DOMAIN ledger' : i = Len(ledger) + 1 \/ i \in DOMAIN ledger
  BY <1>4
<1>6. Types'
  BY <1>1, <1>4 DEF Inv, Types
<1>7. InThePast'
  <2>1. month \in 1 .. month
    BY <1>2
  <2>2. \A i \in DOMAIN ledger' : ledger'[i].n \in 1 .. count /\ ledger'[i].ts \in 1 .. month
    BY <1>2, <1>3, <1>4, <1>5, <2>1 DEF Inv, InThePast
  <2>3. \A d \in InFlight' : call'[d].n \in 1 .. count /\ call'[d].since \in 1 .. month
    BY <1>1 DEF Inv, InThePast
  <2>4. QED  BY <2>2, <2>3 DEF InThePast
<1>8. OnePlace'
  <2>1. /\ \A n \in 1 .. count' : n \in Numbers' \cup refused' \cup Billed' \cup lost'
        /\ Billed' \cap (Numbers' \cup refused' \cup lost') = {}
        /\ Numbers' \cap (refused' \cup lost') = {}
        /\ refused' \cap lost' = {}
    BY <1>1, <1>2, <1>3, <1>4 DEF Inv, OnePlace
  <2>2. \A d, e \in InFlight' : call'[d].n = call'[e].n => d = e
    BY <1>1 DEF Inv, OnePlace
  <2>3. \A i \in DOMAIN ledger : ledger[i].n # row.n
    BY <1>2, <1>3 DEF Inv, OnePlace, Billed
  <2>4. \A i, j \in DOMAIN ledger' : ledger'[i].n = ledger'[j].n => i = j
    BY <1>4, <1>5, <2>3 DEF Inv, OnePlace
  <2>5. QED  BY <2>1, <2>2, <2>4 DEF OnePlace
<1>9. LetInBefore'
  <2>1. \A d \in InFlight' :
           call'[d].who \in Keys /\ api_keys'[call'[d].who].st = "revoked" =>
              call'[d].n <= revoked_at'[call'[d].who]
    BY <1>1 DEF Inv, LetInBefore
  <2>2. row.key_id \in Keys /\ api_keys[row.key_id].st = "revoked" => row.n <= revoked_at[row.key_id]
    BY <1>3 DEF Inv, LetInBefore
  <2>3. RevokedKeyBillsNothingNew'
    BY <1>4, <1>5, <2>2 DEF Inv, LetInBefore, RevokedKeyBillsNothingNew
  <2>4. QED  BY <2>1, <2>3 DEF LetInBefore
<1>10. QED  BY <1>6, <1>7, <1>8, <1>9 DEF Inv

\* _emit writes the row or loses it.
LEMMA EmitKeeps ==
    ASSUME Inv, NEW c \in InFlight, NEW spent \in 0 .. MaxTokens, NEW known \in BOOLEAN,
           call' = [call EXCEPT ![c] = Idle], Emit(call[c].n, call[c].who, spent, known),
           UNCHANGED <<config, api_keys, month, count, refused, revoked_at>>
    PROVE  Inv'
<1>1. CASE Record(call[c].n, call[c].who, spent, known)
  BY <1>1, EndsBilled DEF Record
<1>2. CASE Unrecorded(call[c].n)
  BY <1>2, EndsUnbilled DEF Unrecorded
<1>3. QED  BY <1>1, <1>2 DEF Emit

(***************************************************************************)
(* The operator and the calendar                                           *)
(***************************************************************************)
\* A new key has no calls.
LEMMA CreateKeeps ==
    ASSUME Inv, NEW k \in Keys, NEW q \in Quotas \cup {NoQuota}, Create(k, q)
    PROVE  Inv'
<1>1. /\ UNCHANGED <<config, ledger, month, call, count, refused, lost, revoked_at>>
      /\ api_keys' = [api_keys EXCEPT ![k] = [st |-> "active", quota |-> q]]
  BY DEF Create
<1>2. /\ api_keys' \in [Keys -> [st : {"absent", "active", "revoked"}, quota : Quotas \cup {NoQuota}]]
      /\ \A j \in Keys : api_keys'[j].st = "revoked" => api_keys[j].st = "revoked"
  BY <1>1 DEF Inv, Types
<1>3. Types'
  BY <1>1, <1>2 DEF Inv, Types
<1>4. InThePast' /\ OnePlace'
  BY <1>1 DEF Inv, InThePast, OnePlace, InFlight, Numbers, Billed
<1>5. LetInBefore'
  BY <1>1, <1>2 DEF Inv, LetInBefore, RevokedKeyBillsNothingNew, InFlight
<1>6. QED  BY <1>3, <1>4, <1>5 DEF Inv

\* Every call so far came before the revocation.
LEMMA RevokeKeeps ==
    ASSUME Inv, NEW k \in Keys, Revoke(k)
    PROVE  Inv'
<1>1. /\ UNCHANGED <<config, ledger, month, call, count, refused, lost>>
      /\ api_keys' = [api_keys EXCEPT ![k].st = "revoked"]
      /\ revoked_at' = [revoked_at EXCEPT ![k] = count]
  BY DEF Revoke
<1>2. /\ count \in Nat /\ count \in 0 .. count
  BY GatewayAssumption DEF Inv, Types
<1>3. /\ api_keys' \in [Keys -> [st : {"absent", "active", "revoked"}, quota : Quotas \cup {NoQuota}]]
      /\ revoked_at' \in [Keys -> 0 .. count] /\ revoked_at'[k] = count
      /\ \A j \in Keys : j # k => api_keys'[j] = api_keys[j] /\ revoked_at'[j] = revoked_at[j]
  BY <1>1, <1>2 DEF Inv, Types
<1>4. Types'
  BY <1>1, <1>3 DEF Inv, Types
<1>5. InThePast' /\ OnePlace'
  BY <1>1 DEF Inv, InThePast, OnePlace, InFlight, Numbers, Billed
<1>6. LetInBefore'
  <2>1. \A i \in DOMAIN ledger : ledger[i].n <= count
    BY <1>2 DEF Inv, InThePast
  <2>2. \A c \in InFlight : call[c].n <= count
    BY <1>2 DEF Inv, InThePast
  <2>3. \A i \in DOMAIN ledger :
           ledger[i].key_id \in Keys /\ api_keys'[ledger[i].key_id].st = "revoked" =>
              ledger[i].n <= revoked_at'[ledger[i].key_id]
    BY <1>3, <2>1 DEF Inv, LetInBefore, RevokedKeyBillsNothingNew
  <2>4. \A c \in InFlight :
           call[c].who \in Keys /\ api_keys'[call[c].who].st = "revoked" =>
              call[c].n <= revoked_at'[call[c].who]
    BY <1>3, <2>2 DEF Inv, LetInBefore
  <2>5. QED  BY <1>1, <2>3, <2>4 DEF LetInBefore, RevokedKeyBillsNothingNew, InFlight
<1>7. QED  BY <1>4, <1>5, <1>6 DEF Inv

\* The calendar touches no call.
LEMMA NewMonthKeeps ==
    ASSUME Inv, NewMonth
    PROVE  Inv'
<1>1. /\ UNCHANGED <<config, api_keys, ledger, call, count, refused, lost, revoked_at>>
      /\ month' = month + 1 /\ month < MaxMonths
  BY DEF NewMonth
<1>2. month \in Nat /\ month' \in 1 .. MaxMonths
  BY <1>1, GatewayAssumption DEF Inv, Types
<1>3. Types'
  BY <1>1, <1>2 DEF Inv, Types
<1>4. InThePast'
  <2>1. 1 .. month \subseteq 1 .. month'
    BY <1>1, <1>2
  <2>2. QED  BY <1>1, <2>1 DEF Inv, InThePast, InFlight
<1>5. OnePlace' /\ LetInBefore'
  BY <1>1 DEF Inv, OnePlace, InFlight, Numbers, Billed, LetInBefore, RevokedKeyBillsNothingNew
<1>6. QED  BY <1>3, <1>4, <1>5 DEF Inv

(***************************************************************************)
(* A request                                                               *)
(***************************************************************************)
\* Whom the dependency lets in: never a key that is not active.
LEMMA ResolvesToPrincipals ==
    ASSUME NEW bearer \in Bearers, NEW who \in Resolve(bearer)
    PROVE  who \in Principals /\ (who \in Keys => api_keys[who].st = "active")
BY GatewayAssumption DEF Resolve, Authenticate, Principals

\* The new call's number is none of the old ones.
LEMMA ArriveKeeps ==
    ASSUME Inv, NEW c \in Calls, NEW bearer \in Bearers, Arrive(c, bearer)
    PROVE  Inv'
<1>1. /\ UNCHANGED <<config, api_keys, ledger, month, lost, revoked_at>>
      /\ count' = count + 1 /\ count < MaxCalls /\ c \notin InFlight /\ call[c] = Idle
  BY CallTypes DEF Arrive, Inv
<1>2. /\ count \in Nat /\ count' \in 0 .. MaxCalls /\ 1 .. count' = 1 .. count \cup {count'}
      /\ count' \notin 1 .. count /\ 0 .. count \subseteq 0 .. count' /\ 1 .. count \subseteq 1 .. count'
      /\ count' \in 1 .. count' /\ count' \in Nat
  BY <1>1, GatewayAssumption DEF Inv, Types
<1>3. /\ Numbers \subseteq 1 .. count /\ Billed \subseteq 1 .. count
      /\ refused \subseteq 1 .. count /\ lost \subseteq 1 .. count
  BY DEF Inv, Types, InThePast, Numbers, Billed
<1>4. revoked_at' \in [Keys -> 0 .. count']
  BY <1>1, <1>2 DEF Inv, Types
<1>5. Billed' = Billed
  BY <1>1 DEF Billed
<1>6. CASE Reject(c, count')
  <2>1. call' = call /\ refused' = refused \cup {count'}
    BY <1>1, <1>6 DEF Reject, Inv, Types
  <2>2. InFlight' = InFlight /\ Numbers' = Numbers
    BY <2>1 DEF InFlight, Numbers
  <2>3. Types'
    BY <1>1, <1>2, <1>4, <2>1 DEF Inv, Types
  <2>4. InThePast'
    BY <1>1, <1>2, <2>1, <2>2 DEF Inv, InThePast
  <2>5. OnePlace'
    <3>1. /\ \A n \in 1 .. count' : n \in Numbers' \cup refused' \cup Billed' \cup lost'
          /\ Billed' \cap (Numbers' \cup refused' \cup lost') = {}
          /\ Numbers' \cap (refused' \cup lost') = {}
          /\ refused' \cap lost' = {}
      BY <1>1, <1>2, <1>3, <1>5, <2>1, <2>2 DEF Inv, OnePlace
    <3>2. QED  BY <1>1, <2>1, <2>2, <3>1 DEF Inv, OnePlace
  <2>6. LetInBefore'
    BY <1>1, <2>1, <2>2 DEF Inv, LetInBefore, RevokedKeyBillsNothingNew
  <2>7. QED  BY <2>3, <2>4, <2>5, <2>6 DEF Inv
<1>7. CASE ~ Reject(c, count')
  <2>1. PICK who \in Resolve(bearer) :
           call' = [call EXCEPT ![c] =
                      Request("checking", count', who,
                              IF who \in Keys THEN api_keys[who].quota ELSE NoQuota, month, 0, FALSE)]
    BY <1>7 DEF Arrive
  <2>2. refused' = refused
    BY <1>7 DEF Arrive
  <2>3. who \in Principals /\ (who \in Keys => api_keys[who].st = "active")
    BY ResolvesToPrincipals
  <2>4. PICK quota \in Quotas \cup {NoQuota} : quota = IF who \in Keys THEN api_keys[who].quota ELSE NoQuota
    BY DEF Inv, Types
  <2>5. month \in Nat /\ month \in 1 .. month /\ 0 \in 0 .. MaxTokens
    BY GatewayAssumption DEF Inv, Types
  <2>6. PICK l \in Requests : /\ l = Request("checking", count', who, quota, month, 0, FALSE)
                              /\ l.n = count' /\ l.who = who /\ l.since = month /\ l.pc = "checking"
    <3>1. PICK n \in Nat : n = count'
      BY <1>2
    <3>2. PICK since \in Nat : since = month
      BY <2>5
    <3>3. PICK spent \in 0 .. MaxTokens : spent = 0
      BY <2>5
    <3>4. PICK known \in BOOLEAN : known = FALSE
      OBVIOUS
    <3>5. Request("checking", n, who, quota, since, spent, known) \in Requests
      BY <2>3 DEF Request, Requests
    <3>6. Request("checking", n, who, quota, since, spent, known)
             = Request("checking", count', who, quota, month, 0, FALSE)
      BY <3>1, <3>2, <3>3, <3>4
    <3>7. QED  BY <3>1, <3>2, <3>5, <3>6 DEF Request
  <2>7. call' = [call EXCEPT ![c] = l]
    BY <2>1, <2>4, <2>6
  <2>8. \A d \in Calls : call'[d] = IF d = c THEN l ELSE call[d]
    BY <2>7 DEF Inv, Types
  <2>9. /\ InFlight' = InFlight \cup {c} /\ \A d \in InFlight : d # c /\ call'[d] = call[d]
        /\ call'[c] = l
    BY <1>1, <2>6, <2>8 DEF InFlight
  <2>10. Numbers' = Numbers \cup {count'}
    BY <2>6, <2>9 DEF Numbers
  <2>11. Types'
    BY <1>1, <1>2, <1>3, <1>4, <2>2, <2>7 DEF Inv, Types
  <2>12. InThePast'
    <3>1. \A d \in InFlight' : call'[d].n \in 1 .. count' /\ call'[d].since \in 1 .. month'
      BY <1>1, <1>2, <2>5, <2>6, <2>9 DEF Inv, InThePast
    <3>2. \A i \in DOMAIN ledger' : ledger'[i].n \in 1 .. count' /\ ledger'[i].ts \in 1 .. month'
      BY <1>1, <1>2 DEF Inv, InThePast
    <3>3. QED  BY <3>1, <3>2 DEF InThePast
  <2>13. OnePlace'
    <3>1. /\ \A n \in 1 .. count' : n \in Numbers' \cup refused' \cup Billed' \cup lost'
          /\ Billed' \cap (Numbers' \cup refused' \cup lost') = {}
          /\ Numbers' \cap (refused' \cup lost') = {}
          /\ refused' \cap lost' = {}
      BY <1>1, <1>2, <1>3, <1>5, <2>2, <2>10 DEF Inv, OnePlace
    <3>2. \A d \in InFlight : call[d].n # count'
      BY <1>2 DEF Inv, InThePast
    <3>3. \A d, e \in InFlight' : call'[d].n = call'[e].n => d = e
      <4>1. \A d \in InFlight : call'[d].n # call'[c].n
        BY <2>6, <2>9, <3>2
      <4>2. \A d, e \in InFlight : call'[d].n = call'[e].n => d = e
        BY <2>9 DEF Inv, OnePlace
      <4>3. QED  BY <2>9, <4>1, <4>2
    <3>4. QED  BY <1>1, <3>1, <3>3 DEF Inv, OnePlace
  <2>14. LetInBefore'
    <3>1. \A d \in InFlight' :
             call'[d].who \in Keys /\ api_keys'[call'[d].who].st = "revoked" =>
                call'[d].n <= revoked_at'[call'[d].who]
      BY <1>1, <2>3, <2>6, <2>9 DEF Inv, LetInBefore
    <3>2. RevokedKeyBillsNothingNew'
      BY <1>1 DEF Inv, LetInBefore, RevokedKeyBillsNothingNew
    <3>3. QED  BY <3>1, <3>2 DEF LetInBefore
  <2>15. QED  BY <2>11, <2>12, <2>13, <2>14 DEF Inv
<1>8. QED  BY <1>6, <1>7

\* The quota check lets the call go on or moves its number to the refused.
LEMMA CheckQuotaKeeps ==
    ASSUME Inv, NEW c \in Calls, CheckQuota(c)
    PROVE  Inv'
<1>1. c \in InFlight /\ call[c] \in Requests
  BY CallTypes DEF Inv, CheckQuota, InFlight
<1>2. UNCHANGED <<config, api_keys, ledger, month, count, lost, revoked_at>>
  BY DEF CheckQuota
<1>3. CASE Reject(c, call[c].n)
  BY <1>1, <1>2, <1>3, EndsUnbilled DEF Reject
<1>4. CASE call' = [call EXCEPT ![c].pc = "sending"] /\ UNCHANGED refused
  <2> DEFINE l == [call[c] EXCEPT !.pc = "sending"]
  <2>1. l \in Requests /\ l.n = call[c].n /\ l.who = call[c].who /\ l.since = call[c].since
    BY <1>1 DEF Requests
  <2>2. call' = [call EXCEPT ![c] = l]
    BY <1>4
  <2>3. QED  BY <1>1, <1>2, <1>4, <2>1, <2>2, MoveKeeps
<1>5. QED  BY <1>3, <1>4 DEF CheckQuota

\* A failed upstream ends the call with a row or without.
LEMMA FailsKeeps ==
    ASSUME Inv, NEW c \in Calls, Fails(c)
    PROVE  Inv'
<1>1. c \in InFlight
  BY DEF Fails, InFlight
<1>2. 0 \in 0 .. MaxTokens
  BY GatewayAssumption
<1>3. QED  BY <1>1, <1>2, EmitKeeps DEF Fails

\* An abandoned call ends without a row.
LEMMA AbandonedKeeps ==
    ASSUME Inv, NEW c \in Calls, Abandoned(c)
    PROVE  Inv'
<1>1. c \in InFlight
  BY DEF Abandoned, InFlight
<1>2. QED  BY <1>1, EndsUnbilled DEF Abandoned

\* The upstream's answer only moves the call on,
LEMMA RespondKeeps ==
    ASSUME Inv, NEW c \in Calls, Respond(c)
    PROVE  Inv'
<1> DEFINE l == [call[c] EXCEPT !.pc = "streaming"]
<1>1. c \in InFlight /\ call[c] \in Requests
  BY CallTypes DEF Inv, Respond, InFlight
<1>2. l \in Requests /\ l.n = call[c].n /\ l.who = call[c].who /\ l.since = call[c].since
  BY <1>1 DEF Requests
<1>3. call' = [call EXCEPT ![c] = l] /\ UNCHANGED <<config, api_keys, ledger, month, count, refused, lost, revoked_at>>
  BY DEF Respond
<1>4. QED  BY <1>1, <1>2, <1>3, MoveKeeps

\* and so does the end of its body,
LEMMA EndBodyKeeps ==
    ASSUME Inv, NEW c \in Calls, EndBody(c)
    PROVE  Inv'
<1> DEFINE l == [call[c] EXCEPT !.pc = "closing"]
<1>1. c \in InFlight /\ call[c] \in Requests
  BY CallTypes DEF Inv, EndBody, InFlight
<1>2. l \in Requests /\ l.n = call[c].n /\ l.who = call[c].who /\ l.since = call[c].since
  BY <1>1 DEF Requests
<1>3. call' = [call EXCEPT ![c] = l] /\ UNCHANGED <<config, api_keys, ledger, month, count, refused, lost, revoked_at>>
  BY DEF EndBody
<1>4. QED  BY <1>1, <1>2, <1>3, MoveKeeps

\* a content delta,
LEMMA DeltaKeeps ==
    ASSUME Inv, NEW c \in Calls, Delta(c)
    PROVE  Inv'
<1>1. c \in InFlight /\ call[c] \in Requests
  BY CallTypes DEF Inv, Delta, InFlight
<1>2. PICK t \in 0 .. MaxTokens : t = call[c].tokens + 1
  BY <1>1, GatewayAssumption DEF Delta, Requests
<1> DEFINE l == [call[c] EXCEPT !.tokens = t]
<1>3. l \in Requests /\ l.n = call[c].n /\ l.who = call[c].who /\ l.since = call[c].since
  BY <1>1 DEF Requests
<1>4. call' = [call EXCEPT ![c] = l] /\ UNCHANGED <<config, api_keys, ledger, month, count, refused, lost, revoked_at>>
  BY <1>2 DEF Delta
<1>5. QED  BY <1>1, <1>3, <1>4, MoveKeeps

\* and the upstream's own count.
LEMMA UsageKeeps ==
    ASSUME Inv, NEW c \in Calls, NEW t \in 0 .. MaxTokens, Usage(c, t)
    PROVE  Inv'
<1> DEFINE l == [call[c] EXCEPT !.tokens = t, !.exact = TRUE]
<1>1. c \in InFlight /\ call[c] \in Requests
  BY CallTypes DEF Inv, Usage, InFlight
<1>2. l \in Requests /\ l.n = call[c].n /\ l.who = call[c].who /\ l.since = call[c].since
  BY <1>1 DEF Requests
<1>3. call' = [call EXCEPT ![c] = l] /\ UNCHANGED <<config, api_keys, ledger, month, count, refused, lost, revoked_at>>
  BY DEF Usage
<1>4. QED  BY <1>1, <1>2, <1>3, MoveKeeps

\* The finally block ends the call with a row or without.
LEMMA CloseKeeps ==
    ASSUME Inv, NEW c \in Calls, Close(c)
    PROVE  Inv'
<1>1. c \in InFlight /\ call[c] \in Requests
  BY CallTypes DEF Inv, Close, InFlight
<1>2. call[c].tokens \in 0 .. MaxTokens /\ call[c].exact \in BOOLEAN
  BY <1>1 DEF Requests
<1>3. QED  BY <1>1, <1>2, EmitKeeps DEF Close

(***************************************************************************)
(* The theorems                                                            *)
(***************************************************************************)
LEMMA InvInit == Init => Inv
<1> SUFFICES ASSUME Init
             PROVE  Inv
  OBVIOUS
<1>1. 1 \in 1 .. MaxMonths /\ 0 \in 0 .. MaxCalls /\ 1 .. 0 = {} /\ 0 \in 0 .. 0
  BY GatewayAssumption
<1>2. count = 0 /\ month = 1 /\ ledger = <<>> /\ refused = {} /\ lost = {}
  BY DEF Init
<1>3. ledger \in Seq(Rows) /\ DOMAIN ledger = {}
  <2>1. <<>> \in Seq(Rows) /\ Len(<<>>) = 0
    BY EmptySeq
  <2>2. QED  BY <1>1, <1>2, <2>1
<1>4. Types
  <2>1. config \in [key_store : BOOLEAN, api_token : BOOLEAN, usage_ledger : BOOLEAN]
    BY DEF Init
  <2>2. api_keys \in [Keys -> [st : {"absent", "active", "revoked"}, quota : Quotas \cup {NoQuota}]]
    BY DEF Init
  <2>3. call \in [Calls -> Requests \cup {Idle}]
    BY DEF Init
  <2>4. revoked_at \in [Keys -> 0 .. count]
    BY <1>1, <1>2 DEF Init
  <2>5. QED  BY <1>1, <1>2, <1>3, <2>1, <2>2, <2>3, <2>4 DEF Types
<1>5. InFlight = {}
  BY DEF Init, InFlight, Idle
<1>6. InThePast /\ OnePlace /\ LetInBefore
  BY <1>1, <1>2, <1>3, <1>5
     DEF InThePast, OnePlace, LetInBefore, RevokedKeyBillsNothingNew, Numbers, Billed
<1>7. QED  BY <1>4, <1>6 DEF Inv

\* Every step keeps the invariant.
LEMMA InvNext == Inv /\ [Next]_vars => Inv'
<1> SUFFICES ASSUME Inv, [Next]_vars
             PROVE  Inv'
  OBVIOUS
<1>1. CASE UNCHANGED vars
  <2>1. Types' /\ InThePast'
    BY <1>1 DEF vars, Inv, Types, InThePast, InFlight
  <2>2. OnePlace' /\ LetInBefore'
    BY <1>1 DEF vars, Inv, OnePlace, LetInBefore, RevokedKeyBillsNothingNew, InFlight, Numbers, Billed
  <2>3. QED  BY <2>1, <2>2 DEF Inv
<1>2. CASE _keys
  BY <1>2, CreateKeeps, RevokeKeeps DEF _keys
<1>3. CASE NewMonth
  BY <1>3, NewMonthKeeps
<1>4. ASSUME NEW c \in Calls, NEW bearer \in Bearers, Arrive(c, bearer)
      PROVE  Inv'
  BY <1>4, ArriveKeeps
<1>5. ASSUME NEW c \in Calls, CheckQuota(c)
      PROVE  Inv'
  BY <1>5, CheckQuotaKeeps
<1>6. ASSUME NEW c \in Calls, Fails(c) \/ Abandoned(c) \/ Respond(c)
      PROVE  Inv'
  BY <1>6, FailsKeeps, AbandonedKeeps, RespondKeeps
<1>7. ASSUME NEW c \in Calls, Delta(c) \/ EndBody(c) \/ Close(c)
      PROVE  Inv'
  BY <1>7, DeltaKeeps, EndBodyKeeps, CloseKeeps
<1>8. ASSUME NEW c \in Calls, NEW t \in 0 .. MaxTokens, Usage(c, t)
      PROVE  Inv'
  BY <1>8, UsageKeeps
<1>9. QED  BY <1>1, <1>2, <1>3, <1>4, <1>5, <1>6, <1>7, <1>8 DEF Next

\* Every number, month and principal is typed and of the past; every call's
\* number is in one place; whoever was let in before a revocation has an older
\* number.
THEOREM GatewayInvariant == Spec => []Inv
<1>1. QED  BY InvInit, InvNext, PTL DEF Spec

\* The tables, the calls in flight and the history variables are well typed.
THEOREM GatewayTypeCorrect == Spec => []TypeOK
<1>1. Inv => TypeOK
  <2> SUFFICES ASSUME Inv
               PROVE  TypeOK
    OBVIOUS
  <2>1. Types /\ InThePast
    BY DEF Inv
  <2>2. \A i \in DOMAIN ledger : ledger[i] \in RowType
    <3> SUFFICES ASSUME NEW i \in DOMAIN ledger
                 PROVE  ledger[i] \in RowType
      OBVIOUS
    <3>1. ledger[i] \in Rows
      BY <2>1, ElementOfSeq, LenProperties DEF Types
    <3>2. ledger[i].n \in 1 .. count /\ ledger[i].ts \in 1 .. month
      BY <2>1 DEF InThePast
    <3>3. QED  BY <3>1, <3>2 DEF Rows, RowType
  <2>3. ledger \in Seq(RowType)
    <3>1. /\ Len(ledger) \in Nat /\ DOMAIN ledger = 1 .. Len(ledger)
          /\ ledger = [i \in 1 .. Len(ledger) |-> ledger[i]]
      BY <2>1, LenProperties DEF Types
    <3>2. QED  BY <2>2, <3>1
  <2>4. \A c \in Calls : call[c] \in RequestType \cup {Idle}
    <3> SUFFICES ASSUME NEW c \in InFlight
                 PROVE  call[c] \in RequestType
      BY <2>1, CallTypes
    <3>1. call[c] \in Requests
      BY <2>1, CallTypes DEF InFlight
    <3>2. call[c].n \in 1 .. count /\ call[c].since \in 1 .. month
      BY <2>1 DEF InThePast
    <3>3. QED  BY <3>1, <3>2 DEF Requests, RequestType
  <2>5. QED  BY <2>1, <2>3, <2>4 DEF Types, TypeOK
<1>2. QED  BY <1>1, GatewayInvariant, PTL

\* Revoking a key takes effect for every call that arrives later: none of them
\* is ever billed to it, whatever else is in flight.
THEOREM NothingNewAfterRevocation == Spec => []RevokedKeyBillsNothingNew
<1>1. Inv => RevokedKeyBillsNothingNew
  BY DEF Inv, LetInBefore
<1>2. QED  BY <1>1, GatewayInvariant, PTL

\* What is numbered one to one is as many as its numbers.
LEMMA AsManyAsNumbers ==
    ASSUME NEW S, IsFiniteSet(S), NEW T, NEW f \in [S -> T],
           \A x, y \in S : f[x] = f[y] => x = y, \A t \in T : \E x \in S : f[x] = t
    PROVE  Cardinality(S) = Cardinality(T)
<1>1. f \in Surjection(S, T) /\ f \in Injection(S, T)
  BY DEF Surjection, Injection, IsInjective
<1>2. QED  BY <1>1, FS_Surjection

\* What the invariant says of the accounts.
LEMMA EachCallOnce ==
    ASSUME Inv
    PROVE  EveryCallOnce
<1>1. Types /\ InThePast /\ OnePlace
  BY DEF Inv
<1>2. 1 .. count = Numbers \cup refused \cup Billed \cup lost
  <2>1. /\ Numbers \subseteq 1 .. count /\ Billed \subseteq 1 .. count
        /\ refused \subseteq 1 .. count /\ lost \subseteq 1 .. count
    BY <1>1 DEF Types, InThePast, Numbers, Billed
  <2>2. QED  BY <1>1, <2>1 DEF OnePlace
<1>3. Len(ledger) = Cardinality(Billed)
  <2>1. PICK n \in Nat : n = Len(ledger) /\ DOMAIN ledger = 1 .. n
    BY <1>1, LenProperties DEF Types
  <2>2. IsFiniteSet(1 .. n) /\ Cardinality(1 .. n) = n
    BY FS_Interval
  <2>3. PICK f : f = [i \in 1 .. n |-> ledger[i].n]
    OBVIOUS
  <2>4. f \in [1 .. n -> Billed] /\ \A m \in Billed : \E i \in 1 .. n : f[i] = m
    BY <2>1, <2>3 DEF Billed
  <2>5. \A i, j \in 1 .. n : f[i] = f[j] => i = j
    BY <1>1, <2>1, <2>3 DEF OnePlace
  <2>6. QED  BY <2>1, <2>2, <2>4, <2>5, AsManyAsNumbers
<1>4. Cardinality(InFlight) = Cardinality(Numbers)
  <2>1. PICK f : f = [c \in InFlight |-> call[c].n]
    OBVIOUS
  <2>2. f \in [InFlight -> Numbers] /\ \A n \in Numbers : \E c \in InFlight : f[c] = n
    BY <2>1 DEF Numbers
  <2>3. \A c, d \in InFlight : f[c] = f[d] => c = d
    BY <1>1, <2>1 DEF OnePlace
  <2>4. IsFiniteSet(InFlight)
    <3>1. InFlight \in SUBSET Calls
      BY DEF InFlight
    <3>2. QED  BY <3>1, FS_Subset, GatewayAssumption
  <2>5. QED  BY <2>2, <2>3, <2>4, AsManyAsNumbers
<1>5. QED  BY <1>1, <1>2, <1>3, <1>4 DEF OnePlace, EveryCallOnce

\* Every call is in flight, refused, billed by one row or known to be lost, and
\* in one of these only: none is billed twice and none vanishes.
THEOREM CallsAreCountedOnce == Spec => []EveryCallOnce
<1>1. Inv => EveryCallOnce
  BY EachCallOnce
<1>2. QED  BY <1>1, GatewayInvariant, PTL

(***************************************************************************)
(* Sums.  SumOf() folds a set by a recursive function on its subsets; that *)
(* function exists and is the only one, and the sum it gives does not      *)
(* depend on the order in which it takes the elements.                     *)
(***************************************************************************)
\* The element the fold takes first, the equation of its function, its result.
Some(s) == CHOOSE x \in s : TRUE
Adds(it, f, S) == it = [s \in SUBSET S |-> IF s = {} THEN 0 ELSE f[Some(s)] + it[s \ {Some(s)}]]
SumBy(f, S) == (CHOOSE it : Adds(it, f, S))[S]

\* The choice is one of the set.
LEMMA SomeIsOne ==
    ASSUME NEW s, s # {}
    PROVE  Some(s) \in s
BY DEF Some

\* Induction on numbers: a set of them has a least one.
LEMMA LeastNumber ==
    ASSUME NEW T \in SUBSET Nat, T # {}
    PROVE  \E n \in T : \A m \in T : n <= m
<1>1. PICK R : R = {p \in Nat \X Nat : p[1] < p[2]}
  OBVIOUS
<1>2. IsWellFoundedOn(R, Nat)
  <2>1. IsWellFoundedOn(OpToRel(<, Nat), Nat)
    BY NatLessThanWellFounded
  <2>2. R = OpToRel(<, Nat)
    BY <1>1 DEF OpToRel
  <2>3. QED  BY <2>1, <2>2
<1>3. PICK n \in T : \A m \in T : ~ (<<m, n>> \in R)
  BY <1>2, WFMin
<1>4. ASSUME NEW m \in T
      PROVE  n <= m
  <2>1. m \in Nat /\ n \in Nat /\ ~ (<<m, n>> \in R)
    BY <1>3
  <2>2. m < n => <<m, n>> \in R
    BY <1>1, <2>1
  <2>3. QED  BY <2>1, <2>2
<1>5. QED  BY <1>4

\* Induction on finite sets: some set of a family has no proper subset in it.
LEMMA SmallestSet ==
    ASSUME NEW S, IsFiniteSet(S), NEW Bad \in SUBSET (SUBSET S), Bad # {}
    PROVE  \E s \in Bad : \A r \in SUBSET s : r # s => r \notin Bad
<1>1. \A s \in SUBSET S : IsFiniteSet(s) /\ Cardinality(s) \in Nat
  BY FS_Subset, FS_CardinalityType
<1>2. PICK T : T = {Cardinality(s) : s \in Bad}
  OBVIOUS
<1>3. T \in SUBSET Nat /\ T # {}
  BY <1>1, <1>2
<1>4. PICK n \in T : \A m \in T : n <= m
  BY <1>3, LeastNumber
<1>5. PICK s \in Bad : Cardinality(s) = n
  BY <1>2, <1>4
<1>6. ASSUME NEW r \in SUBSET s, r # s, r \in Bad
      PROVE  FALSE
  <2>1. s \in SUBSET S /\ r \in SUBSET S /\ IsFiniteSet(s)
    <3>1. s \in SUBSET S
      OBVIOUS
    <3>2. \A x \in r : x \in S
      BY <1>6, <3>1
    <3>3. QED  BY <1>1, <3>1, <3>2
  <2>2. Cardinality(r) < Cardinality(s)
    <3>1. Cardinality(r) <= Cardinality(s) /\ (Cardinality(r) = Cardinality(s) => s = r)
      BY <1>6, <2>1, FS_Subset
    <3>2. QED  BY <1>1, <1>6, <2>1, <3>1
  <2>3. n <= Cardinality(r)
    <3>1. Cardinality(r) \in T
      BY <1>2, <1>6
    <3>2. QED  BY <1>4, <3>1
  <2>4. QED  BY <1>1, <1>5, <2>1, <2>2, <2>3
<1>7. QED  BY <1>6

\* Only the values at the set's elements count.
LEMMA SumSame ==
    ASSUME NEW S, NEW f, NEW g, \A x \in S : f[x] = g[x]
    PROVE  SumBy(f, S) = SumBy(g, S)
<1>1. ASSUME NEW it
      PROVE  Adds(it, f, S) <=> Adds(it, g, S)
  <2>1. \A s \in SUBSET S : s # {} => f[Some(s)] = g[Some(s)]
    BY SomeIsOne
  <2>2. [s \in SUBSET S |-> IF s = {} THEN 0 ELSE f[Some(s)] + it[s \ {Some(s)}]]
           = [s \in SUBSET S |-> IF s = {} THEN 0 ELSE g[Some(s)] + it[s \ {Some(s)}]]
    BY <2>1
  <2>3. QED  BY <2>2 DEF Adds
<1>2. (CHOOSE it : Adds(it, f, S)) = (CHOOSE it : Adds(it, g, S))
  BY <1>1
<1>3. QED  BY <1>2 DEF SumBy

\* The equation has at most one solution.
LEMMA OneFold ==
    ASSUME NEW S, IsFiniteSet(S), NEW f, NEW it, NEW jt, Adds(it, f, S), Adds(jt, f, S),
           NEW r \in SUBSET S
    PROVE  it[r] = jt[r]
<1> SUFFICES ASSUME it[r] # jt[r]
             PROVE  FALSE
  OBVIOUS
<1>1. PICK Bad : Bad = {s \in SUBSET S : it[s] # jt[s]}
  OBVIOUS
<1>2. Bad \in SUBSET (SUBSET S) /\ Bad # {}
  BY <1>1
<1>3. PICK s \in Bad : \A q \in SUBSET s : q # s => q \notin Bad
  BY <1>2, SmallestSet
<1>4. s \in SUBSET S /\ it[s] # jt[s]
  BY <1>1
<1>5. /\ it[s] = IF s = {} THEN 0 ELSE f[Some(s)] + it[s \ {Some(s)}]
      /\ jt[s] = IF s = {} THEN 0 ELSE f[Some(s)] + jt[s \ {Some(s)}]
  BY <1>4 DEF Adds
<1>6. s # {}
  BY <1>4, <1>5
<1>7. s \ {Some(s)} \in SUBSET s /\ s \ {Some(s)} # s
  BY <1>6, SomeIsOne
<1>8. it[s \ {Some(s)}] = jt[s \ {Some(s)}]
  BY <1>1, <1>3, <1>4, <1>7
<1>9. QED  BY <1>4, <1>5, <1>8

\* The sum of s is a number and the recursion's.
SumFits(f, s) ==
    /\ SumBy(f, s) \in Nat
    /\ s = {} => SumBy(f, s) = 0
    /\ s # {} => SumBy(f, s) = f[Some(s)] + SumBy(f, s \ {Some(s)})

\* The sum is what the recursion says, and a number.
LEMMA SumStep ==
    ASSUME NEW S, IsFiniteSet(S), NEW f, \A x \in S : f[x] \in Nat
    PROVE  SumFits(f, S)
<1> SUFFICES ASSUME ~ SumFits(f, S)
             PROVE  FALSE
  OBVIOUS
<1>1. PICK Bad : Bad = {s \in SUBSET S : ~ SumFits(f, s)}
  OBVIOUS
<1>2. Bad \in SUBSET (SUBSET S) /\ Bad # {}
  BY <1>1
<1>3. PICK s \in Bad : \A r \in SUBSET s : r # s => r \notin Bad
  BY <1>2, SmallestSet
<1>4. s \in SUBSET S /\ ~ SumFits(f, s) /\ IsFiniteSet(s)
  BY <1>1, FS_Subset
<1>5. \A r \in SUBSET s : r # s => SumFits(f, r)
  BY <1>1, <1>3, <1>4
<1>6. PICK it : it = [r \in SUBSET s |-> IF r = s /\ s # {} THEN f[Some(s)] + SumBy(f, s \ {Some(s)})
                                         ELSE IF r = {} THEN 0 ELSE SumBy(f, r)]
  OBVIOUS
<1>7. \A r \in SUBSET s : r # s => it[r] = SumBy(f, r)
  BY <1>5, <1>6 DEF SumFits
<1>8. ASSUME NEW r \in SUBSET s, r # {}
      PROVE  it[r] = f[Some(r)] + it[r \ {Some(r)}]
  <2>1. r \ {Some(r)} \in SUBSET s /\ r \ {Some(r)} # s
    BY <1>8, SomeIsOne
  <2>2. it[r \ {Some(r)}] = SumBy(f, r \ {Some(r)})
    BY <1>7, <2>1
  <2>3. CASE r = s
    BY <1>6, <1>8, <2>2, <2>3
  <2>4. CASE r # s
    BY <1>5, <1>7, <1>8, <2>2, <2>4 DEF SumFits
  <2>5. QED  BY <2>3, <2>4
<1>9. it[{}] = 0 /\ DOMAIN it = SUBSET s
  BY <1>6
<1>10. Adds(it, f, s)
  <2>1. \A r \in SUBSET s : it[r] = IF r = {} THEN 0 ELSE f[Some(r)] + it[r \ {Some(r)}]
    BY <1>8, <1>9
  <2>2. it = [r \in SUBSET s |-> it[r]]
    BY <1>6
  <2>3. QED  BY <2>1, <2>2 DEF Adds
<1>11. SumBy(f, s) = it[s]
  <2>1. PICK jt : jt = (CHOOSE any : Adds(any, f, s)) /\ Adds(jt, f, s)
    BY <1>10
  <2>2. s \in SUBSET s
    OBVIOUS
  <2>3. it[s] = jt[s]
    BY <1>4, <1>10, <2>1, <2>2, OneFold
  <2>4. QED  BY <2>1, <2>3 DEF SumBy
<1>12. CASE s = {}
  BY <1>4, <1>9, <1>11, <1>12 DEF SumFits
<1>13. CASE s # {}
  <2>1. Some(s) \in S /\ s \ {Some(s)} \in SUBSET s /\ s \ {Some(s)} # s
    BY <1>4, <1>13, SomeIsOne
  <2>2. f[Some(s)] \in Nat /\ SumBy(f, s \ {Some(s)}) \in Nat
    BY <1>5, <2>1 DEF SumFits
  <2>3. SumBy(f, s) = f[Some(s)] + SumBy(f, s \ {Some(s)})
    BY <1>6, <1>11, <1>13
  <2>4. QED  BY <1>4, <1>13, <2>2, <2>3 DEF SumFits
<1>14. QED  BY <1>12, <1>13

\* Whichever element is taken out, its value is what it adds.
LEMMA SumWithout ==
    ASSUME NEW S, IsFiniteSet(S), NEW f, \A x \in S : f[x] \in Nat, NEW x \in S
    PROVE  SumBy(f, S) = f[x] + SumBy(f, S \ {x}) /\ SumBy(f, S) \in Nat /\ SumBy(f, S \ {x}) \in Nat
<1>1. \A s \in SUBSET S : IsFiniteSet(s) /\ SumFits(f, s)
  <2> SUFFICES ASSUME NEW s \in SUBSET S
               PROVE  IsFiniteSet(s) /\ SumFits(f, s)
    OBVIOUS
  <2>1. IsFiniteSet(s) /\ \A y \in s : f[y] \in Nat
    BY FS_Subset
  <2>2. QED  BY <2>1, SumStep
<1>2. PICK Bad : Bad = {s \in SUBSET S : \E y \in s : SumBy(f, s) # f[y] + SumBy(f, s \ {y})}
  OBVIOUS
<1>3. ASSUME Bad # {}
      PROVE  FALSE
  <2>1. Bad \in SUBSET (SUBSET S)
    BY <1>2
  <2>2. PICK s \in Bad : \A r \in SUBSET s : r # s => r \notin Bad
    BY <1>3, <2>1, SmallestSet
  <2>3. s \in SUBSET S
    BY <2>1
  <2>4. PICK y \in s : SumBy(f, s) # f[y] + SumBy(f, s \ {y})
    BY <1>2
  <2>5. PICK z \in s : z = Some(s)
    BY <2>4, SomeIsOne
  <2>6. SumBy(f, s) = f[z] + SumBy(f, s \ {z}) /\ y # z
    BY <1>1, <2>3, <2>4, <2>5 DEF SumFits
  <2>7. PICK rest : rest = s \ {y, z}
    OBVIOUS
  <2>8. /\ rest = (s \ {z}) \ {y} /\ rest = (s \ {y}) \ {z} /\ y \in s \ {z} /\ z \in s \ {y}
        /\ s \ {z} \in SUBSET S /\ s \ {y} \in SUBSET S /\ rest \in SUBSET S
        /\ s \ {z} \in SUBSET s /\ s \ {z} # s /\ s \ {y} \in SUBSET s /\ s \ {y} # s
    BY <2>3, <2>6, <2>7
  <2>9. SumBy(f, s \ {z}) = f[y] + SumBy(f, rest)
    <3>1. s \ {z} \notin Bad
      BY <2>2, <2>8
    <3>2. SumBy(f, s \ {z}) = f[y] + SumBy(f, (s \ {z}) \ {y})
      BY <1>2, <2>8, <3>1
    <3>3. QED  BY <2>8, <3>2
  <2>10. SumBy(f, s \ {y}) = f[z] + SumBy(f, rest)
    <3>1. s \ {y} \notin Bad
      BY <2>2, <2>8
    <3>2. SumBy(f, s \ {y}) = f[z] + SumBy(f, (s \ {y}) \ {z})
      BY <1>2, <2>8, <3>1
    <3>3. QED  BY <2>8, <3>2
  <2>11. SumBy(f, rest) \in Nat /\ f[y] \in Nat /\ f[z] \in Nat
    BY <1>1, <2>3, <2>8 DEF SumFits
  <2>12. QED  BY <2>4, <2>6, <2>9, <2>10, <2>11
<1>4. S \in SUBSET S /\ S \ {x} \in SUBSET S
  OBVIOUS
<1>5. SumBy(f, S) = f[x] + SumBy(f, S \ {x})
  BY <1>2, <1>3, <1>4
<1>6. QED  BY <1>1, <1>4, <1>5 DEF SumFits

SameNumbers(f, g, S) == \A y \in S : f[y] \in Nat /\ g[y] = f[y]

\* One element more adds its value.
LEMMA SumWith ==
    ASSUME NEW S, IsFiniteSet(S), NEW f, NEW g, NEW x, x \notin S, g[x] \in Nat,
           SameNumbers(f, g, S)
    PROVE  SumBy(g, S \cup {x}) = g[x] + SumBy(f, S) /\ SumBy(f, S) \in Nat
<1>1. PICK T : T = S \cup {x}
  OBVIOUS
<1>2. IsFiniteSet(T) /\ x \in T /\ T \ {x} = S /\ \A y \in T : g[y] \in Nat
  BY <1>1, FS_AddElement DEF SameNumbers
<1>3. SumBy(g, T) = g[x] + SumBy(g, S) /\ SumBy(g, S) \in Nat
  BY <1>2, SumWithout
<1>4. SumBy(g, S) = SumBy(f, S)
  BY SumSame DEF SameNumbers
<1>5. QED  BY <1>1, <1>3, <1>4

\* Larger values have a larger sum.
LEMMA SumMonotone ==
    ASSUME NEW S, IsFiniteSet(S), NEW f, NEW g, \A x \in S : f[x] \in Nat /\ g[x] \in Nat /\ f[x] <= g[x]
    PROVE  SumBy(f, S) <= SumBy(g, S)
<1> SUFFICES ASSUME ~ (SumBy(f, S) <= SumBy(g, S))
             PROVE  FALSE
  OBVIOUS
<1>1. PICK Bad : Bad = {s \in SUBSET S : ~ (SumBy(f, s) <= SumBy(g, s))}
  OBVIOUS
<1>2. Bad \in SUBSET (SUBSET S) /\ Bad # {}
  BY <1>1
<1>3. PICK s \in Bad : \A r \in SUBSET s : r # s => r \notin Bad
  BY <1>2, SmallestSet
<1>4. s \in SUBSET S /\ ~ (SumBy(f, s) <= SumBy(g, s)) /\ IsFiniteSet(s)
  BY <1>1, FS_Subset
<1>5. \A x \in s : f[x] \in Nat /\ g[x] \in Nat /\ f[x] <= g[x]
  BY <1>4
<1>6. SumFits(f, s) /\ SumFits(g, s)
  BY <1>4, <1>5, SumStep
<1>7. s # {}
  BY <1>4, <1>6 DEF SumFits
<1>8. PICK x \in s : TRUE
  BY <1>7
<1>9. s \ {x} \in SUBSET s /\ s \ {x} # s /\ s \ {x} \in SUBSET S
  BY <1>4, <1>8
<1>10. SumBy(f, s \ {x}) <= SumBy(g, s \ {x})
  BY <1>1, <1>3, <1>9
<1>11. /\ SumBy(f, s) = f[x] + SumBy(f, s \ {x}) /\ SumBy(f, s \ {x}) \in Nat
       /\ SumBy(g, s) = g[x] + SumBy(g, s \ {x}) /\ SumBy(g, s \ {x}) \in Nat
  BY <1>4, <1>5, SumWithout
<1>12. QED  BY <1>4, <1>5, <1>10, <1>11

\* A part's sum is no larger than the whole's.
LEMMA SumOfParts ==
    ASSUME NEW S, IsFiniteSet(S), NEW f, \A x \in S : f[x] \in Nat, NEW R \in SUBSET S
    PROVE  SumBy(f, R) <= SumBy(f, S)
<1> SUFFICES ASSUME ~ (SumBy(f, R) <= SumBy(f, S))
             PROVE  FALSE
  OBVIOUS
<1>1. PICK Bad : Bad = {s \in SUBSET S : R \subseteq s /\ ~ (SumBy(f, R) <= SumBy(f, s))}
  OBVIOUS
<1>2. Bad \in SUBSET (SUBSET S) /\ Bad # {}
  BY <1>1
<1>3. PICK s \in Bad : \A r \in SUBSET s : r # s => r \notin Bad
  BY <1>2, SmallestSet
<1>4. s \in SUBSET S /\ ~ (SumBy(f, R) <= SumBy(f, s)) /\ IsFiniteSet(s) /\ R \subseteq s /\ IsFiniteSet(R)
  BY <1>1, FS_Subset
<1>5. (\A x \in s : f[x] \in Nat) /\ (\A x \in R : f[x] \in Nat)
  BY <1>4
<1>6. SumBy(f, R) \in Nat /\ SumBy(f, s) \in Nat
  BY <1>4, <1>5, SumStep DEF SumFits
<1>7. PICK x \in s : x \notin R
  BY <1>4, <1>6
<1>8. s \ {x} \in SUBSET s /\ s \ {x} # s /\ s \ {x} \in SUBSET S /\ R \subseteq s \ {x}
  BY <1>4, <1>7
<1>9. SumBy(f, R) <= SumBy(f, s \ {x})
  BY <1>1, <1>3, <1>8
<1>10. SumBy(f, s) = f[x] + SumBy(f, s \ {x}) /\ SumBy(f, s \ {x}) \in Nat
  BY <1>4, <1>5, SumWithout
<1>11. QED  BY <1>4, <1>5, <1>6, <1>9, <1>10

\* What is counted apart is counted once.
LEMMA DisjointUnion ==
    ASSUME NEW A, NEW B, IsFiniteSet(A), IsFiniteSet(B), A \cap B = {}
    PROVE  IsFiniteSet(A \cup B) /\ Cardinality(A \cup B) = Cardinality(A) + Cardinality(B)
<1>1. Cardinality(A) \in Nat /\ Cardinality(B) \in Nat /\ Cardinality(A \cap B) = 0
  BY FS_CardinalityType, FS_EmptySet
<1>2. IsFiniteSet(A \cup B) /\ Cardinality(A \cup B) = Cardinality(A) + Cardinality(B) - Cardinality(A \cap B)
  BY FS_Union
<1>3. QED  BY <1>1, <1>2

\* Counting apart sets one by one counts their union.
LEMMA SumOfCounts ==
    ASSUME NEW S, IsFiniteSet(S), NEW part, NEW c,
           \A x \in S : IsFiniteSet(part[x]) /\ c[x] = Cardinality(part[x]),
           \A x, y \in S : x # y => part[x] \cap part[y] = {}
    PROVE  SumBy(c, S) = Cardinality(UNION {part[x] : x \in S})
<1> DEFINE All(s) == UNION {part[x] : x \in s}
<1> DEFINE Good(s) == IsFiniteSet(All(s)) /\ SumBy(c, s) = Cardinality(All(s))
<1>1. \A x \in S : c[x] \in Nat
  BY FS_CardinalityType
<1> SUFFICES ASSUME ~ Good(S)
             PROVE  FALSE
  OBVIOUS
<1>2. PICK Bad : Bad = {s \in SUBSET S : ~ Good(s)}
  OBVIOUS
<1>3. Bad \in SUBSET (SUBSET S) /\ Bad # {}
  BY <1>2
<1>4. PICK s \in Bad : \A r \in SUBSET s : r # s => r \notin Bad
  BY <1>3, SmallestSet
<1>5. s \in SUBSET S /\ ~ Good(s) /\ IsFiniteSet(s)
  BY <1>2, FS_Subset
<1>6. \A x \in s : c[x] \in Nat
  BY <1>1, <1>5
<1>7. s # {}
  <2> SUFFICES ASSUME s = {}
               PROVE  FALSE
    OBVIOUS
  <2>1. All(s) = {}
    OBVIOUS
  <2>2. SumBy(c, s) = 0
    BY <1>5, <1>6, SumStep DEF SumFits
  <2>3. QED  BY <1>5, <2>1, <2>2, FS_EmptySet
<1>8. PICK x \in s : TRUE
  BY <1>7
<1>9. s \ {x} \in SUBSET s /\ s \ {x} # s /\ s \ {x} \in SUBSET S
  BY <1>5, <1>8
<1>10. Good(s \ {x})
  BY <1>2, <1>4, <1>9
<1>11. SumBy(c, s) = c[x] + SumBy(c, s \ {x})
  BY <1>5, <1>6, SumWithout
<1>12. All(s) = part[x] \cup All(s \ {x})
  <2>1. \A e : e \in All(s) <=> \E y \in s : e \in part[y]
    OBVIOUS
  <2>2. \A e : e \in All(s \ {x}) <=> \E y \in s \ {x} : e \in part[y]
    OBVIOUS
  <2>3. QED  BY <2>1, <2>2
<1>13. part[x] \cap All(s \ {x}) = {}
  <2>1. \A y \in s \ {x} : part[x] \cap part[y] = {}
    BY <1>5
  <2>2. \A e \in All(s \ {x}) : \E y \in s \ {x} : e \in part[y]
    OBVIOUS
  <2>3. QED  BY <2>1, <2>2
<1>14. IsFiniteSet(part[x]) /\ c[x] = Cardinality(part[x])
  BY <1>5
<1>15. /\ IsFiniteSet(All(s))
       /\ Cardinality(All(s)) = Cardinality(part[x]) + Cardinality(All(s \ {x}))
  <2> HIDE DEF All
  <2>1. PICK one : one = part[x]
    OBVIOUS
  <2>2. PICK rest : rest = All(s \ {x})
    OBVIOUS
  <2>3. IsFiniteSet(one) /\ IsFiniteSet(rest) /\ one \cap rest = {}
    BY <1>10, <1>13, <1>14, <2>1, <2>2
  <2>4. /\ IsFiniteSet(one \cup rest)
        /\ Cardinality(one \cup rest) = Cardinality(one) + Cardinality(rest)
    BY <2>3, DisjointUnion
  <2>5. QED  BY <1>12, <2>1, <2>2, <2>4
<1>16. QED
  <2> HIDE DEF All
  <2>1. QED  BY <1>5, <1>10, <1>11, <1>14, <1>15
\* f has the column's values.
ColumnIs(f, column, table, S) == \A i \in S : f[i] = table[i][column]

\* SumOf() is that sum, of any function with the column's values.
LEMMA SumOfIs ==
    ASSUME NEW column, NEW table, NEW S, NEW f, ColumnIs(f, column, table, S)
    PROVE  SumOf(column, table, S) = SumBy(f, S)
<1> DEFINE A(it) == it = [s \in SUBSET S |-> IF s = {} THEN 0
                                             ELSE table[Some(s)][column] + it[s \ {Some(s)}]]
<1>1. SumOf(column, table, S) = (CHOOSE it : A(it))[S]
  BY DEF SumOf, MapThenSumSet, MapThenFoldSet, Some
<1>2. ASSUME NEW it
      PROVE  A(it) <=> Adds(it, f, S)
  <2>1. \A s \in SUBSET S : s # {} => table[Some(s)][column] = f[Some(s)]
    BY SomeIsOne DEF ColumnIs
  <2>2. [s \in SUBSET S |-> IF s = {} THEN 0 ELSE table[Some(s)][column] + it[s \ {Some(s)}]]
           = [s \in SUBSET S |-> IF s = {} THEN 0 ELSE f[Some(s)] + it[s \ {Some(s)}]]
    BY <2>1
  <2>3. QED  BY <2>2 DEF Adds
<1>3. (CHOOSE it : A(it)) = (CHOOSE it : Adds(it, f, S))
  BY <1>2
<1>4. QED  BY <1>1, <1>3 DEF SumBy

(***************************************************************************)
(* tokens_since()                                                          *)
(***************************************************************************)
\* What one row more makes of the sum t.
Weight(r, k, since, t) == IF r.key_id = k /\ r.ts >= since THEN t + r.tokens ELSE t

\* The row numbers that are selected are finitely many.
LEMMA SelectedFinite ==
    ASSUME NEW R, NEW rows \in Seq(R), NEW k, NEW since
    PROVE  /\ IsFiniteSet(Selected(rows, k, since)) /\ Selected(rows, k, since) \in SUBSET DOMAIN rows
           /\ IsFiniteSet(DOMAIN rows)
<1>1. PICK n \in Nat : n = Len(rows) /\ DOMAIN rows = 1 .. n
  BY LenProperties
<1>2. Selected(rows, k, since) \in SUBSET (1 .. n)
  BY <1>1 DEF Selected
<1>3. IsFiniteSet(1 .. n)
  BY FS_Interval
<1>4. IsFiniteSet(Selected(rows, k, since))
  BY <1>2, <1>3, FS_Subset
<1>5. QED  BY <1>1, <1>2, <1>3, <1>4

\* A row that is appended adds its tokens, if it is the key's and not too old.
LEMMA AppendLaw ==
    ASSUME NEW R, \A x \in R : x.tokens \in Nat, NEW rows \in Seq(R), NEW r \in R, NEW k, NEW since
    PROVE  /\ tokens_since(rows, k, since) \in Nat
           /\ tokens_since(Append(rows, r), k, since) = Weight(r, k, since, tokens_since(rows, k, since))
<1>1. PICK n \in Nat : n = Len(rows) /\ DOMAIN rows = 1 .. n /\ \A i \in 1 .. n : rows[i].tokens \in Nat
  BY LenProperties, ElementOfSeq
<1>2. PICK more \in Seq(R) : more = Append(rows, r)
  BY AppendProperties
<1>3. PICK l \in Nat : /\ l = n + 1 /\ DOMAIN more = 1 .. l /\ more[l] = r
                       /\ \A i \in 1 .. n : more[i] = rows[i]
  <2>1. Len(more) = n + 1 /\ more[n + 1] = r /\ \A i \in 1 .. n : more[i] = rows[i]
    BY <1>1, <1>2, AppendProperties
  <2>2. DOMAIN more = 1 .. n + 1
    BY <1>2, <2>1, LenProperties
  <2>3. QED  BY <1>1, <2>1, <2>2
<1>4. PICK S : S = Selected(rows, k, since)
  OBVIOUS
<1>5. IsFiniteSet(S) /\ S \in SUBSET (1 .. n) /\ l \notin S
  <2>1. IsFiniteSet(S) /\ S \in SUBSET (1 .. n)
    BY <1>1, <1>4, SelectedFinite
  <2>2. QED  BY <1>3, <2>1
<1>6. PICK f : f = [i \in 1 .. n |-> rows[i]["tokens"]]
  OBVIOUS
<1>7. PICK g : g = [i \in 1 .. l |-> more[i]["tokens"]]
  OBVIOUS
<1>8. l \in 1 .. l /\ \A i \in S : i \in 1 .. n /\ i \in 1 .. l /\ more[i] = rows[i]
  BY <1>3, <1>5
<1>9. g[l] = r.tokens /\ g[l] \in Nat /\ \A i \in S : f[i] \in Nat /\ g[i] = f[i]
  BY <1>1, <1>3, <1>6, <1>7, <1>8
<1>10. tokens_since(rows, k, since) = SumBy(f, S)
  <2>1. ColumnIs(f, "tokens", rows, S)
    BY <1>6, <1>8 DEF ColumnIs
  <2>2. SumOf("tokens", rows, S) = SumBy(f, S)
    BY <2>1, SumOfIs
  <2>3. QED  BY <1>4, <2>2 DEF tokens_since
<1>11. SumBy(f, S) \in Nat /\ SumBy(g, S \cup {l}) = r.tokens + SumBy(f, S)
  <2>1. SameNumbers(f, g, S) /\ g[l] \in Nat /\ g[l] = r.tokens
    BY <1>9 DEF SameNumbers
  <2>2. SumBy(g, S \cup {l}) = g[l] + SumBy(f, S) /\ SumBy(f, S) \in Nat
    BY <1>5, <2>1, SumWith
  <2>3. QED  BY <2>1, <2>2
<1>12. \A T \in SUBSET (1 .. l) : SumOf("tokens", more, T) = SumBy(g, T)
  <2> SUFFICES ASSUME NEW T \in SUBSET (1 .. l)
               PROVE  SumOf("tokens", more, T) = SumBy(g, T)
    OBVIOUS
  <2>1. ColumnIs(g, "tokens", more, T)
    BY <1>7 DEF ColumnIs
  <2>2. QED  BY <2>1, SumOfIs
<1>13. \A i \in 1 .. l : i = l \/ i \in 1 .. n
  BY <1>3
<1>14. CASE r.key_id = k /\ r.ts >= since
  <2>1. Selected(more, k, since) = S \cup {l}
    BY <1>1, <1>3, <1>4, <1>8, <1>13, <1>14 DEF Selected
  <2>2. S \cup {l} \in SUBSET (1 .. l)
    BY <1>8
  <2>3. tokens_since(more, k, since) = SumBy(g, S \cup {l})
    BY <1>12, <2>1, <2>2 DEF tokens_since
  <2>4. r.tokens \in Nat
    OBVIOUS
  <2>5. QED  BY <1>2, <1>10, <1>11, <1>14, <2>3, <2>4 DEF Weight
<1>15. CASE ~ (r.key_id = k /\ r.ts >= since)
  <2>1. Selected(more, k, since) = S
    BY <1>1, <1>3, <1>4, <1>8, <1>13, <1>15 DEF Selected
  <2>2. S \in SUBSET (1 .. l)
    BY <1>8
  <2>3. tokens_since(more, k, since) = SumBy(g, S)
    BY <1>12, <2>1, <2>2 DEF tokens_since
  <2>4. SumBy(g, S) = SumBy(f, S)
    BY <1>9, SumSame
  <2>5. QED  BY <1>2, <1>10, <1>11, <1>15, <2>3, <2>4 DEF Weight
<1>16. QED  BY <1>14, <1>15, <1>10, <1>11

\* Nothing selected is nothing to pay.
LEMMA NothingSelected ==
    ASSUME NEW column, NEW table
    PROVE  SumOf(column, table, {}) = 0
<1>1. PICK f : f = [i \in {} |-> 0]
  OBVIOUS
<1>2. IsFiniteSet({}) /\ (\A i \in {} : f[i] \in Nat) /\ ColumnIs(f, column, table, {})
  BY FS_EmptySet DEF ColumnIs
<1>3. SumBy(f, {}) = 0
  BY <1>2, SumStep DEF SumFits
<1>4. SumOf(column, table, {}) = SumBy(f, {})
  BY <1>2, SumOfIs
<1>5. QED  BY <1>3, <1>4

\* Without rows there is nothing to pay.
LEMMA NoneYet ==
    ASSUME NEW k, NEW since
    PROVE  tokens_since(<<>>, k, since) = 0
<1>1. DOMAIN <<>> = {}
  <2>1. Len(<<>>) = 0 /\ <<>> \in Seq({})
    BY EmptySeq
  <2>2. DOMAIN <<>> = 1 .. 0
    BY <2>1, LenProperties
  <2>3. QED  BY <2>2
<1>2. Selected(<<>>, k, since) = {}
  BY <1>1 DEF Selected
<1>3. QED  BY <1>2, NothingSelected DEF tokens_since

(***************************************************************************)
(* The invoice                                                             *)
(***************************************************************************)
Tokens == [i \in DOMAIN ledger |-> ledger[i]["tokens"]]
Guesses(k, since) == {i \in Selected(ledger, k, since) : ~ ledger[i].exact}

LEMMA RowValues ==
    ASSUME Inv
    PROVE  /\ IsFiniteSet(DOMAIN ledger) /\ Cardinality(DOMAIN ledger) = Len(ledger)
           /\ \A i \in DOMAIN ledger : /\ Tokens[i] \in Nat /\ ledger[i].key_id \in Principals
                                       /\ ledger[i].ts \in Nat /\ ledger[i].ts >= 1
<1>1. PICK n \in Nat : n = Len(ledger) /\ DOMAIN ledger = 1 .. n
  BY LenProperties DEF Inv, Types
<1>2. IsFiniteSet(1 .. n) /\ Cardinality(1 .. n) = n
  BY FS_Interval
<1>3. ASSUME NEW i \in DOMAIN ledger
      PROVE  /\ Tokens[i] \in Nat /\ ledger[i].key_id \in Principals
             /\ ledger[i].ts \in Nat /\ ledger[i].ts >= 1
  <2>1. ledger[i] \in Rows
    BY <1>1, <1>3, ElementOfSeq DEF Inv, Types
  <2>2. ledger[i].tokens \in Nat
    BY <2>1, GatewayAssumption DEF Rows
  <2>3. Tokens[i] = ledger[i].tokens
    BY <1>3 DEF Tokens
  <2>4. ledger[i].ts \in 1 .. month
    BY <1>3 DEF Inv, InThePast
  <2>5. QED  BY <2>1, <2>2, <2>3, <2>4 DEF Rows
<1>4. QED  BY <1>1, <1>2, <1>3

\* Rows are added up by their tokens.
LEMMA RowsAddUp ==
    ASSUME Inv, NEW S \in SUBSET DOMAIN ledger, NEW R \in SUBSET S
    PROVE  /\ SumOf("tokens", ledger, S) = SumBy(Tokens, S) /\ SumBy(Tokens, S) \in Nat
           /\ SumBy(Tokens, R) <= SumBy(Tokens, S)
<1>1. ColumnIs(Tokens, "tokens", ledger, S)
  BY DEF ColumnIs, Tokens
<1>2. SumOf("tokens", ledger, S) = SumBy(Tokens, S)
  BY <1>1, SumOfIs
<1>3. IsFiniteSet(S) /\ \A i \in S : Tokens[i] \in Nat
  BY RowValues, FS_Subset
<1>4. SumBy(Tokens, S) \in Nat
  BY <1>3, SumStep DEF SumFits
<1>5. SumBy(Tokens, R) <= SumBy(Tokens, S)
  BY <1>3, SumOfParts
<1>6. QED  BY <1>2, <1>4, <1>5

\* The line of a key.
LEMMA LineIs ==
    ASSUME Inv, NEW since, NEW k \in DOMAIN summary(since)
    PROVE  /\ summary(since)[k].calls = Cardinality(Selected(ledger, k, since))
           /\ summary(since)[k].total = tokens_since(ledger, k, since)
           /\ summary(since)[k].estimated \in Nat /\ summary(since)[k].total \in Nat
           /\ summary(since)[k].estimated <= summary(since)[k].total
<1>1. PICK S : S = Selected(ledger, k, since)
  OBVIOUS
<1>2. PICK G : G = {i \in S : ~ ledger[i].exact}
  OBVIOUS
<1>3. S \in SUBSET DOMAIN ledger /\ G \in SUBSET S /\ G \in SUBSET DOMAIN ledger /\ G \in SUBSET G
  BY <1>1, <1>2 DEF Selected
<1>4. k \in {p \in Principals : Selected(ledger, p, since) # {}}
  BY DEF summary
<1>5. summary(since)[k] = [calls |-> Cardinality(S), total |-> SumOf("tokens", ledger, S),
                           estimated |-> SumOf("tokens", ledger, G)]
  BY <1>1, <1>2, <1>4 DEF summary
<1>6. PICK t \in Nat : t = SumOf("tokens", ledger, S) /\ t = SumBy(Tokens, S) /\ SumBy(Tokens, G) <= t
  BY <1>3, RowsAddUp
<1>7. PICK e \in Nat : e = SumOf("tokens", ledger, G) /\ e = SumBy(Tokens, G)
  BY <1>3, RowsAddUp
<1>8. t = tokens_since(ledger, k, since)
  BY <1>1, <1>6 DEF tokens_since
<1>9. PICK n : n = Cardinality(S)
  OBVIOUS
<1>10. summary(since)[k] = [calls |-> n, total |-> t, estimated |-> e]
  BY <1>5, <1>6, <1>7, <1>9
<1>11. /\ summary(since)[k].calls = n /\ summary(since)[k].total = t
       /\ summary(since)[k].estimated = e
  BY <1>10
<1>12. QED  BY <1>1, <1>6, <1>7, <1>8, <1>9, <1>11

\* The keys on the invoice are those with a row.
LEMMA LinesAre ==
    ASSUME Inv, NEW since
    PROVE  /\ \A k : k \in DOMAIN summary(since) <=> k \in Principals /\ Selected(ledger, k, since) # {}
           /\ IsFiniteSet(DOMAIN summary(since))
<1>1. DOMAIN summary(since) = {p \in Principals : Selected(ledger, p, since) # {}}
  BY DEF summary
<1>2. PICK T : T = {ledger[i].key_id : i \in DOMAIN ledger}
  OBVIOUS
<1>3. IsFiniteSet(T)
  <2>1. IsFiniteSet(DOMAIN ledger)
    BY RowValues
  <2>2. PICK f : f = [i \in DOMAIN ledger |-> ledger[i].key_id]
    OBVIOUS
  <2>3. f \in [DOMAIN ledger -> T] /\ \A t \in T : \E i \in DOMAIN ledger : f[i] = t
    BY <1>2, <2>2
  <2>4. f \in Surjection(DOMAIN ledger, T)
    BY <2>3 DEF Surjection
  <2>5. QED  BY <2>1, <2>4, FS_Surjection
<1>4. DOMAIN summary(since) \in SUBSET T
  BY <1>1, <1>2 DEF Selected
<1>5. QED  BY <1>1, <1>3, <1>4, FS_Subset

\* Each row is on the line of its key.
LEMMA LinesCountAll ==
    ASSUME Inv
    PROVE  SumOf("calls", summary(1), DOMAIN summary(1)) = Len(ledger)
<1>1. PICK bill : bill = summary(1)
  OBVIOUS
<1>2. PICK D : D = DOMAIN bill
  OBVIOUS
<1>3. PICK part : part = [k \in D |-> Selected(ledger, k, 1)]
  OBVIOUS
<1>4. PICK c : c = [k \in D |-> Cardinality(part[k])]
  OBVIOUS
<1>5. IsFiniteSet(D) /\ \A k : k \in D <=> k \in Principals /\ Selected(ledger, k, 1) # {}
  BY <1>1, <1>2, LinesAre
<1>6. ColumnIs(c, "calls", bill, D)
  <2>1. ASSUME NEW k \in D
        PROVE  bill[k].calls = Cardinality(Selected(ledger, k, 1))
    BY <1>1, <1>2, LineIs
  <2>2. QED  BY <1>3, <1>4, <2>1 DEF ColumnIs
<1>7. SumOf("calls", bill, D) = SumBy(c, D)
  BY <1>6, SumOfIs
<1>8. ASSUME NEW k \in D
      PROVE  IsFiniteSet(part[k]) /\ c[k] = Cardinality(part[k])
  <2>1. IsFiniteSet(Selected(ledger, k, 1))
    BY SelectedFinite DEF Inv, Types
  <2>2. QED  BY <1>3, <1>4, <2>1
<1>9. \A j, k \in D : j # k => part[j] \cap part[k] = {}
  BY <1>3 DEF Selected
<1>10. SumBy(c, D) = Cardinality(UNION {part[k] : k \in D})
  BY <1>5, <1>8, <1>9, SumOfCounts
<1>11. UNION {part[k] : k \in D} = DOMAIN ledger
  <2>1. ASSUME NEW i \in DOMAIN ledger
        PROVE  \E k \in D : i \in part[k]
    <3>1. ledger[i].key_id \in Principals /\ ledger[i].ts >= 1
      BY <2>1, RowValues
    <3>2. i \in Selected(ledger, ledger[i].key_id, 1)
      BY <2>1, <3>1 DEF Selected
    <3>3. ledger[i].key_id \in D
      BY <1>5, <3>1, <3>2
    <3>4. QED  BY <1>3, <3>2, <3>3
  <2>2. \A k \in D : part[k] \subseteq DOMAIN ledger
    BY <1>3 DEF Selected
  <2>3. QED  BY <2>1, <2>2
<1>12. QED  BY <1>1, <1>2, <1>7, <1>10, <1>11, RowValues

\* No more is estimated than is billed.
LEMMA LinesEstimate ==
    ASSUME Inv
    PROVE  SumOf("estimated", summary(1), DOMAIN summary(1)) <= SumOf("total", summary(1), DOMAIN summary(1))
<1>1. PICK bill : bill = summary(1)
  OBVIOUS
<1>2. PICK D : D = DOMAIN bill
  OBVIOUS
<1>3. PICK e : e = [k \in D |-> bill[k].estimated]
  OBVIOUS
<1>4. PICK t : t = [k \in D |-> bill[k].total]
  OBVIOUS
<1>5. SumOf("estimated", bill, D) = SumBy(e, D) /\ SumOf("total", bill, D) = SumBy(t, D)
  <2>1. ColumnIs(e, "estimated", bill, D) /\ ColumnIs(t, "total", bill, D)
    BY <1>3, <1>4 DEF ColumnIs
  <2>2. QED  BY <2>1, SumOfIs
<1>6. ASSUME NEW k \in D
      PROVE  e[k] \in Nat /\ t[k] \in Nat /\ e[k] <= t[k]
  <2>1. /\ bill[k].estimated \in Nat /\ bill[k].total \in Nat
        /\ bill[k].estimated <= bill[k].total
    BY <1>1, <1>2, LineIs
  <2>2. QED  BY <1>3, <1>4, <2>1
<1>7. IsFiniteSet(D)
  BY <1>1, <1>2, LinesAre
<1>8. SumBy(e, D) <= SumBy(t, D)
  BY <1>6, <1>7, SumMonotone
<1>9. QED  BY <1>1, <1>2, <1>5, <1>8

\* A key is shown what its quota is checked against; with no row that is 0.
LEMMA OwnLine ==
    ASSUME Inv, NEW k \in Principals
    PROVE  usage(k).total = tokens_since(ledger, k, month)
<1>1. CASE k \in DOMAIN summary(month)
  BY <1>1, LineIs DEF usage
<1>2. CASE k \notin DOMAIN summary(month)
  <2>1. Selected(ledger, k, month) = {}
    BY <1>2, LinesAre
  <2>2. tokens_since(ledger, k, month) = 0
    BY <2>1, NothingSelected DEF tokens_since
  <2>3. QED  BY <1>2, <2>2 DEF usage
<1>3. QED  BY <1>1, <1>2

\* Accounting (UsageLedger.summary, `repercep usage', GET /v1/usage): every call
\* is accounted for once, the invoice lists each billed call once, no more is
\* estimated than is billed, and what a key is shown to have spent is what its
\* quota is checked against.
THEOREM CallsAccounted == Spec => []CallsAreAccounted
<1>1. Inv => CallsAreAccounted
  <2> SUFFICES ASSUME Inv
               PROVE  CallsAreAccounted
    OBVIOUS
  <2>1. EveryCallOnce
    BY EachCallOnce
  <2>2. _usage(1).calls = Len(ledger)
    BY LinesCountAll DEF _usage
  <2>3. _usage(1).estimated <= _usage(1).total
    BY LinesEstimate DEF _usage
  <2>4. QED  BY <2>1, <2>2, <2>3, OwnLine DEF CallsAreAccounted, EveryCallOnce
<1>2. QED  BY <1>1, GatewayInvariant, PTL

(***************************************************************************)
(* What a key may spend beyond its quota.  Once its rows have reached the  *)
(* quota no call of the key passes the check, so each row beyond it is of  *)
(* a call that had passed before: those rows and the calls that have yet   *)
(* to end are never as many as the server works on at the same time.       *)
(***************************************************************************)
\* The calls of a key that the quota check has let go on.
Passed(k) == {c \in Calls : call[c].pc \in {"sending", "streaming", "closing"} /\ call[c].who = k}
Limited(k) == config.usage_ledger /\ api_keys[k].quota # NoQuota
Spent(k, mo) == tokens_since(ledger, k, mo)

\* Only minted keys have calls and rows, a call carries its key's quota, and
\* without a ledger there are no rows.
KeysKnown ==
    /\ \A c \in InFlight : call[c].who \in Keys =>
          /\ api_keys[call[c].who].st # "absent"
          /\ call[c].quota = api_keys[call[c].who].quota
    /\ \A i \in DOMAIN ledger : ledger[i].key_id \in Keys => api_keys[ledger[i].key_id].st # "absent"
    /\ ~ config.usage_ledger => ledger = <<>>

\* A sum over more months is no smaller, and the months to come are empty.
MonthsNest ==
    \A k \in Principals, s, t \in Nat :
        /\ Spent(k, s) \in Nat
        /\ s <= t => Spent(k, t) <= Spent(k, s)
        /\ s > month => Spent(k, s) = 0

\* In each month the rows come after the quota is reached, and in the present
\* one each of them has used up one of the calls that had passed.
BeyondIsInFlight(k) ==
    /\ \A mo \in 1 .. month :
          /\ Spent(k, mo) < api_keys[k].quota => RowsBeyondQuota(k, mo) = {}
          /\ Cardinality(RowsBeyondQuota(k, mo)) <= Cardinality(Calls) - 1
    /\ \A mo \in 1 .. month :
          mo = month /\ Spent(k, mo) >= api_keys[k].quota =>
             Cardinality(RowsBeyondQuota(k, mo)) + Cardinality(Passed(k)) <= Cardinality(Calls) - 1

Billing == KeysKnown /\ MonthsNest /\ \A k \in Keys : Limited(k) => BeyondIsInFlight(k)

\* The counts are counts.
LEMMA BeyondFinite ==
    ASSUME Types, NEW k, NEW mo
    PROVE  /\ IsFiniteSet(RowsBeyondQuota(k, mo)) /\ Cardinality(RowsBeyondQuota(k, mo)) \in Nat
           /\ IsFiniteSet(Passed(k)) /\ Cardinality(Passed(k)) \in Nat
           /\ Cardinality(Calls) \in Nat /\ Cardinality(Calls) >= 1
<1>1. PICK n \in Nat : n = Len(ledger) /\ DOMAIN ledger = 1 .. n
  BY LenProperties DEF Types
<1>2. RowsBeyondQuota(k, mo) \in SUBSET (1 .. n)
  BY <1>1 DEF RowsBeyondQuota
<1>3. Passed(k) \in SUBSET Calls
  BY DEF Passed
<1>4. IsFiniteSet(RowsBeyondQuota(k, mo)) /\ IsFiniteSet(Passed(k))
  BY <1>2, <1>3, FS_Interval, FS_Subset, GatewayAssumption
<1>5. Cardinality(Calls) \in Nat /\ Cardinality(Calls) # 0
  BY GatewayAssumption, FS_CardinalityType, FS_EmptySet
<1>6. QED  BY <1>4, <1>5, FS_CardinalityType

\* A step that leaves ledger, quotas and month alone, and lets no call of an
\* exhausted key pass.
LEMMA LedgerAlone ==
    ASSUME Types, Billing, UNCHANGED <<config, ledger, month>>,
           \A k \in Keys : /\ api_keys'[k].quota = api_keys[k].quota
                           /\ api_keys[k].st # "absent" => api_keys'[k].st # "absent",
           \A c \in InFlight' : call'[c].who \in Keys =>
              /\ api_keys'[call'[c].who].st # "absent"
              /\ call'[c].quota = api_keys'[call'[c].who].quota,
           \A k \in Keys : Limited(k) /\ Spent(k, month) >= api_keys[k].quota => Passed(k)' \subseteq Passed(k)
    PROVE  Billing'
<1>1. KeysKnown'
  <2>1. \A i \in DOMAIN ledger : ledger[i] \in Rows
    BY ElementOfSeq, LenProperties DEF Types
  <2>2. \A i \in DOMAIN ledger : ledger[i].key_id \in Keys => api_keys'[ledger[i].key_id].st # "absent"
    BY DEF Billing, KeysKnown
  <2>3. QED  BY <2>2 DEF Billing, KeysKnown
<1>2. MonthsNest'
  BY DEF Billing, MonthsNest, Spent
<1>3. ASSUME NEW k \in Keys, Limited(k)'
      PROVE  BeyondIsInFlight(k)'
  <2>1. Limited(k) /\ BeyondIsInFlight(k) /\ api_keys'[k].quota = api_keys[k].quota
    BY <1>3 DEF Limited, Billing
  <2>2. \A mo : RowsBeyondQuota(k, mo)' = RowsBeyondQuota(k, mo) /\ Spent(k, mo)' = Spent(k, mo)
    BY <2>1 DEF RowsBeyondQuota, Spent
  <2>3. ASSUME NEW mo \in 1 .. month, mo = month, Spent(k, mo) >= api_keys[k].quota
        PROVE  Cardinality(RowsBeyondQuota(k, mo)) + Cardinality(Passed(k)') <= Cardinality(Calls) - 1
    <3>1. Passed(k)' \subseteq Passed(k)
      BY <2>1, <2>3
    <3>2. Cardinality(Passed(k)') <= Cardinality(Passed(k)) /\ Cardinality(Passed(k)') \in Nat
      BY <3>1, BeyondFinite, FS_Subset, FS_CardinalityType
    <3>3. Cardinality(RowsBeyondQuota(k, mo)) + Cardinality(Passed(k)) <= Cardinality(Calls) - 1
      BY <2>1, <2>3 DEF BeyondIsInFlight
    <3>4. QED  BY <3>2, <3>3, BeyondFinite
  <2>4. QED  BY <2>1, <2>2, <2>3 DEF BeyondIsInFlight
<1>4. QED  BY <1>1, <1>2, <1>3 DEF Billing

\* An appended row does not change the rows before any other.
LEMMA SameCut ==
    ASSUME NEW S, NEW s \in Seq(S), NEW x \in S, NEW i \in 1 .. Len(s) + 1
    PROVE  SubSeq(Append(s, x), 1, i - 1) = SubSeq(s, 1, i - 1)
<1>1. PICK t \in Seq(S) : t = Append(s, x)
  BY AppendProperties
<1>2. Len(s) \in Nat /\ Len(t) = Len(s) + 1 /\ \A j \in 1 .. Len(s) : t[j] = s[j] /\ s[j] \in S
  BY <1>1, AppendProperties, LenProperties, ElementOfSeq
<1>3. PICK m \in Int : m = i - 1 /\ m >= 0 /\ m <= Len(s)
  BY <1>2
<1>4. \A j \in 1 .. m : j \in 1 .. Len(s)
  BY <1>2, <1>3
<1>5. /\ SubSeq(s, 1, m) \in Seq(S) /\ Len(SubSeq(s, 1, m)) = (IF 1 <= m THEN m - 1 + 1 ELSE 0)
      /\ \A j \in 1 .. m - 1 + 1 : SubSeq(s, 1, m)[j] = s[1 + j - 1]
  <2>1. \A j \in 1 .. m : s[j] \in S
    BY <1>2, <1>4
  <2>2. QED  BY <2>1, SubSeqProperties
<1>6. /\ SubSeq(t, 1, m) \in Seq(S) /\ Len(SubSeq(t, 1, m)) = (IF 1 <= m THEN m - 1 + 1 ELSE 0)
      /\ \A j \in 1 .. m - 1 + 1 : SubSeq(t, 1, m)[j] = t[1 + j - 1]
  <2>1. \A j \in 1 .. m : t[j] \in S
    BY <1>2, <1>4
  <2>2. QED  BY <2>1, SubSeqProperties
<1>7. \A j \in 1 .. m : SubSeq(s, 1, m)[j] = s[j] /\ SubSeq(t, 1, m)[j] = t[j]
  BY <1>3, <1>5, <1>6
<1>8. Len(SubSeq(s, 1, m)) = m /\ Len(SubSeq(t, 1, m)) = m
  BY <1>3, <1>5, <1>6
<1>9. SubSeq(t, 1, m) = SubSeq(s, 1, m)
  BY <1>2, <1>4, <1>5, <1>6, <1>7, <1>8, SeqEqual
<1>10. QED  BY <1>1, <1>3, <1>9

\* A row goes beyond the quota when the rows before it have reached it.
LEMMA BeyondInserted ==
    ASSUME Types, NEW row \in Rows, ledger' = Append(ledger, row), UNCHANGED api_keys,
           NEW k \in Keys, NEW mo
    PROVE  /\ RowsBeyondQuota(k, mo)' =
                 RowsBeyondQuota(k, mo) \cup
                    (IF row.key_id = k /\ row.ts = mo /\ Spent(k, mo) >= api_keys[k].quota
                     THEN {Len(ledger) + 1} ELSE {})
           /\ Len(ledger) + 1 \notin RowsBeyondQuota(k, mo)
<1>1. PICK n \in Nat : n = Len(ledger) /\ DOMAIN ledger = 1 .. n /\ ledger \in Seq(Rows)
  BY LenProperties DEF Types
<1>2. PICK m \in Nat : m = n + 1
  OBVIOUS
<1>3. DOMAIN ledger' = 1 .. m /\ ledger'[m] = row /\ \A i \in 1 .. n : ledger'[i] = ledger[i]
  BY <1>1, <1>2, RowInserted
<1>4. \A i \in 1 .. m : SubSeq(ledger', 1, i - 1) = SubSeq(ledger, 1, i - 1)
  BY <1>1, <1>2, SameCut
<1>5. SubSeq(ledger, 1, m - 1) = ledger
  <2>1. m - 1 = Len(ledger)
    BY <1>1, <1>2
  <2>2. QED  BY <1>1, <2>1, SubSeqFull
<1> DEFINE Over(rows, i) == tokens_since(SubSeq(rows, 1, i - 1), k, mo) >= api_keys[k].quota
<1>6. \A i \in 1 .. m : Over(ledger', i) <=> Over(ledger, i)
  BY <1>4
<1>7. Over(ledger, m) <=> Spent(k, mo) >= api_keys[k].quota
  BY <1>5 DEF Spent
<1>8. RowsBeyondQuota(k, mo) = {i \in 1 .. n : ledger[i].key_id = k /\ ledger[i].ts = mo /\ Over(ledger, i)}
  BY <1>1 DEF RowsBeyondQuota
<1>9. RowsBeyondQuota(k, mo)' = {i \in 1 .. m : ledger'[i].key_id = k /\ ledger'[i].ts = mo /\ Over(ledger', i)}
  BY <1>3 DEF RowsBeyondQuota
<1> HIDE DEF Over
<1>10. \A i \in 1 .. m : i \in RowsBeyondQuota(k, mo)' <=>
          \/ i \in RowsBeyondQuota(k, mo)
          \/ i = m /\ row.key_id = k /\ row.ts = mo /\ Spent(k, mo) >= api_keys[k].quota
  <2>1. ASSUME NEW i \in 1 .. n
        PROVE  i # m /\ i \in 1 .. m /\ (i \in RowsBeyondQuota(k, mo)' <=> i \in RowsBeyondQuota(k, mo))
    BY <1>2, <1>3, <1>6, <1>8, <1>9
  <2>2. m \notin 1 .. n /\ m \in 1 .. m
    BY <1>2
  <2>3. m \in RowsBeyondQuota(k, mo)' <=> row.key_id = k /\ row.ts = mo /\ Spent(k, mo) >= api_keys[k].quota
    BY <1>3, <1>6, <1>7, <1>9, <2>2
  <2>4. m \notin RowsBeyondQuota(k, mo)
    BY <1>8, <2>2
  <2>5. \A i \in 1 .. m : i \in 1 .. n \/ i = m
    BY <1>2
  <2>6. QED  BY <2>1, <2>3, <2>4, <2>5
<1>11. m \notin RowsBeyondQuota(k, mo) /\ m \in 1 .. m
  BY <1>2, <1>8
<1>12. RowsBeyondQuota(k, mo) \subseteq 1 .. m /\ RowsBeyondQuota(k, mo)' \subseteq 1 .. m
  BY <1>2, <1>8, <1>9
<1>13. RowsBeyondQuota(k, mo)' =
          RowsBeyondQuota(k, mo) \cup
             (IF row.key_id = k /\ row.ts = mo /\ Spent(k, mo) >= api_keys[k].quota THEN {m} ELSE {})
  BY <1>10, <1>11, <1>12
<1>14. QED  BY <1>1, <1>2, <1>11, <1>13

\* A step of one call.
LEMMA OneCallMoves ==
    ASSUME Types, Billing, NEW c \in Calls, NEW l, call' = [call EXCEPT ![c] = l],
           UNCHANGED <<config, api_keys, ledger, month>>,
           l.pc # "idle" /\ l.who \in Keys =>
              api_keys[l.who].st # "absent" /\ l.quota = api_keys[l.who].quota,
           \A k \in Keys : /\ l.pc \in {"sending", "streaming", "closing"} /\ l.who = k
                           /\ Limited(k) /\ Spent(k, month) >= api_keys[k].quota
                           => c \in Passed(k)
    PROVE  Billing'
<1>1. \A d \in Calls : call'[d] = IF d = c THEN l ELSE call[d]
  BY DEF Types
<1>2. \A d \in InFlight' : call'[d].who \in Keys =>
         /\ api_keys'[call'[d].who].st # "absent"
         /\ call'[d].quota = api_keys'[call'[d].who].quota
  <2> SUFFICES ASSUME NEW d \in InFlight', call'[d].who \in Keys
               PROVE  /\ api_keys[call'[d].who].st # "absent"
                      /\ call'[d].quota = api_keys[call'[d].who].quota
    OBVIOUS
  <2>1. d \in Calls /\ call'[d].pc # "idle"
    BY DEF InFlight
  <2>2. CASE d = c
    BY <1>1, <2>1, <2>2
  <2>3. CASE d # c
    <3>1. call'[d] = call[d] /\ d \in InFlight
      BY <1>1, <2>1, <2>3 DEF InFlight
    <3>2. QED  BY <3>1 DEF Billing, KeysKnown
  <2>4. QED  BY <2>2, <2>3
<1>3. ASSUME NEW k \in Keys, Limited(k), Spent(k, month) >= api_keys[k].quota, NEW d \in Passed(k)'
      PROVE  d \in Passed(k)
  <2>1. d \in Calls /\ call'[d].pc \in {"sending", "streaming", "closing"} /\ call'[d].who = k
    BY <1>3 DEF Passed
  <2>2. CASE d = c
    BY <1>1, <1>3, <2>1, <2>2
  <2>3. CASE d # c
    BY <1>1, <2>1, <2>3 DEF Passed
  <2>4. QED  BY <2>2, <2>3
<1>4. QED  BY <1>2, <1>3, LedgerAlone

\* A call that had passed ends with a row of the present month.
LEMMA LedgerGrows ==
    ASSUME Types, Billing, NEW c \in Calls, call[c].pc \in {"sending", "streaming", "closing"},
           call[c].who \in Principals, call' = [call EXCEPT ![c] = Idle],
           NEW row \in Rows, row.key_id = call[c].who, row.ts = month,
           ledger' = Append(ledger, row), config.usage_ledger, UNCHANGED <<config, api_keys, month>>
    PROVE  Billing'
<1>1. \A d \in Calls : call'[d] = IF d = c THEN Idle ELSE call[d]
  BY DEF Types
<1>2. c \in InFlight /\ InFlight' = InFlight \ {c} /\ \A d \in InFlight' : call'[d] = call[d]
  BY <1>1 DEF InFlight, Idle
<1>3. \A k : Passed(k)' = Passed(k) \ {c}
  BY <1>1 DEF Passed, Idle
<1>4. PICK n \in Nat : n = Len(ledger) /\ DOMAIN ledger = 1 .. n /\ ledger \in Seq(Rows)
  BY LenProperties DEF Types
<1>5. month \in Nat /\ month >= 1
  BY DEF Types
<1>6. \A k, s : Spent(k, s) \in Nat /\ Spent(k, s)' = Weight(row, k, s, Spent(k, s))
  <2>1. \A x \in Rows : x.tokens \in Nat
    BY DEF Rows
  <2>2. QED  BY <1>4, <2>1, AppendLaw DEF Spent
<1>7. row.tokens \in Nat
  BY DEF Rows
<1>8. KeysKnown'
  <2>1. \A d \in InFlight' : call'[d].who \in Keys =>
           /\ api_keys'[call'[d].who].st # "absent"
           /\ call'[d].quota = api_keys'[call'[d].who].quota
    BY <1>2 DEF Billing, KeysKnown
  <2>2. DOMAIN ledger' = 1 .. n + 1 /\ ledger'[n + 1] = row /\ \A i \in 1 .. n : ledger'[i] = ledger[i]
    BY <1>4, RowInserted
  <2>3. ASSUME NEW i \in DOMAIN ledger', ledger'[i].key_id \in Keys
        PROVE  api_keys'[ledger'[i].key_id].st # "absent"
    <3>1. i \in 1 .. n \/ i = n + 1
      BY <2>2
    <3>2. CASE i \in 1 .. n
      BY <1>4, <2>2, <2>3, <3>2 DEF Billing, KeysKnown
    <3>3. CASE i = n + 1
      BY <1>2, <2>2, <2>3, <3>3 DEF Billing, KeysKnown
    <3>4. QED  BY <3>1, <3>2, <3>3
  <2>4. QED  BY <2>1, <2>3 DEF KeysKnown
<1>9. MonthsNest'
  <2>1. ASSUME NEW k \in Principals, NEW s \in Nat, NEW t \in Nat
        PROVE  /\ Spent(k, s)' \in Nat
               /\ s <= t => Spent(k, t)' <= Spent(k, s)'
               /\ s > month => Spent(k, s)' = 0
    <3>1. /\ Spent(k, s) \in Nat /\ Spent(k, t) \in Nat
          /\ s <= t => Spent(k, t) <= Spent(k, s)
          /\ s > month => Spent(k, s) = 0
      BY <2>1 DEF Billing, MonthsNest
    <3>2. /\ Spent(k, s)' = Weight(row, k, s, Spent(k, s))
          /\ Spent(k, t)' = Weight(row, k, t, Spent(k, t))
      BY <1>6
    <3>3. QED  BY <1>5, <1>7, <3>1, <3>2 DEF Weight
  <2>2. QED  BY <2>1 DEF MonthsNest
<1>10. ASSUME NEW k \in Keys, Limited(k)'
       PROVE  BeyondIsInFlight(k)'
  <2>1. Limited(k) /\ BeyondIsInFlight(k) /\ api_keys[k].quota \in Nat
    BY <1>10, GatewayAssumption DEF Limited, Billing, Types
  <2>2. CASE k # call[c].who
    <3>1. Passed(k)' = Passed(k)
      BY <1>3, <2>2 DEF Passed
    <3>2. \A mo : Spent(k, mo)' = Spent(k, mo)
      BY <1>6, <2>2 DEF Weight
    <3>3. \A mo : RowsBeyondQuota(k, mo)' = RowsBeyondQuota(k, mo)
      BY <2>2, BeyondInserted
    <3>4. QED  BY <2>1, <3>1, <3>2, <3>3 DEF BeyondIsInFlight
  <2>3. CASE k = call[c].who
    <3>1. c \in Passed(k) /\ Passed(k)' = Passed(k) \ {c}
      BY <1>3, <2>3 DEF Passed
    <3>2. PICK p \in Nat : p = Cardinality(Passed(k))
      BY BeyondFinite
    <3>3. Cardinality(Passed(k)') = p - 1
      BY <3>1, <3>2, BeyondFinite, FS_RemoveElement
    <3>4. p <= Cardinality(Calls)
      <4>1. Passed(k) \in SUBSET Calls
        BY DEF Passed
      <4>2. QED  BY <3>2, <4>1, FS_Subset, GatewayAssumption
    <3>5. ASSUME NEW mo \in 1 .. month, mo # month
          PROVE  /\ Spent(k, mo)' < api_keys[k].quota => RowsBeyondQuota(k, mo)' = {}
                 /\ Cardinality(RowsBeyondQuota(k, mo)') <= Cardinality(Calls) - 1
      <4>1. RowsBeyondQuota(k, mo)' = RowsBeyondQuota(k, mo)
        <5>1. ~ (row.key_id = k /\ row.ts = mo /\ Spent(k, mo) >= api_keys[k].quota)
          BY <3>5
        <5>2. RowsBeyondQuota(k, mo)' =
                 RowsBeyondQuota(k, mo) \cup
                    (IF row.key_id = k /\ row.ts = mo /\ Spent(k, mo) >= api_keys[k].quota
                     THEN {Len(ledger) + 1} ELSE {})
          BY BeyondInserted
        <5>3. QED  BY <5>1, <5>2
      <4>2. Spent(k, mo) \in Nat /\ Spent(k, mo)' \in Nat /\ Spent(k, mo) <= Spent(k, mo)'
        BY <1>6, <1>7 DEF Weight
      <4>3. /\ Spent(k, mo) < api_keys[k].quota => RowsBeyondQuota(k, mo) = {}
            /\ Cardinality(RowsBeyondQuota(k, mo)) <= Cardinality(Calls) - 1
        BY <2>1 DEF BeyondIsInFlight
      <4>4. QED  BY <2>1, <4>1, <4>2, <4>3
    <3>6. ASSUME NEW mo \in 1 .. month, mo = month
          PROVE  /\ Spent(k, mo)' < api_keys[k].quota => RowsBeyondQuota(k, mo)' = {}
                 /\ Cardinality(RowsBeyondQuota(k, mo)') + Cardinality(Passed(k)')
                       <= Cardinality(Calls) - 1
                 /\ Cardinality(RowsBeyondQuota(k, mo)') \in Nat
      <4>1. Spent(k, mo) \in Nat /\ Spent(k, mo)' \in Nat /\ Spent(k, mo) <= Spent(k, mo)'
        BY <1>6, <1>7 DEF Weight
      <4>2. Cardinality(Calls) \in Nat
        BY BeyondFinite
      <4>3. CASE Spent(k, mo) < api_keys[k].quota
        <5>1. RowsBeyondQuota(k, mo) = {}
          BY <2>1, <4>3 DEF BeyondIsInFlight
        <5>2. ~ (Spent(k, mo) >= api_keys[k].quota)
          BY <2>1, <4>1, <4>3
        <5>3. RowsBeyondQuota(k, mo)' = {}
          BY <5>1, <5>2, BeyondInserted
        <5>4. Cardinality(RowsBeyondQuota(k, mo)') = 0
          BY <5>3, FS_EmptySet
        <5>5. QED  BY <3>2, <3>3, <3>4, <4>2, <5>3, <5>4
      <4>4. CASE Spent(k, mo) >= api_keys[k].quota
        <5>1. PICK b \in Nat : b = Cardinality(RowsBeyondQuota(k, mo))
          BY BeyondFinite
        <5>2. b + p <= Cardinality(Calls) - 1
          BY <2>1, <3>2, <3>6, <4>4, <5>1 DEF BeyondIsInFlight
        <5>3. /\ RowsBeyondQuota(k, mo)' = RowsBeyondQuota(k, mo) \cup {Len(ledger) + 1}
              /\ Len(ledger) + 1 \notin RowsBeyondQuota(k, mo)
          BY <2>3, <3>6, <4>4, BeyondInserted
        <5>4. Cardinality(RowsBeyondQuota(k, mo)') = b + 1
          BY <5>1, <5>3, BeyondFinite, FS_AddElement
        <5>5. ~ (Spent(k, mo)' < api_keys[k].quota)
          BY <2>1, <4>1, <4>4
        <5>6. QED  BY <3>2, <3>3, <4>2, <5>2, <5>4, <5>5
      <4>5. QED  BY <2>1, <4>1, <4>3, <4>4
    <3>7. Cardinality(Passed(k)') \in Nat
      <4>1. IsFiniteSet(Passed(k)')
        BY <3>1, BeyondFinite, FS_RemoveElement
      <4>2. QED  BY <4>1, FS_CardinalityType
    <3>8. \A mo \in 1 .. month :
             /\ Spent(k, mo)' < api_keys[k].quota => RowsBeyondQuota(k, mo)' = {}
             /\ Cardinality(RowsBeyondQuota(k, mo)') <= Cardinality(Calls) - 1
      <4> SUFFICES ASSUME NEW mo \in 1 .. month
                   PROVE  /\ Spent(k, mo)' < api_keys[k].quota => RowsBeyondQuota(k, mo)' = {}
                          /\ Cardinality(RowsBeyondQuota(k, mo)') <= Cardinality(Calls) - 1
        OBVIOUS
      <4>1. CASE mo # month
        BY <3>5, <4>1
      <4>2. CASE mo = month
        <5>1. /\ Spent(k, mo)' < api_keys[k].quota => RowsBeyondQuota(k, mo)' = {}
              /\ Cardinality(RowsBeyondQuota(k, mo)') + Cardinality(Passed(k)') <= Cardinality(Calls) - 1
              /\ Cardinality(RowsBeyondQuota(k, mo)') \in Nat
          BY <3>6, <4>2
        <5>2. Cardinality(Calls) \in Nat
          BY BeyondFinite
        <5>3. QED  BY <3>7, <5>1, <5>2
      <4>3. QED  BY <4>1, <4>2
    <3>9. \A mo \in 1 .. month : mo = month =>
             Cardinality(RowsBeyondQuota(k, mo)') + Cardinality(Passed(k)') <= Cardinality(Calls) - 1
      BY <3>6
    <3>10. QED  BY <3>8, <3>9 DEF BeyondIsInFlight
  <2>4. QED  BY <2>2, <2>3
<1>11. QED  BY <1>8, <1>9, <1>10 DEF Billing

\* A key is minted without calls and rows.
LEMMA CreateBills ==
    ASSUME Types, Billing, NEW k \in Keys, NEW q \in Quotas \cup {NoQuota}, Create(k, q)
    PROVE  Billing'
<1>1. /\ api_keys[k].st = "absent" /\ UNCHANGED <<config, ledger, month, call>>
      /\ api_keys' = [api_keys EXCEPT ![k] = [st |-> "active", quota |-> q]]
  BY DEF Create
<1>2. PICK row : row = [st |-> "active", quota |-> q]
  OBVIOUS
<1>3. row.st # "absent" /\ row.quota = q /\ \A j \in Keys : api_keys'[j] = IF j = k THEN row ELSE api_keys[j]
  BY <1>1, <1>2 DEF Types
<1>4. (\A c \in InFlight : call[c].who # k) /\ (\A i \in DOMAIN ledger : ledger[i].key_id # k)
  BY <1>1 DEF Billing, KeysKnown
<1>5. KeysKnown'
  <2>1. InFlight' = InFlight
    BY <1>1 DEF InFlight
  <2>2. QED  BY <1>1, <1>3, <1>4, <2>1 DEF Billing, KeysKnown
<1>6. MonthsNest'
  BY <1>1 DEF Billing, MonthsNest, Spent
<1>7. ASSUME NEW j \in Keys, Limited(j)'
      PROVE  BeyondIsInFlight(j)'
  <2>1. CASE j # k
    <3>1. api_keys'[j] = api_keys[j]
      BY <1>3, <2>1
    <3>2. Limited(j) /\ BeyondIsInFlight(j)
      BY <1>1, <1>7, <3>1 DEF Limited, Billing
    <3>3. /\ \A mo : Spent(j, mo)' = Spent(j, mo) /\ RowsBeyondQuota(j, mo)' = RowsBeyondQuota(j, mo)
          /\ Passed(j)' = Passed(j)
      BY <1>1, <3>1 DEF Spent, RowsBeyondQuota, Passed
    <3>4. QED  BY <1>1, <3>1, <3>2, <3>3 DEF BeyondIsInFlight
  <2>2. CASE j = k
    <3>1. \A mo : RowsBeyondQuota(j, mo)' = {}
      BY <1>1, <1>4, <2>2 DEF RowsBeyondQuota
    <3>2. Passed(j)' = {}
      BY <1>1, <1>4, <2>2 DEF Passed, InFlight
    <3>3. Cardinality({}) = 0 /\ Cardinality(Calls) \in Nat /\ Cardinality(Calls) >= 1
      BY BeyondFinite, FS_EmptySet
    <3>4. /\ \A mo : Cardinality(RowsBeyondQuota(j, mo)') = 0
          /\ Cardinality(Passed(j)') = 0 /\ month' = month
      BY <1>1, <3>1, <3>2, <3>3
    <3>5. QED  BY <3>1, <3>3, <3>4 DEF BeyondIsInFlight
  <2>3. QED  BY <2>1, <2>2
<1>8. QED  BY <1>5, <1>6, <1>7 DEF Billing

\* A revoked key keeps its quota.
LEMMA RevokeBills ==
    ASSUME Types, Billing, NEW k \in Keys, Revoke(k)
    PROVE  Billing'
<1>1. /\ UNCHANGED <<config, ledger, month, call>> /\ api_keys' = [api_keys EXCEPT ![k].st = "revoked"]
  BY DEF Revoke
<1>2. \A j \in Keys : /\ api_keys'[j].quota = api_keys[j].quota
                      /\ api_keys[j].st # "absent" => api_keys'[j].st # "absent"
  BY <1>1 DEF Types
<1>3. InFlight' = InFlight /\ \A j : Passed(j)' = Passed(j)
  BY <1>1 DEF InFlight, Passed
<1>4. \A c \in InFlight' : call'[c].who \in Keys =>
         /\ api_keys'[call'[c].who].st # "absent"
         /\ call'[c].quota = api_keys'[call'[c].who].quota
  BY <1>1, <1>2, <1>3 DEF Billing, KeysKnown
<1>5. QED  BY <1>1, <1>2, <1>3, <1>4, LedgerAlone

\* A new month has no rows; a quota of zero lets no call pass in it either.
LEMMA NewMonthBills ==
    ASSUME Types, InThePast, Billing, NewMonth
    PROVE  Billing'
<1>1. month' = month + 1 /\ UNCHANGED <<config, api_keys, ledger, call>>
  BY DEF NewMonth
<1>2. month \in Nat /\ month >= 1 /\ \A mo \in 1 .. month' : mo \in 1 .. month \/ mo = month'
  BY <1>1 DEF Types
<1>3. \A k, mo : /\ Spent(k, mo)' = Spent(k, mo) /\ RowsBeyondQuota(k, mo)' = RowsBeyondQuota(k, mo)
                 /\ Passed(k)' = Passed(k)
  BY <1>1 DEF Spent, RowsBeyondQuota, Passed
<1>4. KeysKnown'
  BY <1>1 DEF Billing, KeysKnown, InFlight
<1>5. MonthsNest'
  <2>1. \A s \in Nat : s > month' => s > month
    BY <1>1, <1>2
  <2>2. QED  BY <1>3, <2>1 DEF Billing, MonthsNest
<1>6. ASSUME NEW k \in Keys, Limited(k)'
      PROVE  BeyondIsInFlight(k)'
  <2>1. Limited(k) /\ BeyondIsInFlight(k) /\ api_keys[k].quota \in Nat
    BY <1>1, <1>6, GatewayAssumption DEF Limited, Billing, Types
  <2>2. PICK mn \in Nat : mn = month'
    BY <1>1, <1>2
  <2>3. RowsBeyondQuota(k, mn) = {}
    <3>1. \A i \in DOMAIN ledger : ledger[i].ts # mn
      BY <1>1, <1>2, <2>2 DEF InThePast
    <3>2. QED  BY <3>1 DEF RowsBeyondQuota
  <2>4. Cardinality({}) = 0 /\ Cardinality(Calls) \in Nat /\ Cardinality(Calls) >= 1
    BY BeyondFinite, FS_EmptySet
  <2>5. Spent(k, mn) = 0
    <3>1. k \in Principals /\ mn > month
      BY <1>1, <1>2, <2>2 DEF Principals
    <3>2. QED  BY <3>1 DEF Billing, MonthsNest
  <2>6. ASSUME NEW mo \in 1 .. month'
        PROVE  /\ Spent(k, mo) < api_keys[k].quota => RowsBeyondQuota(k, mo) = {}
               /\ Cardinality(RowsBeyondQuota(k, mo)) <= Cardinality(Calls) - 1
    <3>1. CASE mo \in 1 .. month
      BY <2>1, <3>1 DEF BeyondIsInFlight
    <3>2. CASE mo = month'
      <4>1. RowsBeyondQuota(k, mo) = {}
        BY <2>2, <2>3, <3>2
      <4>2. QED  BY <2>4, <4>1
    <3>3. QED  BY <1>2, <3>1, <3>2
  <2>7. ASSUME Spent(k, mn) >= api_keys[k].quota
        PROVE  Cardinality(RowsBeyondQuota(k, mn)) + Cardinality(Passed(k)) <= Cardinality(Calls) - 1
    <3>1. api_keys[k].quota = 0
      BY <2>1, <2>5, <2>7
    <3>2. PICK m \in 1 .. month : m = month
      BY <1>2
    <3>3. Spent(k, m) >= api_keys[k].quota
      <4>1. Spent(k, m) \in Nat
        BY <1>2, <3>2 DEF Billing, MonthsNest, Principals
      <4>2. QED  BY <3>1, <4>1
    <3>4. Cardinality(RowsBeyondQuota(k, m)) + Cardinality(Passed(k)) <= Cardinality(Calls) - 1
      BY <2>1, <3>2, <3>3 DEF BeyondIsInFlight
    <3>5. QED  BY <2>3, <2>4, <3>4, BeyondFinite
  <2>8. QED  BY <1>1, <1>3, <2>2, <2>6, <2>7 DEF BeyondIsInFlight
<1>7. QED  BY <1>4, <1>5, <1>6 DEF Billing

\* A call that is refused or ends without a row.
LEMMA IdleMoves ==
    ASSUME Types, Billing, NEW c \in Calls, call' = [call EXCEPT ![c] = Idle],
           UNCHANGED <<config, api_keys, ledger, month>>
    PROVE  Billing'
<1>1. PICK l : l = Idle
  OBVIOUS
<1>2. call' = [call EXCEPT ![c] = l] /\ l.pc = "idle"
  BY <1>1 DEF Idle
<1>3. ~ (l.pc # "idle") /\ l.pc \notin {"sending", "streaming", "closing"}
  BY <1>2
<1>4. QED  BY <1>2, <1>3, OneCallMoves

\* A call is let in with the quota of its key.
LEMMA ArriveBills ==
    ASSUME Types, Billing, NEW c \in Calls, NEW bearer \in Bearers, Arrive(c, bearer)
    PROVE  Billing'
<1>1. UNCHANGED <<config, api_keys, ledger, month>>
  BY DEF Arrive
<1>2. CASE Reject(c, count')
  <2>1. call' = [call EXCEPT ![c] = Idle]
    BY <1>2 DEF Reject
  <2>2. QED  BY <1>1, <2>1, IdleMoves
<1>3. CASE ~ Reject(c, count')
  <2>1. PICK who \in Resolve(bearer) :
           call' = [call EXCEPT ![c] =
                      Request("checking", count', who,
                              IF who \in Keys THEN api_keys[who].quota ELSE NoQuota, month, 0, FALSE)]
    BY <1>3 DEF Arrive
  <2>2. who \in Keys => api_keys[who].st = "active"
    BY ResolvesToPrincipals
  <2>3. PICK l : l = Request("checking", count', who,
                             IF who \in Keys THEN api_keys[who].quota ELSE NoQuota, month, 0, FALSE)
    <3>1. PICK n : n = count'
      OBVIOUS
    <3>2. PICK quota : quota = IF who \in Keys THEN api_keys[who].quota ELSE NoQuota
      OBVIOUS
    <3>3. PICK mo : mo = month
      OBVIOUS
    <3>4. PICK l : l = Request("checking", n, who, quota, mo, 0, FALSE)
      OBVIOUS
    <3>5. QED  BY <3>1, <3>2, <3>3, <3>4
  <2>4. /\ l.pc = "checking" /\ l.who = who
        /\ l.quota = IF who \in Keys THEN api_keys[who].quota ELSE NoQuota
    BY <2>3 DEF Request
  <2>5. call' = [call EXCEPT ![c] = l]
    BY <2>1, <2>3
  <2>6. QED  BY <1>1, <2>2, <2>4, <2>5, OneCallMoves
<1>4. QED  BY <1>2, <1>3

\* The check lets no call of an exhausted key pass: month_start() may be old,
\* but then more months are counted.
LEMMA CheckQuotaBills ==
    ASSUME Types, InThePast, Billing, NEW c \in Calls, CheckQuota(c)
    PROVE  Billing'
<1>1. UNCHANGED <<config, api_keys, ledger, month>> /\ call[c].pc = "checking"
  BY DEF CheckQuota
<1>2. c \in InFlight /\ call[c] \in Requests
  BY <1>1, CallTypes DEF InFlight
<1>3. CASE Reject(c, call[c].n)
  <2>1. call' = [call EXCEPT ![c] = Idle]
    BY <1>3 DEF Reject
  <2>2. QED  BY <1>1, <2>1, IdleMoves
<1>4. CASE ~ Reject(c, call[c].n)
  <2>1. PICK since \in call[c].since .. month :
           /\ ~ Exhausted(c, since)
           /\ call' = [call EXCEPT ![c].pc = "sending"]
    BY <1>4 DEF CheckQuota
  <2>2. since \in Nat /\ month \in Nat /\ since <= month
    BY <1>2, <2>1 DEF InThePast, Types
  <2> DEFINE l == [call[c] EXCEPT !.pc = "sending"]
  <2>3. l.pc = "sending" /\ l.who = call[c].who /\ l.quota = call[c].quota
    BY <1>2 DEF Requests
  <2>4. call' = [call EXCEPT ![c] = l]
    BY <2>1
  <2> HIDE DEF l
  <2>5. call[c].who \in Keys => /\ api_keys[call[c].who].st # "absent"
                                /\ call[c].quota = api_keys[call[c].who].quota
    BY <1>2 DEF Billing, KeysKnown
  <2>6. ASSUME NEW k \in Keys, l.who = k, Limited(k), Spent(k, month) >= api_keys[k].quota
        PROVE  FALSE
    <3>1. call[c].quota = api_keys[k].quota /\ call[c].quota \in Nat /\ call[c].quota # NoQuota
      BY <1>2, <2>3, <2>5, <2>6, GatewayAssumption DEF Limited, Requests
    <3>2. ~ (Spent(k, since) >= call[c].quota)
      BY <2>1, <2>3, <2>6, <3>1 DEF Exhausted, HasQuota, Limited, Spent
    <3>3. k \in Principals
      BY DEF Principals
    <3>4. PICK m \in Nat : m = month
      BY <2>2
    <3>5. Spent(k, m) \in Nat /\ Spent(k, since) \in Nat /\ Spent(k, m) <= Spent(k, since)
      BY <2>2, <3>3, <3>4 DEF Billing, MonthsNest
    <3>6. QED  BY <2>6, <3>1, <3>2, <3>4, <3>5
  <2>7. QED  BY <1>1, <2>3, <2>4, <2>5, <2>6, OneCallMoves
<1>5. QED  BY <1>3, <1>4

\* A call that is let in and moves on, or ends without a row.
LEMMA PassedBills ==
    ASSUME Types, Billing, NEW c \in Calls, call[c].pc \in {"sending", "streaming", "closing"},
           UNCHANGED <<config, api_keys, ledger, month>>, NEW l, call' = [call EXCEPT ![c] = l],
           l = Idle \/ (l.who = call[c].who /\ l.quota = call[c].quota)
    PROVE  Billing'
<1>1. c \in InFlight
  BY DEF InFlight
<1>2. call[c].who \in Keys => /\ api_keys[call[c].who].st # "absent"
                              /\ call[c].quota = api_keys[call[c].who].quota
  BY <1>1 DEF Billing, KeysKnown
<1>3. l.pc # "idle" => l.who = call[c].who /\ l.quota = call[c].quota
  BY DEF Idle
<1>4. \A k \in Keys : l.pc \in {"sending", "streaming", "closing"} /\ l.who = k => c \in Passed(k)
  BY <1>3 DEF Passed
<1>5. QED  BY <1>2, <1>3, <1>4, OneCallMoves

\* A call that had passed ends with a row or without.
LEMMA EmitBills ==
    ASSUME Types, Billing, NEW c \in Calls, call[c].pc \in {"sending", "streaming", "closing"},
           NEW spent \in 0 .. MaxTokens, NEW known \in BOOLEAN,
           Emit(call[c].n, call[c].who, spent, known), call' = [call EXCEPT ![c] = Idle],
           UNCHANGED <<config, api_keys, month>>
    PROVE  Billing'
<1>1. c \in InFlight /\ call[c] \in Requests
  BY CallTypes DEF InFlight
<1>2. CASE Unrecorded(call[c].n)
  BY <1>2, PassedBills DEF Unrecorded
<1>3. CASE Record(call[c].n, call[c].who, spent, known)
  <2>1. PICK who \in Principals : who = call[c].who
    BY <1>1 DEF Requests
  <2>2. PICK n \in Nat : n = call[c].n
    BY <1>1 DEF Requests
  <2>3. PICK mo \in Nat : mo = month
    BY DEF Types
  <2>4. PICK row \in Rows : row = [n |-> n, key_id |-> who, tokens |-> spent, exact |-> known, ts |-> mo]
    BY DEF Rows
  <2>5. row = UsageEvent(call[c].n, call[c].who, spent, known) /\ row.key_id = call[c].who /\ row.ts = month
    BY <2>1, <2>2, <2>3, <2>4 DEF UsageEvent
  <2>6. ledger' = Append(ledger, row) /\ config.usage_ledger
    BY <1>3, <2>5 DEF Record
  <2>7. QED  BY <2>1, <2>5, <2>6, LedgerGrows
<1>4. QED  BY <1>2, <1>3 DEF Emit

\* The steps of a call after the check.
LEMMA CallBills ==
    ASSUME Types, Billing, NEW c \in Calls,
           \/ Fails(c) \/ Abandoned(c) \/ Respond(c) \/ Delta(c) \/ EndBody(c) \/ Close(c)
           \/ \E t \in 0 .. MaxTokens : Usage(c, t)
    PROVE  Billing'
<1>1. CASE Fails(c)
  <2>1. 0 \in 0 .. MaxTokens /\ TRUE \in BOOLEAN
    BY GatewayAssumption
  <2>2. QED  BY <1>1, <2>1, EmitBills DEF Fails
<1>2. CASE Close(c)
  <2>1. call[c].tokens \in 0 .. MaxTokens /\ call[c].exact \in BOOLEAN
    BY <1>2, CallTypes DEF Close, InFlight, Requests
  <2>2. QED  BY <1>2, <2>1, EmitBills DEF Close
<1>3. CASE Abandoned(c)
  BY <1>3, PassedBills DEF Abandoned
<1>4. ASSUME \/ Respond(c) \/ Delta(c) \/ EndBody(c)
             \/ \E t \in 0 .. MaxTokens : Usage(c, t)
      PROVE  Billing'
  <2>1. /\ call[c].pc \in {"sending", "streaming"}
        /\ UNCHANGED <<config, api_keys, ledger, month>>
    BY <1>4 DEF Respond, Delta, EndBody, Usage
  <2>2. call[c] \in Requests
    BY <2>1, CallTypes DEF InFlight
  <2>3. \E l : /\ call' = [call EXCEPT ![c] = l]
               /\ l.who = call[c].who /\ l.quota = call[c].quota
    <3>1. CASE Respond(c)
      <4> DEFINE l == [call[c] EXCEPT !.pc = "streaming"]
      <4>1. l.who = call[c].who /\ l.quota = call[c].quota
        BY <2>2 DEF Requests
      <4>2. call' = [call EXCEPT ![c] = l]
        BY <3>1 DEF Respond
      <4>3. QED  BY <4>1, <4>2
    <3>2. CASE EndBody(c)
      <4> DEFINE l == [call[c] EXCEPT !.pc = "closing"]
      <4>1. l.who = call[c].who /\ l.quota = call[c].quota
        BY <2>2 DEF Requests
      <4>2. call' = [call EXCEPT ![c] = l]
        BY <3>2 DEF EndBody
      <4>3. QED  BY <4>1, <4>2
    <3>3. CASE Delta(c)
      <4> DEFINE l == [call[c] EXCEPT !.tokens = @ + 1]
      <4>1. l.who = call[c].who /\ l.quota = call[c].quota
        BY <2>2 DEF Requests
      <4>2. call' = [call EXCEPT ![c] = l]
        BY <3>3 DEF Delta
      <4>3. QED  BY <4>1, <4>2
    <3>4. ASSUME NEW t \in 0 .. MaxTokens, Usage(c, t)
          PROVE  \E l : /\ call' = [call EXCEPT ![c] = l]
                        /\ l.who = call[c].who /\ l.quota = call[c].quota
      <4> DEFINE l == [call[c] EXCEPT !.tokens = t, !.exact = TRUE]
      <4>1. l.who = call[c].who /\ l.quota = call[c].quota
        BY <2>2 DEF Requests
      <4>2. call' = [call EXCEPT ![c] = l]
        BY <3>4 DEF Usage
      <4>3. QED  BY <4>1, <4>2
    <3>5. QED  BY <1>4, <3>1, <3>2, <3>3, <3>4
  <2>4. QED  BY <2>1, <2>3, PassedBills
<1>5. QED  BY <1>1, <1>2, <1>3, <1>4

\* At first there is no key, no row and no call.
LEMMA BillingInit == Init => Billing
<1> SUFFICES ASSUME Init
             PROVE  Billing
  OBVIOUS
<1>1. ledger = <<>> /\ DOMAIN ledger = {} /\ InFlight = {} /\ month = 1
  <2>1. <<>> \in Seq(Rows) /\ Len(<<>>) = 0
    BY EmptySeq
  <2>2. ledger = <<>> /\ month = 1
    BY DEF Init
  <2>3. DOMAIN ledger = {}
    BY <2>1, <2>2, LenProperties
  <2>4. InFlight = {}
    BY DEF Init, InFlight, Idle
  <2>5. QED  BY <2>2, <2>3, <2>4
<1>2. KeysKnown
  BY <1>1 DEF KeysKnown
<1>3. MonthsNest
  <2>1. \A k, s : Spent(k, s) = 0
    BY <1>1, NoneYet DEF Spent
  <2>2. QED  BY <2>1 DEF MonthsNest
<1>4. \A k \in Keys : ~ Limited(k)
  BY DEF Init, Limited
<1>5. QED  BY <1>2, <1>3, <1>4 DEF Billing

\* Every step keeps the books.
LEMMA BillingNext == Inv /\ Billing /\ [Next]_vars => Billing'
<1> SUFFICES ASSUME Inv, Billing, [Next]_vars
             PROVE  Billing'
  OBVIOUS
<1> USE DEF Inv
<1>1. CASE UNCHANGED vars
  <2>1. /\ UNCHANGED <<config, ledger, month, api_keys>> /\ InFlight' = InFlight /\ call' = call
        /\ \A k : Passed(k)' = Passed(k)
    BY <1>1 DEF vars, InFlight, Passed
  <2>2. \A c \in InFlight' : call'[c].who \in Keys =>
           /\ api_keys'[call'[c].who].st # "absent"
           /\ call'[c].quota = api_keys'[call'[c].who].quota
    BY <2>1 DEF Billing, KeysKnown
  <2>3. QED  BY <2>1, <2>2, LedgerAlone
<1>2. CASE _keys
  BY <1>2, CreateBills, RevokeBills DEF _keys
<1>3. CASE NewMonth
  BY <1>3, NewMonthBills
<1>4. ASSUME NEW c \in Calls, NEW bearer \in Bearers, Arrive(c, bearer)
      PROVE  Billing'
  BY <1>4, ArriveBills
<1>5. ASSUME NEW c \in Calls, CheckQuota(c)
      PROVE  Billing'
  BY <1>5, CheckQuotaBills
<1>6. ASSUME NEW c \in Calls,
             \/ Fails(c) \/ Abandoned(c) \/ Respond(c) \/ Delta(c) \/ EndBody(c) \/ Close(c)
             \/ \E t \in 0 .. MaxTokens : Usage(c, t)
      PROVE  Billing'
  BY <1>6, CallBills
<1>7. QED  BY <1>1, <1>2, <1>3, <1>4, <1>5, <1>6 DEF Next

\* Beyond its monthly quota a key is billed at most for the calls that were in
\* flight when it was reached (_check_quota), all but one of those the server
\* works on at the same time, in every month and for every quota.
THEOREM OvershootIsBounded == Spec => []OvershootIsInFlightOnly
<1>1. Inv /\ Billing => OvershootIsInFlightOnly
  <2> SUFFICES ASSUME Inv, Billing, NEW k \in Keys, NEW mo \in 1 .. month, api_keys[k].quota # NoQuota
               PROVE  Cardinality(RowsBeyondQuota(k, mo)) <= Cardinality(Calls) - 1
    BY DEF OvershootIsInFlightOnly
  <2>1. CASE config.usage_ledger
    BY <2>1 DEF Billing, Limited, BeyondIsInFlight
  <2>2. CASE ~ config.usage_ledger
    <3>1. ledger = <<>>
      BY <2>2 DEF Billing, KeysKnown
    <3>2. DOMAIN ledger = {}
      <4>1. <<>> \in Seq(Rows) /\ Len(<<>>) = 0
        BY EmptySeq
      <4>2. QED  BY <3>1, <4>1, LenProperties
    <3>3. RowsBeyondQuota(k, mo) = {}
      BY <3>2 DEF RowsBeyondQuota
    <3>4. QED  BY <3>3, BeyondFinite, FS_EmptySet DEF Inv
  <2>3. QED  BY <2>1, <2>2
<1>2. QED  BY <1>1, BillingInit, BillingNext, InvInit, InvNext, PTL DEF Spec

(***************************************************************************)
(* The bytes of a response                                                 *)
(***************************************************************************)
AnyByte == [payload : PayloadKinds \cup {Blank}, part : Nat, of : Nat]

LEMMA BytesTypes ==
    ASSUME NEW p \in PayloadKinds \cup {Blank}, NEW n \in Nat
    PROVE  Bytes(p, n) \in Seq(AnyByte) /\ Len(Bytes(p, n)) = n
<1>1. Bytes(p, n) \in [1 .. n -> AnyByte]
  BY DEF Bytes, Byte, AnyByte
<1>2. Bytes(p, n) \in Seq(AnyByte)
  BY <1>1, SeqDef
<1>3. QED  BY <1>1, <1>2, LenProperties

LEMMA NLIsAByte == NL \in AnyByte
BY DEF NL, Byte, AnyByte, Blank

LEMMA LineTypes ==
    ASSUME NEW p \in PayloadKinds \cup {Blank}
    PROVE  Line(p) \in Seq(AnyByte)
<1>1. <<NL>> \in Seq(AnyByte)
  BY NLIsAByte
<1>2. Bytes(p, 2) \in Seq(AnyByte)
  BY BytesTypes
<1>3. Bytes(p, 2) \o <<NL>> \in Seq(AnyByte)
  BY <1>1, <1>2, ConcatProperties
<1>4. QED  BY <1>1, <1>3 DEF Line

\* The function of FlattenSeq, as far as its k-th part.
JoinTo(W, q, k) ==
    W = [i \in 1 .. k |-> IF i = 1 THEN q[i] ELSE W[i - 1] \o q[i]]

LEMMA JoinExists ==
    ASSUME NEW q, NEW k \in Nat
    PROVE  \E W : JoinTo(W, q, k)
<1> DEFINE Bad == {j \in Nat : ~ \E W : JoinTo(W, q, j)}
<1>1. SUFFICES ASSUME Bad # {}
               PROVE  FALSE
  OBVIOUS
<1>2. PICK j \in Bad : \A i \in Bad : j <= i
  <2>1. Bad \in SUBSET Nat
    OBVIOUS
  <2> HIDE DEF Bad
  <2>2. QED  BY <1>1, <2>1, LeastNumber
<1>3. j \in Nat /\ ~ \E W : JoinTo(W, q, j)
  BY <1>2
<1>4. CASE j = 0
  <2>1. PICK e : e = [i \in 1 .. 0 |-> q]
    OBVIOUS
  <2>2. JoinTo(e, q, 0)
    BY <2>1 DEF JoinTo
  <2>3. QED  BY <1>3, <1>4, <2>2
<1>5. CASE j # 0
  <2>1. j - 1 \in Nat /\ ~ (j <= j - 1)
    BY <1>3, <1>5
  <2>2. PICK W : JoinTo(W, q, j - 1)
    <3>1. j - 1 \notin Bad
      BY <1>2, <2>1
    <3>2. QED  BY <2>1, <3>1
  <2>3. PICK V : V = [i \in 1 .. j |-> IF i = j THEN (IF i = 1 THEN q[i] ELSE W[i - 1] \o q[i])
                                               ELSE W[i]]
    OBVIOUS
  <2>4. ASSUME NEW i \in 1 .. j
        PROVE  V[i] = IF i = 1 THEN q[i] ELSE V[i - 1] \o q[i]
    <3>1. i = 1 \/ (i - 1 \in 1 .. j /\ i - 1 # j)
      BY <1>3
    <3>2. i = 1 \/ V[i - 1] = W[i - 1]
      BY <2>3, <3>1
    <3>3. CASE i = j
      BY <2>3, <3>2, <3>3
    <3>4. CASE i # j
      <4>1. i \in 1 .. j - 1
        BY <1>3, <3>4
      <4>2. W[i] = IF i = 1 THEN q[i] ELSE W[i - 1] \o q[i]
        BY <2>2, <4>1 DEF JoinTo
      <4>3. QED  BY <2>3, <3>2, <3>4, <4>2
    <3>5. QED  BY <3>3, <3>4
  <2>5. V = [i \in 1 .. j |-> V[i]]
    BY <2>3
  <2>6. JoinTo(V, q, j)
    BY <2>4, <2>5 DEF JoinTo
  <2>7. QED  BY <1>3, <2>6
<1>6. QED  BY <1>4, <1>5

\* What is joined from sequences of a set is one.
LEMMA JoinTypes ==
    ASSUME NEW S, NEW q \in Seq(Seq(S)), NEW W, JoinTo(W, q, Len(q))
    PROVE  \A i \in 1 .. Len(q) : W[i] \in Seq(S)
<1> DEFINE Bad == {i \in 1 .. Len(q) : W[i] \notin Seq(S)}
<1>0. Len(q) \in Nat
  OBVIOUS
<1>1. SUFFICES ASSUME Bad # {}
               PROVE  FALSE
  OBVIOUS
<1>2. PICK i \in Bad : \A j \in Bad : i <= j
  <2>1. Bad \in SUBSET Nat
    BY <1>0
  <2> HIDE DEF Bad
  <2>2. QED  BY <1>1, <2>1, LeastNumber
<1>3. i \in 1 .. Len(q) /\ W[i] \notin Seq(S)
  BY <1>2
<1>4. q[i] \in Seq(S)
  BY <1>3
<1>5. i # 1
  BY <1>3, <1>4 DEF JoinTo
<1>6. i - 1 \in 1 .. Len(q) /\ ~ (i <= i - 1)
  BY <1>0, <1>3, <1>5
<1>7. W[i - 1] \in Seq(S)
  <2>1. i - 1 \notin Bad
    BY <1>2, <1>6
  <2>2. QED  BY <1>6, <2>1
<1>8. W[i] = W[i - 1] \o q[i]
  BY <1>3, <1>5 DEF JoinTo
<1>9. QED  BY <1>3, <1>4, <1>7, <1>8, ConcatProperties

LEMMA FlattenTypes ==
    ASSUME NEW S, NEW q \in Seq(Seq(S))
    PROVE  FlattenSeq(q) \in Seq(S)
<1>0. Len(q) \in Nat
  OBVIOUS
<1>1. CASE Len(q) = 0
  <2>1. q = <<>>
    BY <1>1
  <2>2. FlattenSeq(q) = q
    BY <1>1 DEF FlattenSeq
  <2>3. QED  BY <2>1, <2>2, EmptySeq
<1>2. CASE Len(q) # 0
  <2> DEFINE F(W) == [i \in 1 .. Len(q) |-> IF i = 1 THEN q[i] ELSE W[i - 1] \o q[i]]
  <2>1. PICK W : W = CHOOSE U : U = F(U)
    OBVIOUS
  <2>2. \E U : U = F(U)
    BY <1>0, JoinExists DEF JoinTo
  <2>3. W = F(W)
    <3> HIDE DEF F
    <3>1. QED  BY <2>1, <2>2
  <2>4. JoinTo(W, q, Len(q))
    BY <2>3 DEF JoinTo
  <2>5. W[Len(q)] \in Seq(S)
    BY <1>0, <1>2, <2>4, JoinTypes
  <2>6. FlattenSeq(q) = W[Len(q)]
    BY <1>2, <2>1 DEF FlattenSeq
  <2>7. QED  BY <2>5, <2>6
<1>3. QED  BY <1>1, <1>2

\* Whatever the upstream is going to send is a sequence of bytes.
LEMMA StreamTypes == SseStreams \subseteq Seq(AnyByte)
<1> DEFINE Payloads == PayloadKinds \cup {Blank}
           Lines(ls) == [i \in DOMAIN ls |-> Line(ls[i])]
<1>1. ASSUME NEW n \in 1 .. MaxLines, NEW ls \in [1 .. n -> Payloads]
      PROVE  FlattenSeq(Lines(ls)) \in Seq(AnyByte)
  <2>1. n \in Nat
    BY MeteringAssumption
  <2>2. Lines(ls) \in [1 .. n -> Seq(AnyByte)]
    BY LineTypes
  <2>3. Lines(ls) \in Seq(Seq(AnyByte))
    <3> HIDE DEF Lines
    <3>1. QED  BY <2>1, <2>2, SeqDef
  <2> HIDE DEF Lines
  <2>4. QED  BY <2>3, FlattenTypes
<1>2. ASSUME NEW s \in Seq(AnyByte)
      PROVE  SubSeq(s, 1, Len(s) - 1) \in Seq(AnyByte)
  <2>1. Len(s) \in Nat
    OBVIOUS
  <2>2. \A i \in 1 .. Len(s) - 1 : s[i] \in AnyByte
    BY <2>1
  <2>3. QED  BY <2>1, <2>2, SubSeqProperties
<1>3. QED  BY <1>1, <1>2 DEF SseStreams

(***************************************************************************)
(* Lines, and one byte more                                                *)
(***************************************************************************)
\* The least element of a set of numbers is its Min, the greatest its Max.
LEMMA MinIs ==
    ASSUME NEW T \in SUBSET Nat, NEW n \in T, \A m \in T : n <= m
    PROVE  Min(T) = n
<1>1. PICK x : x = Min(T)
  OBVIOUS
<1>2. x \in T /\ \A y \in T : x <= y
  BY <1>1 DEF Min
<1>3. QED  BY <1>1, <1>2

LEMMA MaxIs ==
    ASSUME NEW T \in SUBSET Nat, NEW n \in T, \A m \in T : m <= n
    PROVE  Max(T) = n
<1>1. PICK x : x = Max(T)
  OBVIOUS
<1>2. x \in T /\ \A y \in T : x >= y
  BY <1>1 DEF Max
<1>3. QED  BY <1>1, <1>2

\* Where the line that starts at i ends.
EndsAt(s, i, e) ==
    /\ e \in i .. Len(s)
    /\ \A j \in i .. e - 1 : s[j] # NL
    /\ s[e] = NL \/ e = Len(s)

LEMMA EndOfIs ==
    ASSUME NEW S, NEW s \in Seq(S), NEW i \in 1 .. Len(s), NEW e, EndsAt(s, i, e)
    PROVE  EndOf(s, i) = e
<1> DEFINE ends == {j \in i .. Len(s) : s[j] = NL}
<1>0. Len(s) \in Nat /\ ends \in SUBSET Nat /\ e \in Nat
  BY DEF EndsAt
<1>1. CASE s[e] = NL
  <2>1. e \in ends
    BY <1>1 DEF EndsAt
  <2>2. \A j \in ends : e <= j
    BY <1>0 DEF EndsAt
  <2>3. Min(ends) = e
    <3> HIDE DEF ends
    <3>1. QED  BY <1>0, <2>1, <2>2, MinIs
  <2>4. QED  BY <2>1, <2>3 DEF EndOf
<1>2. CASE s[e] # NL
  <2>1. e = Len(s)
    BY <1>2 DEF EndsAt
  <2>2. ends = {}
    BY <1>0, <1>2, <2>1 DEF EndsAt
  <2>3. QED  BY <2>1, <2>2 DEF EndOf
<1>3. QED  BY <1>1, <1>2

LEMMA EndOfFacts ==
    ASSUME NEW S, NEW s \in Seq(S), NEW i \in 1 .. Len(s)
    PROVE  EndsAt(s, i, EndOf(s, i))
<1> DEFINE ends == {j \in i .. Len(s) : s[j] = NL}
<1>0. Len(s) \in Nat /\ ends \in SUBSET Nat
  OBVIOUS
<1>1. CASE ends = {}
  <2>1. EndsAt(s, i, Len(s))
    BY <1>0, <1>1 DEF EndsAt
  <2>2. QED  BY <2>1, EndOfIs
<1>2. CASE ends # {}
  <2>1. PICK e \in ends : \A j \in ends : e <= j
    <3> HIDE DEF ends
    <3>1. QED  BY <1>0, <1>2, LeastNumber
  <2>2. EndsAt(s, i, e)
    BY <1>0, <2>1 DEF EndsAt
  <2>3. QED  BY <2>2, EndOfIs
<1>3. QED  BY <1>1, <1>2

\* s and one byte more.
Longer(s, t, b) ==
    /\ Len(t) = Len(s) + 1
    /\ t[Len(s) + 1] = b
    /\ \A i \in 1 .. Len(s) : t[i] = s[i]

\* An ended line, its bytes and its end stay as they are.
LEMMA EndedStays ==
    ASSUME NEW S, NEW s \in Seq(S), NEW t \in Seq(S), NEW b, Longer(s, t, b),
           NEW i \in Ended(s)
    PROVE  /\ i \in Ended(t)
           /\ EndOf(t, i) = EndOf(s, i)
           /\ LineAt(t, i) = LineAt(s, i)
<1>1. i \in 1 .. Len(s) /\ (i = 1 \/ s[i - 1] = NL) /\ s[EndOf(s, i)] = NL
  BY DEF Ended, Starts, Complete
<1>2. Len(s) \in Nat /\ Len(t) \in Nat
  OBVIOUS
<1>3. PICK e : e = EndOf(s, i)
  OBVIOUS
<1>4. EndsAt(s, i, e) /\ s[e] = NL
  BY <1>1, <1>3, EndOfFacts
<1>5. e \in i .. Len(s) /\ e \in 1 .. Len(s)
  BY <1>1, <1>2, <1>4 DEF EndsAt
<1>6. EndsAt(t, i, e) /\ t[e] = NL
  <2>1. e \in i .. Len(t)
    BY <1>1, <1>2, <1>5 DEF Longer
  <2>2. \A j \in i .. e - 1 : t[j] # NL
    BY <1>1, <1>2, <1>4, <1>5 DEF EndsAt, Longer
  <2>3. t[e] = NL
    BY <1>4, <1>5 DEF Longer
  <2>4. QED  BY <2>1, <2>2, <2>3 DEF EndsAt
<1>7. i \in 1 .. Len(t)
  BY <1>1, <1>2 DEF Longer
<1>8. EndOf(t, i) = e
  BY <1>6, <1>7, EndOfIs
<1>9. i = 1 \/ t[i - 1] = NL
  BY <1>1, <1>2 DEF Longer
<1>10. i \in Ended(t)
  BY <1>6, <1>7, <1>8, <1>9 DEF Ended, Starts, Complete
<1>11. SubSeq(t, i, e) = SubSeq(s, i, e)
  <2>1. \A j \in i .. e : t[j] \in S /\ s[j] \in S /\ t[j] = s[j]
    BY <1>1, <1>2, <1>5 DEF Longer
  <2>2. i \in Int /\ e \in Int /\ i <= e
    BY <1>1, <1>2, <1>5
  <2>3. PICK u : u = SubSeq(t, i, e)
    OBVIOUS
  <2>4. PICK v : v = SubSeq(s, i, e)
    OBVIOUS
  <2>5. /\ u \in Seq(S) /\ Len(u) = e - i + 1
        /\ \A j \in 1 .. e - i + 1 : u[j] = t[i + j - 1]
    BY <2>1, <2>2, <2>3, SubSeqProperties
  <2>6. /\ v \in Seq(S) /\ Len(v) = e - i + 1
        /\ \A j \in 1 .. e - i + 1 : v[j] = s[i + j - 1]
    BY <2>1, <2>2, <2>4, SubSeqProperties
  <2>7. \A j \in 1 .. Len(u) : u[j] = v[j]
    <3>1. TAKE j \in 1 .. Len(u)
    <3>2. i + j - 1 \in i .. e /\ j \in 1 .. e - i + 1
      BY <2>2, <2>5
    <3>3. QED  BY <2>1, <2>5, <2>6, <3>2
  <2>8. QED  BY <2>3, <2>4, <2>5, <2>6, <2>7, SeqEqual
<1>12. QED  BY <1>3, <1>8, <1>10, <1>11 DEF LineAt

\* L is the last newline, or zero.
Cut(s, L) ==
    /\ L \in 0 .. Len(s)
    /\ L = 0 \/ s[L] = NL
    /\ \A j \in L + 1 .. Len(s) : s[j] # NL

\* The ended lines are those that start before it; after it comes the rest.
LEMMA EndedBefore ==
    ASSUME NEW S, NEW s \in Seq(S), NEW L, Cut(s, L)
    PROVE  /\ \A i \in Ended(s) : i \in 1 .. L /\ EndOf(s, i) \in i .. L
           /\ Starts(s) = Ended(s) \cup (IF L < Len(s) THEN {L + 1} ELSE {})
           /\ L < Len(s) => /\ EndOf(s, L + 1) = Len(s)
                            /\ s[Len(s)] # NL
<1>0. Len(s) \in Nat /\ L \in Nat /\ L <= Len(s)
  BY DEF Cut
<1>1. ASSUME NEW i \in Ended(s)
      PROVE  i \in 1 .. L /\ EndOf(s, i) \in i .. L
  <2>1. i \in 1 .. Len(s) /\ s[EndOf(s, i)] = NL
    BY <1>1 DEF Ended, Starts, Complete
  <2>2. EndOf(s, i) \in i .. Len(s)
    BY <2>1, EndOfFacts DEF EndsAt
  <2>3. ~ (EndOf(s, i) \in L + 1 .. Len(s))
    BY <2>1 DEF Cut
  <2>4. QED  BY <1>0, <2>1, <2>2, <2>3
<1>2. ASSUME L < Len(s)
      PROVE  EndOf(s, L + 1) = Len(s) /\ s[Len(s)] # NL
  <2>1. L + 1 \in 1 .. Len(s) /\ Len(s) \in L + 1 .. Len(s)
    BY <1>0, <1>2
  <2>2. EndsAt(s, L + 1, Len(s))
    BY <1>0, <2>1 DEF EndsAt, Cut
  <2>3. QED  BY <2>1, <2>2, EndOfIs DEF Cut
<1>3. ASSUME NEW i \in Starts(s)
      PROVE  i \in Ended(s) \/ (L < Len(s) /\ i = L + 1)
  <2>1. i \in 1 .. Len(s) /\ (i = 1 \/ s[i - 1] = NL)
    BY <1>3 DEF Starts
  <2>2. CASE i <= L
    <3>1. L \in i .. Len(s) /\ s[L] = NL
      BY <1>0, <2>1, <2>2 DEF Cut
    <3>2. EndsAt(s, i, EndOf(s, i))
      BY <2>1, EndOfFacts
    <3>3. PICK e : e = EndOf(s, i)
      OBVIOUS
    <3>4. e \in i .. Len(s) /\ (\A j \in i .. e - 1 : s[j] # NL) /\ (s[e] = NL \/ e = Len(s))
      BY <3>2, <3>3 DEF EndsAt
    <3>5. e <= L
      BY <1>0, <2>1, <3>1, <3>4
    <3>6. s[e] = NL
      BY <1>0, <2>1, <3>1, <3>4, <3>5
    <3>7. QED  BY <1>3, <3>3, <3>6 DEF Ended, Complete
  <2>3. CASE i > L
    <3>1. i = L + 1
      <4>1. SUFFICES ASSUME i - 1 \in L + 1 .. Len(s), s[i - 1] = NL
                     PROVE  FALSE
        BY <1>0, <2>1, <2>3
      <4>2. QED  BY <4>1 DEF Cut
    <3>2. QED  BY <1>0, <2>1, <3>1
  <2>4. QED  BY <1>0, <2>1, <2>2, <2>3
<1>4. L < Len(s) => L + 1 \in Starts(s)
  BY <1>0 DEF Cut, Starts
<1>5. Starts(s) = Ended(s) \cup (IF L < Len(s) THEN {L + 1} ELSE {})
  <2>1. Ended(s) \subseteq Starts(s)
    BY DEF Ended
  <2>2. QED  BY <1>3, <1>4, <2>1
<1>6. QED  BY <1>1, <1>2, <1>5

\* Another byte than a newline ends no line.
LEMMA EndedByNone ==
    ASSUME NEW S, NEW s \in Seq(S), NEW t \in Seq(S), NEW b, b # NL, Longer(s, t, b),
           NEW L, Cut(s, L)
    PROVE  Cut(t, L) /\ Ended(t) = Ended(s)
<1>0. Len(s) \in Nat /\ Len(t) = Len(s) + 1 /\ L \in Nat /\ L <= Len(s)
  BY DEF Cut, Longer
<1>1. Cut(t, L)
  <2>1. L = 0 \/ t[L] = NL
    BY <1>0 DEF Cut, Longer
  <2>2. \A j \in L + 1 .. Len(t) : t[j] # NL
    <3>1. TAKE j \in L + 1 .. Len(t)
    <3>2. j = Len(s) + 1 \/ (j \in L + 1 .. Len(s) /\ j \in 1 .. Len(s))
      BY <1>0
    <3>3. QED  BY <3>2 DEF Cut, Longer
  <2>3. QED  BY <1>0, <2>1, <2>2 DEF Cut
<1>2. ASSUME NEW i \in Ended(t)
      PROVE  i \in Ended(s)
  <2>1. i \in 1 .. L /\ i \in Starts(t)
    BY <1>1, <1>2, EndedBefore DEF Ended
  <2>2. i \in Starts(s)
    <3>1. i \in 1 .. Len(s) /\ (i = 1 \/ (i - 1 \in 1 .. Len(s) /\ t[i - 1] = NL))
      BY <1>0, <2>1 DEF Starts
    <3>2. QED  BY <3>1 DEF Starts, Longer
  <2>3. i # L + 1
    BY <1>0, <2>1
  <2>4. QED  BY <2>2, <2>3, EndedBefore
<1>3. QED  BY <1>1, <1>2, EndedStays

\* A newline ends the rest.
LEMMA EndedByNewline ==
    ASSUME NEW S, NEW s \in Seq(S), NEW t \in Seq(S), Longer(s, t, NL),
           NEW L, Cut(s, L)
    PROVE  /\ Cut(t, Len(t))
           /\ Ended(t) = Ended(s) \cup {L + 1}
           /\ L + 1 \notin Ended(s)
           /\ EndOf(t, L + 1) = Len(t)
<1>0. Len(s) \in Nat /\ Len(t) = Len(s) + 1 /\ L \in Nat /\ L <= Len(s) /\ t[Len(t)] = NL
  BY DEF Cut, Longer
<1>1. Cut(t, Len(t))
  BY <1>0 DEF Cut
<1>2. EndOf(t, L + 1) = Len(t)
  <2>1. \A j \in L + 1 .. Len(t) - 1 : t[j] # NL
    <3>1. TAKE j \in L + 1 .. Len(t) - 1
    <3>2. j \in L + 1 .. Len(s) /\ j \in 1 .. Len(s)
      BY <1>0
    <3>3. QED  BY <3>2 DEF Cut, Longer
  <2>2. EndsAt(t, L + 1, Len(t))
    BY <1>0, <2>1 DEF EndsAt
  <2>3. L + 1 \in 1 .. Len(t)
    BY <1>0
  <2>4. QED  BY <2>2, <2>3, EndOfIs
<1>3. L + 1 \in Ended(t)
  <2>1. L + 1 = 1 \/ t[(L + 1) - 1] = NL
    BY <1>0 DEF Cut, Longer
  <2>2. L + 1 \in 1 .. Len(t)
    BY <1>0
  <2>3. L + 1 \in Starts(t)
    BY <2>1, <2>2 DEF Starts
  <2>4. QED  BY <1>0, <1>2, <2>3 DEF Ended, Complete
<1>4. L + 1 \notin Ended(s)
  <2>1. ~ (L + 1 \in 1 .. L)
    BY <1>0
  <2>2. QED  BY <2>1, EndedBefore
<1>5. ASSUME NEW i \in Ended(t)
      PROVE  i \in Ended(s) \/ i = L + 1
  <2>1. i \in 1 .. Len(t) /\ (i = 1 \/ t[i - 1] = NL)
    BY <1>5 DEF Ended, Starts
  <2>2. CASE i \in Starts(s)
    BY <2>2, EndedBefore
  <2>3. CASE i \notin Starts(s)
    <3>1. i = Len(t)
      <4>1. SUFFICES ASSUME i \in 1 .. Len(s)
                     PROVE  FALSE
        BY <1>0, <2>1
      <4>2. i = 1 \/ i - 1 \in 1 .. Len(s)
        BY <1>0, <4>1
      <4>3. i = 1 \/ s[i - 1] = NL
        BY <2>1, <4>2 DEF Longer
      <4>4. QED  BY <2>3, <4>1, <4>3 DEF Starts
    <3>2. CASE L = Len(s)
      BY <1>0, <3>1, <3>2
    <3>3. CASE L # Len(s)
      <4>1. Len(s) \in L + 1 .. Len(s) /\ Len(s) \in 1 .. Len(s) /\ i - 1 = Len(s) /\ i # 1
        BY <1>0, <3>1, <3>3
      <4>2. t[i - 1] = NL /\ t[Len(s)] = s[Len(s)] /\ s[Len(s)] # NL
        BY <2>1, <4>1 DEF Longer, Cut
      <4>3. QED  BY <4>1, <4>2
    <3>4. QED  BY <3>2, <3>3
  <2>4. QED  BY <2>2, <2>3
<1>6. QED  BY <1>1, <1>2, <1>3, <1>4, <1>5, EndedStays

(***************************************************************************)
(* What is hidden and what is shown, whether or not usage was injected     *)
(***************************************************************************)
\* A line that reports usage alone ends at e.
UsageEndsAt(s, e) == \E h \in Starts(s) : EndOf(s, h) = e /\ IsUsageEvent(s, h)

HiddenIf(injected, s, i) ==
    /\ injected
    /\ Complete(s, i)
    /\ IsUsageEvent(s, i) \/ (s[i] = NL /\ UsageEndsAt(s, i - 1))

ShownIf(injected, s, lines) ==
    UNION {i .. EndOf(s, i) : i \in {j \in lines : ~ HiddenIf(injected, s, j)}}

\* Neither changes for an ended line when a byte is added.
LEMMA UsageEndStays ==
    ASSUME NEW S, NEW s \in Seq(S), NEW t \in Seq(S), NEW b, Longer(s, t, b),
           NEW e \in 0 .. Len(s), e = 0 \/ s[e] = NL
    PROVE  UsageEndsAt(t, e) <=> UsageEndsAt(s, e)
<1>0. Len(s) \in Nat /\ Len(t) = Len(s) + 1
  BY DEF Longer
<1>1. ASSUME NEW h \in Starts(s), EndOf(s, h) = e
      PROVE  h \in Ended(s)
  <2>1. h \in 1 .. Len(s)
    BY DEF Starts
  <2>2. e \in h .. Len(s)
    BY <1>1, <2>1, EndOfFacts DEF EndsAt
  <2>3. QED  BY <1>0, <1>1, <2>1, <2>2 DEF Ended, Complete
<1>2. ASSUME NEW h \in Starts(t), EndOf(t, h) = e
      PROVE  h \in Ended(s)
  <2>1. h \in 1 .. Len(t) /\ (h = 1 \/ t[h - 1] = NL)
    BY DEF Starts
  <2>2. EndsAt(t, h, e)
    BY <1>2, <2>1, EndOfFacts
  <2>3. e \in h .. Len(s) /\ h \in 1 .. Len(s) /\ s[e] = NL
    BY <1>0, <2>1, <2>2 DEF EndsAt
  <2>4. EndsAt(s, h, e)
    BY <1>0, <2>1, <2>2, <2>3 DEF EndsAt, Longer
  <2>5. h \in Starts(s)
    BY <2>1, <2>3 DEF Starts, Longer
  <2>6. QED  BY <2>3, <2>4, <2>5, EndOfIs DEF Ended, Complete
<1>3. \A h \in Ended(s) : /\ EndOf(t, h) = EndOf(s, h) /\ LineAt(t, h) = LineAt(s, h)
                          /\ h \in Starts(t) /\ h \in Starts(s)
  BY EndedStays DEF Ended
<1>4. QED  BY <1>1, <1>2, <1>3 DEF UsageEndsAt, IsUsageEvent

LEMMA HiddenStays ==
    ASSUME NEW S, NEW s \in Seq(S), NEW t \in Seq(S), NEW b, Longer(s, t, b),
           NEW injected, NEW i \in Ended(s)
    PROVE  HiddenIf(injected, t, i) <=> HiddenIf(injected, s, i)
<1>0. Len(s) \in Nat /\ i \in 1 .. Len(s) /\ (i = 1 \/ s[i - 1] = NL)
  BY DEF Ended, Starts
<1>1. i \in Ended(t) /\ EndOf(t, i) = EndOf(s, i) /\ LineAt(t, i) = LineAt(s, i)
  BY EndedStays
<1>2. Complete(t, i) /\ Complete(s, i)
  BY <1>1 DEF Ended
<1>3. t[i] = s[i]
  BY <1>0 DEF Longer
<1>4. UsageEndsAt(t, i - 1) <=> UsageEndsAt(s, i - 1)
  <2>1. PICK e : e = i - 1
    OBVIOUS
  <2>2. e \in 0 .. Len(s) /\ (e = 0 \/ s[e] = NL)
    BY <1>0, <2>1
  <2>3. UsageEndsAt(t, e) <=> UsageEndsAt(s, e)
    BY <2>2, UsageEndStays
  <2>4. QED  BY <2>1, <2>3
<1>5. QED  BY <1>1, <1>2, <1>3, <1>4 DEF HiddenIf, IsUsageEvent

LEMMA ShownStays ==
    ASSUME NEW S, NEW s \in Seq(S), NEW t \in Seq(S), NEW b, Longer(s, t, b), NEW injected
    PROVE  ShownIf(injected, t, Ended(s)) = ShownIf(injected, s, Ended(s))
<1>1. \A i \in Ended(s) : /\ HiddenIf(injected, t, i) <=> HiddenIf(injected, s, i)
                          /\ EndOf(t, i) = EndOf(s, i)
  BY HiddenStays, EndedStays
<1>2. QED  BY <1>1 DEF ShownIf

\* What is shown of the ended lines lies before the last newline.
LEMMA ShownBefore ==
    ASSUME NEW S, NEW s \in Seq(S), NEW L, Cut(s, L), NEW injected
    PROVE  ShownIf(injected, s, Ended(s)) \subseteq 1 .. L
<1>1. \A i \in Ended(s) : i .. EndOf(s, i) \subseteq 1 .. L
  <2>1. TAKE i \in Ended(s)
  <2>2. i \in 1 .. L /\ EndOf(s, i) \in i .. L /\ L \in Nat
    BY EndedBefore DEF Cut
  <2>3. PICK e : e = EndOf(s, i)
    OBVIOUS
  <2>4. QED  BY <2>2, <2>3
<1>2. QED  BY <1>1 DEF ShownIf

(***************************************************************************)
(* Selections                                                              *)
(***************************************************************************)
\* A selection from s is one from what begins with s.
LEMMA SelectsLonger ==
    ASSUME NEW s, NEW t, NEW b, Longer(s, t, b), NEW o, NEW K \in SUBSET (1 .. Len(s)),
           Selects(o, s, K)
    PROVE  Selects(o, t, K)
BY DEF Selects, Longer

\* The empty selection, from the empty sequence.
LEMMA SelectsNothing ==
    ASSUME NEW s, NEW o, o = <<>>
    PROVE  Selects(o, s, {})
BY FS_EmptySet DEF Selects

\* A stretch of s after all that is selected is selected by adding it.
LEMMA SelectsMore ==
    ASSUME NEW S, NEW s \in Seq(S), NEW o \in Seq(S), NEW a \in 1 .. Len(s) + 1,
           NEW e \in a - 1 .. Len(s), NEW K \in SUBSET (1 .. a - 1), Selects(o, s, K)
    PROVE  Selects(o \o SubSeq(s, a, e), s, K \cup (a .. e))
<1>0. Len(s) \in Nat /\ a \in Nat /\ e \in Nat /\ a <= e + 1
  OBVIOUS
<1> DEFINE upto(i) == {j \in K \cup (a .. e) : j <= i}
<1>1. IsFiniteSet(K) /\ Cardinality(K) \in Nat
  <2>1. PICK top : top = a - 1
    OBVIOUS
  <2>2. PICK one : one = 1
    OBVIOUS
  <2>3. one \in Int /\ top \in Int
    BY <1>0, <2>1, <2>2
  <2>4. IsFiniteSet(one .. top)
    BY <2>3, FS_Interval
  <2>5. K \in SUBSET (one .. top)
    BY <2>1, <2>2
  <2>6. IsFiniteSet(K)
    BY <2>4, <2>5, FS_Subset
  <2>7. QED  BY <2>6, FS_CardinalityType
<1>2. PICK u : u = SubSeq(s, a, e)
  OBVIOUS
<1>3. /\ u \in Seq(S) /\ Len(u) = e - a + 1
      /\ \A i \in 1 .. e - a + 1 : u[i] = s[a + i - 1]
  <2>1. \A i \in a .. e : s[i] \in S
    BY <1>0
  <2>2. u \in Seq(S) /\ Len(u) = (IF a <= e THEN e - a + 1 ELSE 0)
        /\ \A i \in 1 .. e - a + 1 : u[i] = s[a + i - 1]
    BY <1>0, <1>2, <2>1, SubSeqProperties
  <2>3. QED  BY <1>0, <2>2
<1>4. ASSUME NEW i \in a - 1 .. e
      PROVE  /\ K \cap (a .. i) = {}
             /\ IsFiniteSet(K \cup (a .. i))
             /\ Cardinality(K \cup (a .. i)) = Cardinality(K) + (i - a + 1)
  <2>1. i \in Int /\ a <= i + 1
    BY <1>0
  <2>2. K \cap (a .. i) = {}
    BY <1>0, <2>1
  <2>3. IsFiniteSet(a .. i) /\ Cardinality(a .. i) = (IF a > i THEN 0 ELSE i - a + 1)
    <3>1. a \in Int
      BY <1>0
    <3>2. QED  BY <2>1, <3>1, FS_Interval
  <2>4. Cardinality(a .. i) = i - a + 1
    BY <1>0, <2>1, <2>3
  <2>5. IsFiniteSet(K \cup (a .. i)) /\
        Cardinality(K \cup (a .. i))
            = Cardinality(K) + Cardinality(a .. i) - Cardinality(K \cap (a .. i))
    BY <1>1, <2>3, FS_Union
  <2>6. Cardinality(K \cap (a .. i)) = 0
    BY <2>2, FS_EmptySet
  <2>7. QED  BY <1>0, <1>1, <2>1, <2>2, <2>4, <2>5, <2>6
<1>5. Len(o) = Cardinality(K) /\ \A i \in K : o[Cardinality({j \in K : j <= i})] = s[i]
  BY DEF Selects
<1>6. /\ Len(o \o u) = Len(o) + Len(u)
      /\ \A i \in 1 .. Len(o) + Len(u) :
            (o \o u)[i] = IF i <= Len(o) THEN o[i] ELSE u[i - Len(o)]
  BY <1>3, ConcatProperties
<1>7. Len(o \o u) = Cardinality(K \cup (a .. e))
  <2>1. e \in a - 1 .. e
    BY <1>0
  <2>2. QED  BY <1>0, <1>1, <1>3, <1>4, <1>5, <1>6, <2>1
<1>8. ASSUME NEW i \in K
      PROVE  (o \o u)[Cardinality(upto(i))] = s[i]
  <2>1. i \in 1 .. a - 1
    BY <1>8
  <2>2. upto(i) = {j \in K : j <= i}
    BY <1>0, <2>1
  <2>3. PICK below : below = {j \in K : j <= i}
    OBVIOUS
  <2>4. below \in SUBSET K /\ below # {}
    BY <2>1, <2>3
  <2>5. IsFiniteSet(below) /\ Cardinality(below) <= Cardinality(K) /\ Cardinality(below) \in Nat
    BY <1>1, <2>4, FS_Subset, FS_CardinalityType
  <2>6. Cardinality(below) # 0
    BY <2>4, <2>5, FS_EmptySet
  <2>7. PICK n : n = Cardinality(below)
    OBVIOUS
  <2>8. n \in 1 .. Len(o) /\ n \in 1 .. Len(o) + Len(u)
    BY <1>0, <1>3, <1>5, <2>5, <2>6, <2>7
  <2>9. o[n] = s[i]
    BY <1>5, <2>3, <2>7
  <2>10. (o \o u)[n] = o[n]
    BY <1>6, <2>8
  <2>11. QED  BY <2>2, <2>3, <2>7, <2>9, <2>10
<1>9. ASSUME NEW i \in a .. e
      PROVE  (o \o u)[Cardinality(upto(i))] = s[i]
  <2>1. upto(i) = K \cup (a .. i)
    <3>1. \A j \in K : j <= i
      BY <1>0
    <3>2. \A j \in a .. e : j <= i <=> j \in a .. i
      BY <1>0
    <3>3. a .. i \subseteq a .. e
      BY <1>0
    <3>4. QED  BY <3>1, <3>2, <3>3
  <2>2. i \in a - 1 .. e /\ i \in Nat
    BY <1>0
  <2>3. Cardinality(upto(i)) = Cardinality(K) + (i - a + 1)
    BY <1>4, <2>1, <2>2
  <2>4. PICK n : n = Cardinality(upto(i))
    OBVIOUS
  <2>5. n = Len(o) + (i - a + 1) /\ Len(o) \in Nat
    BY <1>1, <1>5, <2>3, <2>4
  <2>6. /\ n \in 1 .. Len(o) + Len(u) /\ ~ (n <= Len(o)) /\ n - Len(o) = i - a + 1
        /\ i - a + 1 \in 1 .. e - a + 1 /\ a + (i - a + 1) - 1 = i
    BY <1>0, <1>3, <2>2, <2>5
  <2>7. (o \o u)[n] = u[i - a + 1]
    BY <1>6, <2>6
  <2>8. u[i - a + 1] = s[a + (i - a + 1) - 1]
    BY <1>3, <2>6
  <2>9. QED  BY <2>4, <2>6, <2>7, <2>8
<1>10. \A i \in K \cup (a .. e) : (o \o u)[Cardinality(upto(i))] = s[i]
  BY <1>8, <1>9
<1>11. QED  BY <1>2, <1>7, <1>10 DEF Selects

(***************************************************************************)
(* What has been counted                                                   *)
(***************************************************************************)
\* A body within the limit.
Held == {b \in Seq(AnyByte) : Len(b) <= MaxBody}

Meters ==
    [buffer : Seq(AnyByte), body : Held, truncated : BOOLEAN,
     usage : Counts \cup {None}, delta_chunks : Nat, drop_next_blank : BOOLEAN,
     forward : Seq(AnyByte)]

Reported(s, i) == UsageOf(Loads(LineAt(s, i))) # None
Deltas(s, lines) == {i \in lines : ~ Reported(s, i) /\ Loads(LineAt(s, i))[1] = "delta"}

\* A count and a number of deltas are those of the lines.
Tally(billed, deltas, s, lines) ==
    /\ deltas = Cardinality(Deltas(s, lines))
    /\ \/ billed = None /\ \A i \in lines : ~ Reported(s, i)
       \/ \E k \in lines : /\ Reported(s, k)
                           /\ \A i \in lines : Reported(s, i) => i <= k
                           /\ billed = UsageOf(Loads(LineAt(s, k)))

\* What is loaded from bytes reports a count or none.
LEMMA LoadsTypes ==
    ASSUME NEW bytes \in Seq(AnyByte)
    PROVE  UsageOf(Loads(bytes)) \in Counts \cup {None}
<1>0. Len(bytes) \in Nat
  OBVIOUS
<1>1. PICK s : s = Strip(bytes)
  OBVIOUS
<1>2. s \in Seq(AnyByte)
  <2>1. CASE bytes # <<>> /\ bytes[Len(bytes)] = NL
    <3>1. \A i \in 1 .. Len(bytes) - 1 : bytes[i] \in AnyByte
      BY <1>0
    <3>2. s = SubSeq(bytes, 1, Len(bytes) - 1)
      BY <1>1, <2>1 DEF Strip
    <3>3. QED  BY <1>0, <3>1, <3>2, SubSeqProperties
  <2>2. CASE ~ (bytes # <<>> /\ bytes[Len(bytes)] = NL)
    BY <1>1, <2>2 DEF Strip
  <2>3. QED  BY <2>1, <2>2
<1>3. CASE s # <<>> /\ s = Bytes(s[1].payload, s[1].of)
  <2>1. s[1] \in AnyByte
    BY <1>2, <1>3
  <2>2. s[1].payload \in PayloadKinds \cup {Blank}
    BY <2>1 DEF AnyByte
  <2>3. Loads(bytes) = s[1].payload
    BY <1>1, <1>3 DEF Loads
  <2>4. \A p \in PayloadKinds \cup {Blank} : p[2] \in Counts \cup {None}
    BY DEF PayloadKinds, Blank
  <2>5. QED  BY <2>2, <2>3, <2>4 DEF UsageOf
<1>4. CASE ~ (s # <<>> /\ s = Bytes(s[1].payload, s[1].of))
  <2>1. Loads(bytes) = <<"invalid", None>>
    BY <1>1, <1>4 DEF Loads
  <2>2. QED  BY <2>1 DEF UsageOf
<1>5. QED  BY <1>3, <1>4

\* Nothing is loaded from an empty line.
LEMMA LoadsBlank ==
    Loads(<<NL>>) = <<"invalid", None>>
<1>1. PICK l : l = <<NL>>
  OBVIOUS
<1>2. l \in Seq({NL}) /\ Len(l) = 1 /\ l[1] = NL /\ l # <<>>
  BY <1>1
<1>3. Strip(l) = SubSeq(l, 1, 0)
  BY <1>2 DEF Strip
<1>4. Strip(l) = <<>>
  BY <1>3, SubSeqEmpty
<1>5. Loads(l) = <<"invalid", None>>
  BY <1>4 DEF Loads
<1>6. QED  BY <1>1, <1>5

LEMMA InspectFacts ==
    ASSUME NEW m \in Meters, NEW line \in Seq(AnyByte), NEW r, r = Inspect(m, line)
    PROVE  /\ r \in Meters
           /\ r.buffer = m.buffer /\ r.body = m.body /\ r.truncated = m.truncated
           /\ r.drop_next_blank = m.drop_next_blank /\ r.forward = m.forward
           /\ r.usage = IF UsageOf(Loads(line)) # None THEN UsageOf(Loads(line)) ELSE m.usage
           /\ r.delta_chunks = IF UsageOf(Loads(line)) = None /\ Loads(line)[1] = "delta"
                                 THEN m.delta_chunks + 1 ELSE m.delta_chunks
<1>1. PICK p : p = Loads(line)
  OBVIOUS
<1>2. UsageOf(p) \in Counts \cup {None}
  BY <1>1, LoadsTypes
<1>3. r = IF UsageOf(p) # None THEN [m EXCEPT !.usage = UsageOf(p)]
          ELSE IF p[1] = "delta" THEN [m EXCEPT !.delta_chunks = @ + 1] ELSE m
  BY <1>1 DEF Inspect
<1>4. CASE UsageOf(p) # None
  <2>1. PICK u : u = UsageOf(p)
    OBVIOUS
  <2>2. r = [m EXCEPT !.usage = u] /\ u \in Counts \cup {None}
    BY <1>2, <1>3, <1>4, <2>1
  <2>3. /\ r \in Meters
        /\ r.buffer = m.buffer /\ r.body = m.body /\ r.truncated = m.truncated
        /\ r.drop_next_blank = m.drop_next_blank /\ r.forward = m.forward
        /\ r.usage = u /\ r.delta_chunks = m.delta_chunks
    BY <2>2 DEF Meters
  <2>4. QED  BY <1>1, <1>4, <2>1, <2>3
<1>5. CASE UsageOf(p) = None /\ p[1] = "delta"
  <2>1. PICK n : n = m.delta_chunks + 1
    OBVIOUS
  <2>2. r = [m EXCEPT !.delta_chunks = n]
    BY <1>3, <1>5, <2>1
  <2>3. n \in Nat
    BY <2>1 DEF Meters
  <2>4. /\ r \in Meters
        /\ r.buffer = m.buffer /\ r.body = m.body /\ r.truncated = m.truncated
        /\ r.drop_next_blank = m.drop_next_blank /\ r.forward = m.forward
        /\ r.usage = m.usage /\ r.delta_chunks = n
    BY <2>2, <2>3 DEF Meters
  <2>5. QED  BY <1>1, <1>5, <2>1, <2>4
<1>6. CASE UsageOf(p) = None /\ p[1] # "delta"
  BY <1>1, <1>3, <1>6
<1>7. QED  BY <1>4, <1>5, <1>6

\* A line after those counted is counted by inspecting it.
LEMMA TallyMore ==
    ASSUME NEW m \in Meters, NEW s \in Seq(AnyByte), NEW L \in Nat,
           NEW lines \in SUBSET (1 .. L), Tally(m.usage, m.delta_chunks, s, lines),
           NEW line \in Seq(AnyByte), line = LineAt(s, L + 1),
           NEW r, r = Inspect(m, line)
    PROVE  Tally(r.usage, r.delta_chunks, s, lines \cup {L + 1})
<1>0. L + 1 \notin lines /\ \A i \in lines : i <= L /\ i \in Nat
  OBVIOUS
<1>1. IsFiniteSet(Deltas(s, lines))
  <2>1. PICK one : one = 1
    OBVIOUS
  <2>2. one \in Int /\ L \in Int
    BY <2>1
  <2>3. IsFiniteSet(one .. L)
    BY <2>2, FS_Interval
  <2>4. Deltas(s, lines) \in SUBSET (one .. L)
    BY <2>1 DEF Deltas
  <2>5. QED  BY <2>3, <2>4, FS_Subset
<1>2. PICK p : p = Loads(line)
  OBVIOUS
<1>3. Reported(s, L + 1) <=> UsageOf(p) # None
  BY <1>2 DEF Reported
<1>4. /\ r.usage = IF UsageOf(p) # None THEN UsageOf(p) ELSE m.usage
      /\ r.delta_chunks = IF UsageOf(p) = None /\ p[1] = "delta"
                            THEN m.delta_chunks + 1 ELSE m.delta_chunks
  BY <1>2, InspectFacts
<1>5. r.delta_chunks = Cardinality(Deltas(s, lines \cup {L + 1}))
  <2>1. m.delta_chunks = Cardinality(Deltas(s, lines))
    BY DEF Tally
  <2>2. CASE UsageOf(p) = None /\ p[1] = "delta"
    <3>1. Deltas(s, lines \cup {L + 1}) = Deltas(s, lines) \cup {L + 1}
      BY <1>2, <1>3, <2>2 DEF Deltas
    <3>2. L + 1 \notin Deltas(s, lines)
      BY <1>0 DEF Deltas
    <3>3. Cardinality(Deltas(s, lines) \cup {L + 1}) = Cardinality(Deltas(s, lines)) + 1
      BY <1>1, <3>2, FS_AddElement
    <3>4. QED  BY <1>4, <2>1, <2>2, <3>1, <3>3
  <2>3. CASE ~ (UsageOf(p) = None /\ p[1] = "delta")
    <3>1. Deltas(s, lines \cup {L + 1}) = Deltas(s, lines)
      BY <1>2, <1>3, <2>3 DEF Deltas
    <3>2. QED  BY <1>4, <2>1, <2>3, <3>1
  <2>4. QED  BY <2>2, <2>3
<1>6. CASE UsageOf(p) # None
  <2>1. \A i \in lines \cup {L + 1} : i <= L + 1
    BY <1>0
  <2>2. r.usage = UsageOf(Loads(LineAt(s, L + 1)))
    BY <1>2, <1>4, <1>6
  <2>3. Reported(s, L + 1)
    BY <1>3, <1>6
  <2>4. QED  BY <1>5, <2>1, <2>2, <2>3 DEF Tally
<1>7. CASE UsageOf(p) = None
  <2>1. r.usage = m.usage /\ ~ Reported(s, L + 1)
    BY <1>3, <1>4, <1>7
  <2>2. CASE m.usage = None /\ \A i \in lines : ~ Reported(s, i)
    BY <1>5, <2>1, <2>2 DEF Tally
  <2>3. CASE \E k \in lines : /\ Reported(s, k)
                              /\ \A i \in lines : Reported(s, i) => i <= k
                              /\ m.usage = UsageOf(Loads(LineAt(s, k)))
    <3>1. PICK k \in lines : /\ Reported(s, k)
                             /\ \A i \in lines : Reported(s, i) => i <= k
                             /\ m.usage = UsageOf(Loads(LineAt(s, k)))
      BY <2>3
    <3>2. \A i \in lines \cup {L + 1} : Reported(s, i) => i <= k
      BY <2>1, <3>1
    <3>3. QED  BY <1>5, <2>1, <3>1, <3>2 DEF Tally
  <2>4. QED  BY <2>2, <2>3 DEF Tally
<1>8. QED  BY <1>6, <1>7

\* What was counted of the ended lines stays counted.
LEMMA TallyStays ==
    ASSUME NEW s \in Seq(AnyByte), NEW t \in Seq(AnyByte), NEW b, Longer(s, t, b),
           NEW billed, NEW deltas, Tally(billed, deltas, s, Ended(s))
    PROVE  Tally(billed, deltas, t, Ended(s))
<1>1. \A i \in Ended(s) : LineAt(t, i) = LineAt(s, i)
  BY EndedStays
<1>2. \A i \in Ended(s) : Reported(t, i) <=> Reported(s, i)
  BY <1>1 DEF Reported
<1>3. Deltas(t, Ended(s)) = Deltas(s, Ended(s))
  BY <1>1, <1>2 DEF Deltas
<1>4. QED  BY <1>1, <1>2, <1>3 DEF Tally

(***************************************************************************)
(* A line, a byte                                                          *)
(***************************************************************************)
\* In one description: what a line does to the meter, q being the meter that
\* has inspected it.
LineDone(m, line, q, r) ==
    /\ r \in Meters
    /\ r.buffer = m.buffer
    /\ r.usage = q.usage /\ r.delta_chunks = q.delta_chunks
    /\ r.drop_next_blank <=> Suppressed(line)
    /\ r.forward = IF Suppressed(line) \/ (line = <<NL>> /\ m.drop_next_blank)
                     THEN m.forward ELSE m.forward \o line

LEMMA ForwardLineFacts ==
    ASSUME NEW m \in Meters, NEW line \in Seq(AnyByte),
           NEW r, r = ForwardLine(m, line), NEW q, q = Inspect(m, line)
    PROVE  LineDone(m, line, q, r)
<1>1. PICK f : f = m.forward \o line
  OBVIOUS
<1>2. f \in Seq(AnyByte)
  <2>1. m.forward \in Seq(AnyByte)
    BY DEF Meters
  <2>2. QED  BY <1>1, <2>1, ConcatProperties
<1>3. CASE line = <<NL>>
  <2>1. Loads(line) = <<"invalid", None>>
    BY <1>3, LoadsBlank
  <2>2. ~ Suppressed(line) /\ q.usage = m.usage /\ q.delta_chunks = m.delta_chunks
    <3>1. UsageOf(Loads(line)) = None /\ Loads(line)[1] = "invalid"
      BY <2>1 DEF UsageOf
    <3>2. QED  BY <3>1, InspectFacts DEF Suppressed
  <2>3. CASE m.drop_next_blank
    <3>1. r = [m EXCEPT !.drop_next_blank = FALSE]
      BY <1>3, <2>3 DEF ForwardLine
    <3>2. QED  BY <1>3, <2>2, <2>3, <3>1 DEF Meters, LineDone
  <2>4. CASE ~ m.drop_next_blank
    <3>1. r = [m EXCEPT !.forward = f]
      BY <1>1, <1>3, <2>4 DEF ForwardLine
    <3>2. /\ r \in Meters /\ r.buffer = m.buffer
          /\ r.usage = m.usage /\ r.delta_chunks = m.delta_chunks
          /\ r.drop_next_blank = m.drop_next_blank /\ r.forward = f
      BY <1>2, <3>1 DEF Meters
    <3>3. QED  BY <1>1, <1>3, <2>2, <2>4, <3>2 DEF LineDone
  <2>5. QED  BY <2>3, <2>4
<1>4. CASE line # <<NL>>
  <2>1. q \in Meters /\ q.buffer = m.buffer /\ q.forward = m.forward
    BY InspectFacts
  <2>2. CASE Suppressed(line)
    <3>1. r = [q EXCEPT !.drop_next_blank = TRUE]
      BY <1>4, <2>2 DEF ForwardLine
    <3>2. QED  BY <2>1, <2>2, <3>1 DEF Meters, LineDone
  <2>3. CASE ~ Suppressed(line)
    <3>1. r = [q EXCEPT !.drop_next_blank = FALSE, !.forward = f]
      BY <1>1, <1>4, <2>1, <2>3 DEF ForwardLine
    <3>2. /\ r \in Meters /\ r.buffer = q.buffer
          /\ r.usage = q.usage /\ r.delta_chunks = q.delta_chunks
          /\ r.drop_next_blank = FALSE /\ r.forward = f
      BY <1>2, <2>1, <3>1 DEF Meters
    <3>3. QED  BY <1>1, <1>4, <2>1, <2>3, <3>2 DEF LineDone
  <2>4. QED  BY <2>2, <2>3
<1>5. QED  BY <1>3, <1>4

\* Where the meter is when it has been fed s: what it holds back, whether the
\* next empty line belongs to a hidden event, what it has counted, and what
\* o and the bytes it is about to return show of the ended lines.
Metered(injected, m, s, o) ==
    /\ m \in Meters
    /\ \E L \in 0 .. Len(s) :
          /\ Cut(s, L)
          /\ m.buffer = SubSeq(s, L + 1, Len(s))
          /\ m.drop_next_blank <=> (injected /\ UsageEndsAt(s, L))
    /\ Tally(m.usage, m.delta_chunks, s, Ended(s))
    /\ Selects(o \o m.forward, s, ShownIf(injected, s, Ended(s)))

\* The bytes after L, and one more.
Grows(s, t, b, L) ==
    /\ t \in Seq(AnyByte) /\ Longer(s, t, b)
    /\ SubSeq(t, L + 1, Len(t)) = Append(SubSeq(s, L + 1, Len(s)), b)

LEMMA LongerRest ==
    ASSUME NEW S, NEW s \in Seq(S), NEW b \in S, NEW L \in 0 .. Len(s),
           NEW t \in Seq(S), Longer(s, t, b)
    PROVE  SubSeq(t, L + 1, Len(t)) = Append(SubSeq(s, L + 1, Len(s)), b)
<1>0. Len(s) \in Nat /\ L \in Nat /\ L <= Len(s)
  OBVIOUS
<1>1. /\ t \in Seq(S) /\ Len(t) = Len(s) + 1 /\ t[Len(s) + 1] = b
      /\ \A i \in 1 .. Len(s) : t[i] = s[i]
  BY DEF Longer
<1>2. PICK u : u = SubSeq(s, L + 1, Len(s))
  OBVIOUS
<1>3. PICK v : v = SubSeq(t, L + 1, Len(t))
  OBVIOUS
<1>4. PICK n : n = Len(s) - L
  OBVIOUS
<1>5. n \in Nat
  BY <1>0, <1>4
<1>6. u \in Seq(S) /\ Len(u) = n /\ \A i \in 1 .. n : u[i] = s[L + i]
  <2>1. \A i \in L + 1 .. Len(s) : s[i] \in S
    BY <1>0
  <2>2. L + 1 \in Int /\ Len(s) \in Int
    BY <1>0
  <2>3. /\ u \in Seq(S) /\ Len(u) = IF L + 1 <= Len(s) THEN Len(s) - (L + 1) + 1 ELSE 0
        /\ \A i \in 1 .. Len(s) - (L + 1) + 1 : u[i] = s[(L + 1) + i - 1]
    BY <1>2, <2>1, <2>2, SubSeqProperties
  <2>4. \A i \in 1 .. n : u[i] = s[L + i]
    <3>1. TAKE i \in 1 .. n
    <3>2. i \in 1 .. Len(s) - (L + 1) + 1 /\ (L + 1) + i - 1 = L + i
      BY <1>0, <1>4
    <3>3. QED  BY <2>3, <3>2
  <2>5. QED  BY <1>0, <1>4, <2>3, <2>4
<1>7. v \in Seq(S) /\ Len(v) = n + 1 /\ \A i \in 1 .. n + 1 : v[i] = t[L + i]
  <2>1. \A i \in L + 1 .. Len(t) : t[i] \in S
    BY <1>0, <1>1
  <2>2. PICK a : a = L + 1
    OBVIOUS
  <2>3. PICK e : e = Len(t)
    OBVIOUS
  <2>4. a \in Int /\ e \in Int /\ \A i \in a .. e : t[i] \in S
    BY <1>0, <1>1, <2>1, <2>2, <2>3
  <2>5. /\ v \in Seq(S) /\ Len(v) = IF a <= e THEN e - a + 1 ELSE 0
        /\ \A i \in 1 .. e - a + 1 : v[i] = t[a + i - 1]
    <3>1. /\ SubSeq(t, a, e) \in Seq(S)
          /\ Len(SubSeq(t, a, e)) = IF a <= e THEN e - a + 1 ELSE 0
          /\ \A i \in 1 .. e - a + 1 : SubSeq(t, a, e)[i] = t[a + i - 1]
      BY <2>4, SubSeqProperties
    <3>2. v = SubSeq(t, a, e)
      BY <1>3, <2>2, <2>3
    <3>3. QED  BY <3>1, <3>2
  <2>6. \A i \in 1 .. n + 1 : v[i] = t[L + i]
    <3>1. TAKE i \in 1 .. n + 1
    <3>2. i \in 1 .. e - a + 1 /\ a + i - 1 = L + i
      BY <1>0, <1>1, <1>4, <2>2, <2>3
    <3>3. QED  BY <2>5, <3>2
  <2>7. QED  BY <1>0, <1>1, <1>4, <2>2, <2>3, <2>5, <2>6
<1>8. PICK w : w = Append(u, b)
  OBVIOUS
<1>9. /\ w \in Seq(S) /\ Len(w) = n + 1 /\ w[n + 1] = b
      /\ \A i \in 1 .. n : w[i] = u[i]
  BY <1>6, <1>8, AppendProperties
<1>10. \A i \in 1 .. Len(v) : v[i] = w[i]
  <2>1. TAKE i \in 1 .. Len(v)
  <2>2. i \in 1 .. n + 1 /\ (i = n + 1 \/ i \in 1 .. n)
    BY <1>5, <1>7
  <2>3. CASE i = n + 1
    <3>1. L + i = Len(s) + 1
      BY <1>0, <1>4, <2>3
    <3>2. QED  BY <1>1, <1>7, <1>9, <2>2, <2>3, <3>1
  <2>4. CASE i \in 1 .. n
    <3>1. L + i \in 1 .. Len(s)
      BY <1>0, <1>4, <2>4
    <3>2. QED  BY <1>1, <1>6, <1>7, <1>9, <2>2, <2>4, <3>1
  <2>5. QED  BY <2>2, <2>3, <2>4
<1>11. v = w
  BY <1>7, <1>9, <1>10, SeqEqual
<1>12. QED  BY <1>2, <1>3, <1>8, <1>11

LEMMA RestGrows ==
    ASSUME NEW s \in Seq(AnyByte), NEW b \in AnyByte, NEW L \in 0 .. Len(s),
           NEW t, t = Append(s, b)
    PROVE  Grows(s, t, b, L)
<1>1. t \in Seq(AnyByte) /\ Longer(s, t, b)
  BY AppendProperties DEF Longer
<1>2. SubSeq(t, L + 1, Len(t)) = Append(SubSeq(s, L + 1, Len(s)), b)
  BY <1>1, LongerRest
<1>3. QED  BY <1>1, <1>2 DEF Grows

\* Only the line that the last newline ends ends there.
LEMMA UsageEndsLast ==
    ASSUME NEW S, NEW s \in Seq(S), NEW t \in Seq(S), Longer(s, t, NL),
           NEW L, Cut(s, L)
    PROVE  UsageEndsAt(t, Len(t)) <=> IsUsageEvent(t, L + 1)
<1>0. Len(s) \in Nat /\ Len(t) = Len(s) + 1 /\ t[Len(t)] = NL /\ L <= Len(s) /\ L \in Nat
  BY DEF Longer, Cut
<1>1. /\ Ended(t) = Ended(s) \cup {L + 1}
      /\ EndOf(t, L + 1) = Len(t)
  BY EndedByNewline
<1>2. L + 1 \in Starts(t)
  BY <1>1 DEF Ended
<1>3. ASSUME NEW h \in Starts(t), EndOf(t, h) = Len(t)
      PROVE  h = L + 1
  <2>1. h \in Ended(t)
    BY <1>0, <1>3 DEF Ended, Complete
  <2>2. ASSUME h \in Ended(s)
        PROVE  FALSE
    <3>1. EndOf(t, h) = EndOf(s, h)
      BY <2>2, EndedStays
    <3>2. h \in 1 .. L /\ EndOf(s, h) \in h .. L
      BY <2>2, EndedBefore
    <3>3. QED  BY <1>0, <1>3, <3>1, <3>2
  <2>3. QED  BY <1>1, <2>1, <2>2
<1>4. QED  BY <1>1, <1>2, <1>3 DEF UsageEndsAt

\* Any other byte is held back.
LEMMA HeldBack ==
    ASSUME NEW injected \in BOOLEAN, NEW s \in Seq(AnyByte), NEW b \in AnyByte, b # NL,
           NEW t, t = Append(s, b), NEW o, NEW m, Metered(injected, m, s, o),
           NEW r, r = [m EXCEPT !.buffer = Append(m.buffer, b)]
    PROVE  Metered(injected, r, t, o)
<1>1. PICK L \in 0 .. Len(s) :
          /\ Cut(s, L)
          /\ m.buffer = SubSeq(s, L + 1, Len(s))
          /\ m.drop_next_blank <=> (injected /\ UsageEndsAt(s, L))
  BY DEF Metered
<1>2. /\ t \in Seq(AnyByte) /\ Longer(s, t, b)
      /\ SubSeq(t, L + 1, Len(t)) = Append(m.buffer, b)
  <2>1. PICK u : u = SubSeq(s, L + 1, Len(s))
    OBVIOUS
  <2>2. PICK v : v = SubSeq(t, L + 1, Len(t))
    OBVIOUS
  <2>3. Grows(s, t, b, L)
    BY RestGrows
  <2>4. QED  BY <1>1, <2>1, <2>2, <2>3 DEF Grows
<1>3. Cut(t, L) /\ Ended(t) = Ended(s) /\ L \in 0 .. Len(t)
  <2>1. Cut(t, L) /\ Ended(t) = Ended(s)
    BY <1>1, <1>2, EndedByNone
  <2>2. QED  BY <2>1 DEF Cut
<1>4. PICK g : g = Append(m.buffer, b)
  OBVIOUS
<1>5. m \in Meters /\ g \in Seq(AnyByte)
  <2>1. m \in Meters /\ m.buffer \in Seq(AnyByte)
    BY DEF Metered, Meters
  <2>2. QED  BY <1>4, <2>1, AppendProperties
<1>6. /\ r \in Meters /\ r.buffer = g /\ r.usage = m.usage /\ r.delta_chunks = m.delta_chunks
      /\ r.drop_next_blank = m.drop_next_blank /\ r.forward = m.forward
  <2>1. r = [m EXCEPT !.buffer = g]
    BY <1>4
  <2>2. QED  BY <1>5, <2>1 DEF Meters
<1>7. r.drop_next_blank <=> (injected /\ UsageEndsAt(t, L))
  <2>1. L = 0 \/ s[L] = NL
    BY <1>1 DEF Cut
  <2>2. UsageEndsAt(t, L) <=> UsageEndsAt(s, L)
    BY <1>1, <1>2, <2>1, UsageEndStays
  <2>3. QED  BY <1>1, <1>6, <2>2
<1>8. Tally(r.usage, r.delta_chunks, t, Ended(t))
  <2>1. Tally(m.usage, m.delta_chunks, s, Ended(s))
    BY DEF Metered
  <2>2. PICK n : n = m.usage
    OBVIOUS
  <2>3. PICK d : d = m.delta_chunks
    OBVIOUS
  <2>4. Tally(n, d, t, Ended(s))
    BY <1>2, <2>1, <2>2, <2>3, TallyStays
  <2>5. QED  BY <1>3, <1>6, <2>2, <2>3, <2>4
<1>9. Selects(o \o r.forward, t, ShownIf(injected, t, Ended(t)))
  <2>1. PICK K : K = ShownIf(injected, s, Ended(s))
    OBVIOUS
  <2>2. PICK f : f = o \o m.forward
    OBVIOUS
  <2>3. Selects(f, s, K)
    BY <2>1, <2>2 DEF Metered
  <2>4. K \in SUBSET (1 .. Len(s))
    <3>1. K \subseteq 1 .. L
      BY <1>1, <2>1, ShownBefore
    <3>2. 1 .. L \subseteq 1 .. Len(s)
      BY <1>1
    <3>3. QED  BY <3>1, <3>2
  <2>5. Selects(f, t, K)
    BY <1>2, <2>3, <2>4, SelectsLonger
  <2>6. ShownIf(injected, t, Ended(t)) = K
    BY <1>2, <1>3, <2>1, ShownStays
  <2>7. QED  BY <1>6, <2>2, <2>5, <2>6
<1>10. r.buffer = SubSeq(t, L + 1, Len(t))
  BY <1>2, <1>4, <1>6
<1>11. QED  BY <1>3, <1>6, <1>7, <1>8, <1>9, <1>10 DEF Metered

LEMMA Associates ==
    ASSUME NEW x \in Seq(AnyByte), NEW y \in Seq(AnyByte), NEW z \in Seq(AnyByte)
    PROVE  (x \o y) \o z = x \o (y \o z)
BY ConcatAssociative

\* A newline ends a line, which is inspected and forwarded or not.
LEMMA LineEnds ==
    ASSUME NEW injected \in BOOLEAN, injected = plan.injected_usage,
           NEW s \in Seq(AnyByte), NEW t, t = Append(s, NL), NEW o \in Seq(AnyByte),
           NEW m, Metered(injected, m, s, o),
           NEW line, line = Append(m.buffer, NL),
           NEW clean, clean = [m EXCEPT !.buffer = <<>>],
           NEW r, r = ForwardLine(clean, line)
    PROVE  Metered(injected, r, t, o)
<1>0. Len(s) \in Nat /\ NL \in AnyByte
  BY NLIsAByte
<1>1. PICK L \in 0 .. Len(s) :
          /\ Cut(s, L)
          /\ m.buffer = SubSeq(s, L + 1, Len(s))
          /\ m.drop_next_blank <=> (injected /\ UsageEndsAt(s, L))
  BY DEF Metered
<1>2. /\ t \in Seq(AnyByte) /\ Longer(s, t, NL)
      /\ SubSeq(t, L + 1, Len(t)) = line
  <2>1. PICK b : b = NL
    OBVIOUS
  <2>2. PICK u : u = SubSeq(s, L + 1, Len(s))
    OBVIOUS
  <2>3. PICK v : v = SubSeq(t, L + 1, Len(t))
    OBVIOUS
  <2>4. b \in AnyByte /\ t = Append(s, b)
    BY <1>0, <2>1
  <2>5. Grows(s, t, b, L)
    BY <2>4, RestGrows
  <2>6. QED  BY <1>1, <2>1, <2>2, <2>3, <2>5 DEF Grows
<1>3. /\ Cut(t, Len(t)) /\ Ended(t) = Ended(s) \cup {L + 1}
      /\ EndOf(t, L + 1) = Len(t)
  BY <1>1, <1>2, EndedByNewline
<1>4. /\ LineAt(t, L + 1) = line
      /\ Len(t) = Len(s) + 1 /\ t[Len(t)] = NL /\ Complete(t, L + 1)
  BY <1>2, <1>3 DEF LineAt, Complete, Longer
<1>5. /\ m \in Meters /\ m.buffer \in Seq(AnyByte) /\ m.forward \in Seq(AnyByte)
      /\ m.drop_next_blank \in BOOLEAN
  BY DEF Metered, Meters
<1>6. line \in Seq(AnyByte)
  BY <1>0, <1>5, AppendProperties
<1>7. /\ clean \in Meters /\ clean.buffer = <<>>
      /\ clean.usage = m.usage /\ clean.delta_chunks = m.delta_chunks
      /\ clean.drop_next_blank = m.drop_next_blank /\ clean.forward = m.forward
  <2>1. PICK e : e = <<>>
    OBVIOUS
  <2>2. e \in Seq(AnyByte)
    BY <2>1, EmptySeq
  <2>3. clean = [m EXCEPT !.buffer = e]
    BY <2>1
  <2>4. QED  BY <1>5, <2>1, <2>2, <2>3 DEF Meters
<1>8. PICK q : q = Inspect(clean, line)
  OBVIOUS
<1>9. /\ r \in Meters
      /\ r.buffer = <<>>
      /\ r.usage = q.usage /\ r.delta_chunks = q.delta_chunks
      /\ r.drop_next_blank <=> Suppressed(line)
      /\ r.forward = IF Suppressed(line) \/ (line = <<NL>> /\ m.drop_next_blank)
                       THEN m.forward ELSE m.forward \o line
  <2>1. LineDone(clean, line, q, r)
    BY <1>6, <1>7, <1>8, ForwardLineFacts
  <2>2. QED  BY <1>7, <2>1 DEF LineDone
<1>10. Suppressed(line) <=> (injected /\ IsUsageEvent(t, L + 1))
  BY <1>4 DEF Suppressed, IsUsageEvent
<1>11. line = <<NL>> <=> t[L + 1] = NL
  <2>1. PICK n : n = Len(s) - L
    OBVIOUS
  <2>2. n \in Nat /\ Len(m.buffer) = n
    <3>1. \A i \in L + 1 .. Len(s) : s[i] \in AnyByte
      BY <1>0
    <3>2. L + 1 \in Int /\ Len(s) \in Int /\ L <= Len(s)
      BY <1>0
    <3>3. PICK u : u = SubSeq(s, L + 1, Len(s))
      OBVIOUS
    <3>4. Len(u) = IF L + 1 <= Len(s) THEN Len(s) - (L + 1) + 1 ELSE 0
      BY <3>1, <3>2, <3>3, SubSeqProperties
    <3>5. QED  BY <1>0, <1>1, <2>1, <3>2, <3>3, <3>4
  <2>3. CASE n = 0
    <3>1. L + 1 = Len(t)
      BY <1>0, <1>4, <2>1, <2>3
    <3>2. m.buffer = <<>>
      BY <1>5, <2>2, <2>3, EmptySeq
    <3>3. line = <<NL>>
      BY <3>2
    <3>4. QED  BY <1>4, <3>1, <3>3
  <2>4. CASE n # 0
    <3>1. L + 1 \in 1 .. Len(s) /\ L + 1 \in L + 1 .. Len(s)
      BY <1>0, <2>1, <2>2, <2>4
    <3>2. t[L + 1] = s[L + 1] /\ s[L + 1] # NL
      BY <1>1, <1>2, <3>1 DEF Longer, Cut
    <3>3. Len(line) = n + 1
      BY <1>0, <1>5, <2>2, AppendProperties
    <3>4. PICK l : l = <<NL>>
      OBVIOUS
    <3>5. line # l
      <4>1. Len(l) = 1 /\ Len(line) # 1
        BY <2>2, <2>4, <3>3, <3>4
      <4>2. QED  BY <4>1
    <3>6. QED  BY <3>2, <3>4, <3>5
  <2>5. QED  BY <2>3, <2>4
<1>12. HiddenIf(injected, t, L + 1)
          <=> (Suppressed(line) \/ (line = <<NL>> /\ m.drop_next_blank))
  <2>1. UsageEndsAt(t, L) <=> UsageEndsAt(s, L)
    <3>1. L = 0 \/ s[L] = NL
      BY <1>1 DEF Cut
    <3>2. QED  BY <1>1, <1>2, <3>1, UsageEndStays
  <2>2. (L + 1) - 1 = L
    BY <1>1
  <2>3. QED  BY <1>1, <1>4, <1>10, <1>11, <2>1, <2>2 DEF HiddenIf
<1>13. r.drop_next_blank <=> (injected /\ UsageEndsAt(t, Len(t)))
  <2>1. UsageEndsAt(t, Len(t)) <=> IsUsageEvent(t, L + 1)
    BY <1>1, <1>2, UsageEndsLast
  <2>2. QED  BY <1>9, <1>10, <2>1
<1>14. Tally(r.usage, r.delta_chunks, t, Ended(t))
  <2>1. PICK n : n = clean.usage
    OBVIOUS
  <2>2. PICK d : d = clean.delta_chunks
    OBVIOUS
  <2>3. Tally(n, d, s, Ended(s))
    BY <1>7, <2>1, <2>2 DEF Metered
  <2>4. Tally(n, d, t, Ended(s))
    BY <1>2, <2>3, TallyStays
  <2>5. Ended(s) \in SUBSET (1 .. L) /\ L \in Nat
    BY <1>0, <1>1, EndedBefore
  <2>6. Tally(q.usage, q.delta_chunks, t, Ended(s) \cup {L + 1})
    BY <1>2, <1>4, <1>6, <1>7, <1>8, <2>1, <2>2, <2>4, <2>5, TallyMore
  <2>7. QED  BY <1>3, <1>9, <2>6
<1>15. Selects(o \o r.forward, t, ShownIf(injected, t, Ended(t)))
  <2>1. PICK K : K = ShownIf(injected, s, Ended(s))
    OBVIOUS
  <2>2. PICK f : f = o \o m.forward
    OBVIOUS
  <2>3. f \in Seq(AnyByte)
    BY <1>5, <2>2, ConcatProperties
  <2>4. Selects(f, s, K)
    BY <2>1, <2>2 DEF Metered
  <2>5. K \in SUBSET (1 .. L)
    BY <1>1, <2>1, ShownBefore
  <2>6. K \in SUBSET (1 .. Len(s))
    <3>1. 1 .. L \subseteq 1 .. Len(s)
      BY <1>1
    <3>2. QED  BY <2>5, <3>1
  <2>7. Selects(f, t, K)
    BY <1>2, <2>4, <2>6, SelectsLonger
  <2>8. ShownIf(injected, t, Ended(t))
          = K \cup (IF HiddenIf(injected, t, L + 1) THEN {} ELSE L + 1 .. Len(t))
    <3>1. ShownIf(injected, t, Ended(s)) = K
      BY <1>2, <2>1, ShownStays
    <3>2. PICK lines : lines = Ended(s)
      OBVIOUS
    <3>3. PICK i : i = L + 1
      OBVIOUS
    <3>4. ShownIf(injected, t, lines \cup {i})
            = ShownIf(injected, t, lines)
                \cup (IF HiddenIf(injected, t, i) THEN {} ELSE i .. EndOf(t, i))
      BY DEF ShownIf
    <3>5. QED  BY <1>3, <3>1, <3>2, <3>3, <3>4
  <2>9. CASE HiddenIf(injected, t, L + 1)
    <3>1. r.forward = m.forward
      BY <1>9, <1>12, <2>9
    <3>2. QED  BY <2>2, <2>7, <2>8, <2>9, <3>1
  <2>10. CASE ~ HiddenIf(injected, t, L + 1)
    <3>1. r.forward = m.forward \o line
      BY <1>9, <1>12, <2>10
    <3>2. o \o (m.forward \o line) = f \o line
      <4>1. PICK g : g = m.forward
        OBVIOUS
      <4>2. g \in Seq(AnyByte)
        BY <1>5, <4>1
      <4>3. (o \o g) \o line = o \o (g \o line)
        BY <1>6, <4>2, Associates, Zenon
      <4>4. QED  BY <2>2, <4>1, <4>3
    <3>3. PICK a : a = L + 1
      OBVIOUS
    <3>4. PICK e : e = Len(t)
      OBVIOUS
    <3>5. a \in 1 .. Len(t) + 1 /\ e \in a - 1 .. Len(t) /\ a - 1 = L
      BY <1>0, <1>1, <1>4, <3>3, <3>4
    <3>6. K \in SUBSET (1 .. a - 1)
      BY <2>5, <3>5
    <3>7. Selects(f \o SubSeq(t, a, e), t, K \cup (a .. e))
      BY <1>2, <2>3, <2>7, <3>5, <3>6, SelectsMore
    <3>8. SubSeq(t, a, e) = line
      BY <1>2, <3>3, <3>4
    <3>9. QED  BY <2>8, <2>10, <3>1, <3>2, <3>3, <3>4, <3>7, <3>8
  <2>11. QED  BY <2>9, <2>10
<1>16. r.buffer = SubSeq(t, Len(t) + 1, Len(t)) /\ Len(t) \in 0 .. Len(t)
  <2>1. Len(t) \in Int /\ Len(t) + 1 \in Int /\ Len(t) < Len(t) + 1 /\ Len(t) >= 0
    BY <1>0, <1>4
  <2>2. PICK e : e = Len(t)
    OBVIOUS
  <2>3. PICK a : a = e + 1
    OBVIOUS
  <2>4. SubSeq(t, a, e) = <<>>
    <3>1. a \in Int /\ e \in Int /\ e < a
      BY <2>1, <2>2, <2>3
    <3>2. QED  BY <3>1, SubSeqEmpty
  <2>5. SubSeq(t, Len(t) + 1, Len(t)) = <<>>
    BY <2>2, <2>3, <2>4
  <2>6. r.buffer = <<>>
    BY <1>9
  <2>7. Len(t) \in 0 .. Len(t)
    BY <2>1
  <2>8. r.buffer = SubSeq(t, Len(t) + 1, Len(t))
    BY <2>5, <2>6, Zenon
  <2>9. QED  BY <2>7, <2>8
<1>17. QED
  <2>1. \E M \in 0 .. Len(t) :
            /\ Cut(t, M)
            /\ r.buffer = SubSeq(t, M + 1, Len(t))
            /\ r.drop_next_blank <=> (injected /\ UsageEndsAt(t, M))
    BY <1>3, <1>13, <1>16
  <2>2. QED  BY <1>9, <1>14, <1>15, <2>1 DEF Metered

LEMMA ByteFed ==
    ASSUME NEW injected \in BOOLEAN, injected = plan.injected_usage,
           NEW s \in Seq(AnyByte), NEW b \in AnyByte, NEW t, t = Append(s, b),
           NEW o \in Seq(AnyByte), NEW m, Metered(injected, m, s, o),
           NEW r, r = FeedByte(m, b)
    PROVE  Metered(injected, r, t, o)
<1>1. CASE b = NL
  <2>1. PICK line : line = Append(m.buffer, NL)
    OBVIOUS
  <2>2. PICK clean : clean = [m EXCEPT !.buffer = <<>>]
    OBVIOUS
  <2>3. r = ForwardLine(clean, line)
    BY <1>1, <2>1, <2>2 DEF FeedByte
  <2>4. t = Append(s, NL)
    BY <1>1
  <2>5. QED  BY <2>1, <2>2, <2>3, <2>4, LineEnds
<1>2. CASE b # NL
  <2>1. r = [m EXCEPT !.buffer = Append(m.buffer, b)]
    BY <1>2 DEF FeedByte
  <2>2. QED  BY <1>2, <2>1, HeldBack
<1>3. QED  BY <1>1, <1>2

(***************************************************************************)
(* A chunk                                                                 *)
(***************************************************************************)
\* The function of Fed, as far as the k-th byte.
FedTo(W, m, chunk, k) ==
    W = [n \in 0 .. k |-> IF n = 0 THEN [m EXCEPT !.forward = <<>>]
                                   ELSE FeedByte(W[n - 1], chunk[n])]

LEMMA FedExists ==
    ASSUME NEW m, NEW chunk, NEW k \in Nat
    PROVE  \E W : FedTo(W, m, chunk, k)
<1> DEFINE Bad == {j \in Nat : ~ \E W : FedTo(W, m, chunk, j)}
           start == [m EXCEPT !.forward = <<>>]
<1>1. SUFFICES ASSUME Bad # {}
               PROVE  FALSE
  OBVIOUS
<1>2. PICK j \in Bad : \A i \in Bad : j <= i
  <2>1. Bad \in SUBSET Nat
    OBVIOUS
  <2> HIDE DEF Bad
  <2>2. QED  BY <1>1, <2>1, LeastNumber
<1>3. j \in Nat /\ ~ \E W : FedTo(W, m, chunk, j)
  BY <1>2
<1>4. CASE j = 0
  <2>1. PICK e : e = [n \in 0 .. 0 |-> start]
    OBVIOUS
  <2>2. FedTo(e, m, chunk, 0)
    BY <2>1 DEF FedTo
  <2>3. QED  BY <1>3, <1>4, <2>2
<1>5. CASE j # 0
  <2>1. j - 1 \in Nat /\ ~ (j <= j - 1)
    BY <1>3, <1>5
  <2>2. PICK W : FedTo(W, m, chunk, j - 1)
    <3>1. j - 1 \notin Bad
      BY <1>2, <2>1
    <3>2. QED  BY <2>1, <3>1
  <2>3. PICK V : V = [n \in 0 .. j |-> IF n = j THEN FeedByte(W[j - 1], chunk[j]) ELSE W[n]]
    OBVIOUS
  <2>4. ASSUME NEW n \in 0 .. j
        PROVE  V[n] = IF n = 0 THEN start ELSE FeedByte(V[n - 1], chunk[n])
    <3>1. n = 0 \/ (n - 1 \in 0 .. j /\ n - 1 # j)
      BY <1>3
    <3>2. n = 0 \/ V[n - 1] = W[n - 1]
      BY <2>3, <3>1
    <3>3. CASE n = j
      BY <1>5, <2>3, <3>2, <3>3
    <3>4. CASE n # j
      <4>1. n \in 0 .. j - 1
        BY <1>3, <3>4
      <4>2. W[n] = IF n = 0 THEN start ELSE FeedByte(W[n - 1], chunk[n])
        BY <2>2, <4>1 DEF FedTo
      <4>3. V[n] = W[n]
        BY <2>3, <3>4
      <4>4. QED  BY <3>2, <4>2, <4>3
    <3>5. QED  BY <3>3, <3>4
  <2>5. V = [n \in 0 .. j |-> V[n]]
    BY <2>3
  <2>6. FedTo(V, m, chunk, j)
    BY <2>4, <2>5 DEF FedTo
  <2>7. QED  BY <1>3, <2>6
<1>6. QED  BY <1>4, <1>5

LEMMA PrefixGrows ==
    ASSUME NEW s \in Seq(AnyByte), NEW n \in 1 .. Len(s)
    PROVE  /\ SubSeq(s, 1, n - 1) \in Seq(AnyByte) /\ s[n] \in AnyByte
           /\ SubSeq(s, 1, n) = Append(SubSeq(s, 1, n - 1), s[n])
<1>0. Len(s) \in Nat
  OBVIOUS
<1>1. s[n] \in AnyByte
  OBVIOUS
<1>2. PICK u : u = SubSeq(s, 1, n - 1)
  OBVIOUS
<1>3. u \in Seq(AnyByte)
  <2>1. \A i \in 1 .. n - 1 : s[i] \in AnyByte
    BY <1>0
  <2>2. 1 \in Int /\ n - 1 \in Int
    BY <1>0
  <2>3. QED  BY <1>2, <2>1, <2>2, SubSeqProperties
<1>4. SubSeq(s, 1, n) = u \o <<s[n]>>
  <2>1. PICK one : one = 1
    OBVIOUS
  <2>2. one \in 1 .. Len(s) /\ n \in one .. Len(s)
    BY <1>0, <2>1
  <2>3. SubSeq(s, one, n) = SubSeq(s, one, n - 1) \o <<s[n]>>
    BY <2>2, SubSeqRecursiveSecond
  <2>4. QED  BY <1>2, <2>1, <2>3
<1>5. Append(u, s[n]) = u \o <<s[n]>>
  BY <1>1, <1>3, AppendIsConcat
<1>6. QED  BY <1>1, <1>2, <1>3, <1>4, <1>5

\* Byte by byte the meter keeps up with the chunk.
LEMMA FedFacts ==
    ASSUME NEW injected \in BOOLEAN, injected = plan.injected_usage,
           NEW s \in Seq(AnyByte), NEW from \in Nat, NEW k \in Nat, from + k <= Len(s),
           NEW chunk, \A i \in 1 .. k : chunk[i] = s[from + i],
           NEW o \in Seq(AnyByte), NEW m, NEW W, FedTo(W, m, chunk, k),
           Metered(injected, [m EXCEPT !.forward = <<>>], SubSeq(s, 1, from), o)
    PROVE  Metered(injected, W[k], SubSeq(s, 1, from + k), o)
<1> DEFINE Good(n) == Metered(injected, W[n], SubSeq(s, 1, from + n), o)
           Bad == {n \in 0 .. k : ~ Good(n)}
<1>0. Len(s) \in Nat
  OBVIOUS
<1>1. SUFFICES ASSUME Bad # {}
               PROVE  FALSE
  <2>1. k \in 0 .. k
    OBVIOUS
  <2>2. QED  BY <2>1
<1>2. PICK n \in Bad : \A i \in Bad : n <= i
  <2>1. Bad \in SUBSET Nat
    OBVIOUS
  <2> HIDE DEF Bad
  <2>2. QED  BY <1>1, <2>1, LeastNumber
<1>3. n \in 0 .. k /\ ~ Good(n)
  BY <1>2
<1>4. n # 0
  <2>1. SUFFICES ASSUME n = 0
                 PROVE  FALSE
    OBVIOUS
  <2>2. W[0] = [m EXCEPT !.forward = <<>>]
    BY DEF FedTo
  <2>3. from + n = from
    BY <2>1
  <2>4. Good(n)
    BY <2>1, <2>2, <2>3
  <2>5. QED  BY <1>3, <2>4
<1>5. n - 1 \in 0 .. k /\ ~ (n <= n - 1) /\ n \in 1 .. k
  BY <1>3, <1>4
<1>6. Good(n - 1)
  <2>1. n - 1 \notin Bad
    BY <1>2, <1>5
  <2>2. QED  BY <1>5, <2>1
<1>7. PICK e : e = from + n
  OBVIOUS
<1>8. e \in 1 .. Len(s) /\ from + (n - 1) = e - 1
  BY <1>0, <1>5, <1>7
<1>9. PICK u : u = SubSeq(s, 1, e - 1)
  OBVIOUS
<1>10. PICK t : t = SubSeq(s, 1, e)
  OBVIOUS
<1>11. PICK b : b = s[e]
  OBVIOUS
<1>12. u \in Seq(AnyByte) /\ b \in AnyByte /\ t = Append(u, b)
  BY <1>8, <1>9, <1>10, <1>11, PrefixGrows
<1>13. PICK w : w = W[n - 1]
  OBVIOUS
<1>14. PICK r : r = W[n]
  OBVIOUS
<1>15. Metered(injected, w, u, o)
  BY <1>6, <1>8, <1>9, <1>13
<1>16. r = FeedByte(w, b)
  <2>1. W[n] = FeedByte(W[n - 1], chunk[n])
    BY <1>3, <1>4 DEF FedTo
  <2>2. chunk[n] = b
    BY <1>5, <1>7, <1>11
  <2>3. QED  BY <1>13, <1>14, <2>1, <2>2
<1>17. Metered(injected, r, t, o)
  BY <1>12, <1>15, <1>16, ByteFed
<1>18. QED  BY <1>3, <1>7, <1>10, <1>14, <1>17

\* What has been yielded is no longer to be returned.
Settled(injected, m, s, o) ==
    m \in Meters /\ Metered(injected, [m EXCEPT !.forward = <<>>], s, o)

LEMMA EmptyTail ==
    ASSUME NEW o \in Seq(AnyByte)
    PROVE  o \o <<>> = o
BY ConcatEmptySeq

LEMMA CleanMeter ==
    ASSUME NEW m \in Meters, NEW c, c = [m EXCEPT !.forward = <<>>]
    PROVE  /\ c \in Meters /\ c.forward = <<>> /\ c.buffer = m.buffer
           /\ c.usage = m.usage /\ c.delta_chunks = m.delta_chunks
           /\ c.drop_next_blank = m.drop_next_blank
<1>1. PICK e : e = <<>>
  OBVIOUS
<1>2. e \in Seq(AnyByte)
  BY <1>1, EmptySeq
<1>3. c = [m EXCEPT !.forward = e]
  BY <1>1
<1>4. QED  BY <1>1, <1>2, <1>3 DEF Meters

LEMMA YieldSettles ==
    ASSUME NEW injected, NEW s, NEW o \in Seq(AnyByte), NEW m, Metered(injected, m, s, o)
    PROVE  /\ o \o m.forward \in Seq(AnyByte)
           /\ Settled(injected, m, s, o \o m.forward)
<1>1. PICK c : c = [m EXCEPT !.forward = <<>>]
  OBVIOUS
<1>2. m \in Meters /\ m.forward \in Seq(AnyByte)
  BY DEF Metered, Meters
<1>3. /\ c \in Meters /\ c.forward = <<>> /\ c.buffer = m.buffer
      /\ c.usage = m.usage /\ c.delta_chunks = m.delta_chunks
      /\ c.drop_next_blank = m.drop_next_blank
  BY <1>1, <1>2, CleanMeter
<1>4. PICK p : p = o \o m.forward
  OBVIOUS
<1>5. p \in Seq(AnyByte) /\ p \o <<>> = p
  <2>1. p \in Seq(AnyByte)
    BY <1>2, <1>4, ConcatProperties
  <2>2. QED  BY <2>1, EmptyTail
<1>6. p \o c.forward = p
  BY <1>3, <1>5
<1>7. Metered(injected, c, s, p)
  BY <1>3, <1>4, <1>6 DEF Metered
<1>8. QED  BY <1>1, <1>2, <1>4, <1>5, <1>7 DEF Settled

\* feed() of a streamed response.
LEMMA ChunkFed ==
    ASSUME NEW injected \in BOOLEAN, injected = plan.injected_usage,
           NEW s \in Seq(AnyByte), NEW from \in Nat, NEW k \in Nat, from + k <= Len(s),
           NEW o \in Seq(AnyByte), NEW m, Settled(injected, m, SubSeq(s, 1, from), o),
           NEW r, r = Fed(m, SubSeq(s, from + 1, from + k))
    PROVE  /\ o \o r.forward \in Seq(AnyByte)
           /\ Settled(injected, r, SubSeq(s, 1, from + k), o \o r.forward)
<1>0. Len(s) \in Nat
  OBVIOUS
<1>1. PICK chunk : chunk = SubSeq(s, from + 1, from + k)
  OBVIOUS
<1>2. Len(chunk) = k /\ \A i \in 1 .. k : chunk[i] = s[from + i]
  <2>1. PICK a : a = from + 1
    OBVIOUS
  <2>2. PICK e : e = from + k
    OBVIOUS
  <2>3. a \in Int /\ e \in Int /\ \A i \in a .. e : s[i] \in AnyByte
    BY <1>0, <2>1, <2>2
  <2>4. /\ Len(chunk) = IF a <= e THEN e - a + 1 ELSE 0
        /\ \A i \in 1 .. e - a + 1 : chunk[i] = s[a + i - 1]
    <3>1. /\ Len(SubSeq(s, a, e)) = IF a <= e THEN e - a + 1 ELSE 0
          /\ \A i \in 1 .. e - a + 1 : SubSeq(s, a, e)[i] = s[a + i - 1]
      BY <2>3, SubSeqProperties
    <3>2. chunk = SubSeq(s, a, e)
      BY <1>1, <2>1, <2>2
    <3>3. QED  BY <3>1, <3>2
  <2>5. \A i \in 1 .. k : chunk[i] = s[from + i]
    <3>1. TAKE i \in 1 .. k
    <3>2. i \in 1 .. e - a + 1 /\ a + i - 1 = from + i
      BY <2>1, <2>2
    <3>3. QED  BY <2>4, <3>2
  <2>6. Len(chunk) = k
    BY <2>1, <2>2, <2>4
  <2>7. QED  BY <2>5, <2>6
<1> DEFINE F(W) == [n \in 0 .. Len(chunk) |-> IF n = 0 THEN [m EXCEPT !.forward = <<>>]
                                               ELSE FeedByte(W[n - 1], chunk[n])]
<1>3. PICK W : W = CHOOSE U : U = F(U)
  OBVIOUS
<1>4. r = W[Len(chunk)]
  BY <1>1, <1>3 DEF Fed
<1>5. \E U : U = F(U)
  <2>1. PICK U : FedTo(U, m, chunk, k)
    BY FedExists
  <2>2. U = F(U)
    BY <1>2, <2>1 DEF FedTo
  <2>3. QED  BY <2>2
<1>6. W = F(W)
  <2> HIDE DEF F
  <2>1. QED  BY <1>3, <1>5
<1>7. FedTo(W, m, chunk, k)
  BY <1>2, <1>6 DEF FedTo
<1> HIDE DEF F
<1>8. PICK w : w = W[k]
  OBVIOUS
<1>9. Metered(injected, [m EXCEPT !.forward = <<>>], SubSeq(s, 1, from), o)
  BY DEF Settled
<1>10. Metered(injected, W[k], SubSeq(s, 1, from + k), o)
  BY <1>2, <1>7, <1>9, FedFacts
<1>11. r = w
  BY <1>2, <1>4, <1>8
<1>12. PICK t : t = SubSeq(s, 1, from + k)
  OBVIOUS
<1>13. Metered(injected, r, t, o)
  BY <1>8, <1>10, <1>11, <1>12
<1>14. QED  BY <1>12, <1>13, YieldSettles

(***************************************************************************)
(* The end                                                                 *)
(***************************************************************************)
\* When it has finished, the meter has counted every line that arrived.
AllCounted(m, s) ==
    /\ m \in Meters
    /\ m.buffer = <<>>
    /\ Tally(m.usage, m.delta_chunks, s, Starts(s))

\* finish() of a streamed response counts the rest and returns it.
LEMMA RestFinished ==
    ASSUME NEW injected \in BOOLEAN, plan.streaming,
           NEW s \in Seq(AnyByte), NEW o \in Seq(AnyByte),
           NEW m, Settled(injected, m, s, o), NEW r, r = finish(m)
    PROVE  /\ AllCounted(r, s)
           /\ o \o r.forward \in Seq(AnyByte)
           /\ Selects(o, s, ShownIf(injected, s, Ended(s)))
           /\ Selects(o \o r.forward, s, ShownIf(injected, s, Starts(s)))
<1>0. Len(s) \in Nat
  OBVIOUS
<1>1. PICK c : c = [m EXCEPT !.forward = <<>>]
  OBVIOUS
<1>2. m \in Meters /\ Metered(injected, c, s, o)
  BY <1>1 DEF Settled
<1>3. /\ c.forward = <<>> /\ c.buffer = m.buffer
      /\ c.usage = m.usage /\ c.delta_chunks = m.delta_chunks
  BY <1>1, <1>2, CleanMeter
<1>4. PICK L \in 0 .. Len(s) : Cut(s, L) /\ m.buffer = SubSeq(s, L + 1, Len(s))
  BY <1>2, <1>3 DEF Metered
<1>5. PICK K : K = ShownIf(injected, s, Ended(s))
  OBVIOUS
<1>6. Selects(o, s, K)
  <2>1. o \o c.forward = o
    BY <1>3, EmptyTail
  <2>2. QED  BY <1>2, <1>5, <2>1 DEF Metered
<1>7. PICK rest : rest = m.buffer
  OBVIOUS
<1>8. rest \in Seq(AnyByte)
  BY <1>2, <1>7 DEF Meters
<1>9. PICK q : q = IF rest = <<>> THEN m ELSE Inspect(m, rest)
  OBVIOUS
<1>10. q \in Meters
  BY <1>2, <1>8, <1>9, InspectFacts
<1>11. r = [q EXCEPT !.buffer = <<>>, !.forward = rest]
  BY <1>7, <1>9 DEF finish
<1>12. /\ r \in Meters /\ r.buffer = <<>> /\ r.forward = rest
       /\ r.usage = q.usage /\ r.delta_chunks = q.delta_chunks
  <2>1. PICK e : e = <<>>
    OBVIOUS
  <2>2. e \in Seq(AnyByte)
    BY <2>1, EmptySeq
  <2>3. r = [q EXCEPT !.buffer = e, !.forward = rest]
    BY <1>11, <2>1
  <2>4. QED  BY <1>8, <1>10, <2>1, <2>2, <2>3 DEF Meters
<1>13. Tally(m.usage, m.delta_chunks, s, Ended(s))
  BY <1>2, <1>3 DEF Metered
<1>14. o \o rest \in Seq(AnyByte)
  BY <1>8, ConcatProperties
<1>15. Len(rest) = Len(s) - L
  <2>1. PICK a : a = L + 1
    OBVIOUS
  <2>2. PICK e : e = Len(s)
    OBVIOUS
  <2>3. a \in Int /\ e \in Int /\ \A i \in a .. e : s[i] \in AnyByte
    BY <1>0, <2>1, <2>2
  <2>4. Len(SubSeq(s, a, e)) = IF a <= e THEN e - a + 1 ELSE 0
    BY <2>3, SubSeqProperties
  <2>5. rest = SubSeq(s, a, e)
    BY <1>4, <1>7, <2>1, <2>2
  <2>6. QED  BY <1>0, <2>1, <2>2, <2>4, <2>5
<1>16. CASE L = Len(s)
  <2>1. rest = <<>>
    BY <1>0, <1>8, <1>15, <1>16, EmptySeq
  <2>2. Starts(s) = Ended(s)
    <3>1. ~ (L < Len(s))
      BY <1>0, <1>16
    <3>2. Starts(s) = Ended(s) \cup (IF L < Len(s) THEN {L + 1} ELSE {})
      BY <1>4, EndedBefore
    <3>3. QED  BY <3>1, <3>2
  <2>3. q = m
    BY <1>9, <2>1
  <2>4. Tally(r.usage, r.delta_chunks, s, Starts(s))
    BY <1>12, <1>13, <2>2, <2>3
  <2>5. o \o rest = o
    BY <2>1, EmptyTail
  <2>6. Selects(o \o r.forward, s, ShownIf(injected, s, Starts(s)))
    BY <1>5, <1>6, <1>12, <2>2, <2>5
  <2>7. QED  BY <1>5, <1>6, <1>12, <1>14, <2>4, <2>6 DEF AllCounted
<1>17. CASE L # Len(s)
  <2>1. L < Len(s) /\ L \in Nat /\ L + 1 \in 1 .. Len(s)
    BY <1>0, <1>17
  <2>2. /\ Starts(s) = Ended(s) \cup {L + 1}
        /\ EndOf(s, L + 1) = Len(s) /\ s[Len(s)] # NL
    BY <1>4, <2>1, EndedBefore
  <2>3. rest # <<>>
    BY <1>0, <1>15, <2>1, EmptySeq
  <2>4. q = Inspect(m, rest)
    BY <1>9, <2>3
  <2>5. LineAt(s, L + 1) = rest
    BY <1>4, <1>7, <2>2 DEF LineAt
  <2>6. Tally(r.usage, r.delta_chunks, s, Starts(s))
    <3>1. Ended(s) \in SUBSET (1 .. L)
      BY <1>4, EndedBefore
    <3>2. PICK lines : lines = Ended(s)
      OBVIOUS
    <3>3. lines \in SUBSET (1 .. L) /\ Tally(m.usage, m.delta_chunks, s, lines)
      BY <1>13, <3>1, <3>2
    <3>4. Tally(q.usage, q.delta_chunks, s, lines \cup {L + 1})
      BY <1>2, <1>8, <2>1, <2>4, <2>5, <3>3, TallyMore
    <3>5. QED  BY <1>12, <2>2, <3>2, <3>4
  <2>7. ~ HiddenIf(injected, s, L + 1)
    BY <2>2 DEF HiddenIf, Complete
  <2>8. ShownIf(injected, s, Starts(s)) = K \cup (L + 1 .. Len(s))
    BY <1>5, <2>2, <2>7 DEF ShownIf
  <2>9. Selects(o \o rest, s, K \cup (L + 1 .. Len(s)))
    <3>1. PICK a : a = L + 1
      OBVIOUS
    <3>2. PICK e : e = Len(s)
      OBVIOUS
    <3>3. a \in 1 .. Len(s) + 1 /\ e \in a - 1 .. Len(s) /\ a - 1 = L
      BY <1>0, <2>1, <3>1, <3>2
    <3>4. K \in SUBSET (1 .. a - 1)
      <4>1. K \subseteq 1 .. L
        BY <1>4, <1>5, ShownBefore
      <4>2. QED  BY <3>3, <4>1
    <3>5. Selects(o \o SubSeq(s, a, e), s, K \cup (a .. e))
      BY <1>6, <3>3, <3>4, SelectsMore
    <3>6. SubSeq(s, a, e) = rest
      BY <1>4, <1>7, <3>1, <3>2
    <3>7. QED  BY <3>1, <3>2, <3>5, <3>6
  <2>10. Selects(o \o r.forward, s, ShownIf(injected, s, Starts(s)))
    BY <1>12, <2>8, <2>9
  <2>11. QED  BY <1>5, <1>6, <1>12, <1>14, <2>6, <2>10 DEF AllCounted
<1>18. QED  BY <1>16, <1>17

\* A second finish() changes nothing more.
LEMMA FinishedAgain ==
    ASSUME plan.streaming, NEW s, NEW m, AllCounted(m, s), NEW r, r = finish(m)
    PROVE  AllCounted(r, s)
<1>1. PICK e : e = <<>>
  OBVIOUS
<1>2. e \in Seq(AnyByte) /\ m \in Meters /\ m.buffer = e
  BY <1>1, EmptySeq DEF AllCounted
<1>3. r = [m EXCEPT !.buffer = e, !.forward = e]
  BY <1>1, <1>2 DEF finish
<1>4. /\ r \in Meters /\ r.buffer = e /\ r.usage = m.usage /\ r.delta_chunks = m.delta_chunks
  BY <1>2, <1>3 DEF Meters
<1>5. QED  BY <1>1, <1>4 DEF AllCounted

(***************************************************************************)
(* A response that is not streamed                                         *)
(***************************************************************************)
Body(resp) == \E p \in PayloadKinds, n \in 1 .. MaxBody + 1 : resp = Bytes(p, n)

\* A part of a body does not parse.
LEMMA PartIsInvalid ==
    ASSUME NEW resp \in Seq(AnyByte), Body(resp), NEW n \in 0 .. Len(resp), n < Len(resp)
    PROVE  UsageOf(Loads(SubSeq(resp, 1, n))) = None
<1>1. PICK p \in PayloadKinds, of \in 1 .. MaxBody + 1 : resp = Bytes(p, of)
  BY DEF Body
<1>2. of \in Nat /\ p \in PayloadKinds \cup {Blank}
  BY <1>1, MeteringAssumption
<1>3. Len(resp) = of /\ n \in Nat /\ n < of
  BY <1>1, <1>2, BytesTypes
<1>4. \A i \in 1 .. of : resp[i] = Byte(p, i, of)
  BY <1>1 DEF Bytes
<1>5. PICK part : part = SubSeq(resp, 1, n)
  OBVIOUS
<1>6. part \in Seq(AnyByte) /\ Len(part) = n /\ \A i \in 1 .. n : part[i] = Byte(p, i, of)
  <2>1. PICK one : one = 1
    OBVIOUS
  <2>2. one \in Int /\ n \in Int /\ \A i \in one .. n : resp[i] \in AnyByte
    BY <1>3, <2>1
  <2>3. /\ SubSeq(resp, one, n) \in Seq(AnyByte)
        /\ Len(SubSeq(resp, one, n)) = IF one <= n THEN n - one + 1 ELSE 0
        /\ \A i \in 1 .. n - one + 1 : SubSeq(resp, one, n)[i] = resp[one + i - 1]
    BY <2>2, SubSeqProperties
  <2>4. part = SubSeq(resp, one, n)
    BY <1>5, <2>1
  <2>5. Len(part) = n
    BY <1>3, <2>1, <2>3, <2>4
  <2>6. \A i \in 1 .. n : part[i] = resp[i]
    <3>1. TAKE i \in 1 .. n
    <3>2. i \in 1 .. n - one + 1 /\ one + i - 1 = i
      BY <1>3, <2>1
    <3>3. QED  BY <2>3, <2>4, <3>2
  <2>7. \A i \in 1 .. n : i \in 1 .. of
    BY <1>3
  <2>8. QED  BY <1>4, <2>3, <2>4, <2>5, <2>6, <2>7
<1>7. \A i \in 1 .. n : part[i] # NL /\ part[i].payload = p /\ part[i].of = of
  <2>1. p # Blank
    BY DEF PayloadKinds, Blank
  <2>2. QED  BY <1>6, <2>1 DEF NL, Byte
<1>8. Strip(part) = part
  <2>1. part = <<>> \/ Len(part) \in 1 .. n
    BY <1>3, <1>6, EmptySeq
  <2>2. part = <<>> \/ part[Len(part)] # NL
    BY <1>7, <2>1
  <2>3. QED  BY <2>2 DEF Strip
<1>9. Loads(part) = <<"invalid", None>>
  <2>1. SUFFICES ASSUME part # <<>>, part = Bytes(part[1].payload, part[1].of)
                 PROVE  FALSE
    BY <1>8 DEF Loads
  <2>2. 1 \in 1 .. n
    BY <1>3, <1>6, <2>1, EmptySeq
  <2>3. part = Bytes(p, of)
    BY <1>7, <2>1, <2>2
  <2>4. Len(part) = of
    BY <1>2, <2>3, BytesTypes
  <2>5. QED  BY <1>3, <1>6, <2>4
<1>10. QED  BY <1>5, <1>9 DEF UsageOf

\* The meter of a body of which n bytes have arrived.
BodyFed(m, resp, n, fed) ==
    /\ m \in Meters /\ m.delta_chunks = 0 /\ m.buffer = <<>>
    /\ m.truncated => n > MaxBody /\ m.usage = None
    /\ ~ m.truncated => /\ n <= MaxBody /\ m.body = SubSeq(resp, 1, n)
                        /\ m.usage = IF fed THEN UsageOf(Loads(SubSeq(resp, 1, n))) ELSE None

BodyGrown(resp, n, k, chunk, r) ==
    /\ BodyFed(r, resp, n + k, FALSE)
    /\ r.forward = chunk
    /\ SubSeq(resp, 1, n) \o chunk = SubSeq(resp, 1, n + k)

LEMMA BodyGrows ==
    ASSUME NEW resp \in Seq(AnyByte), NEW n \in Nat, NEW k \in Nat, n + k <= Len(resp),
           NEW m, BodyFed(m, resp, n, FALSE),
           NEW chunk, chunk = SubSeq(resp, n + 1, n + k),
           NEW r, r = [Accumulate(m, chunk) EXCEPT !.forward = chunk]
    PROVE  BodyGrown(resp, n, k, chunk, r)
<1>0. Len(resp) \in Nat /\ MaxBody \in Nat
  BY MeteringAssumption
<1>1. PICK a : a = n + 1
  OBVIOUS
<1>2. PICK e : e = n + k
  OBVIOUS
<1>3. a \in Int /\ e \in Int /\ n <= e /\ \A i \in a .. e : resp[i] \in AnyByte
  BY <1>0, <1>1, <1>2
<1>4. chunk \in Seq(AnyByte) /\ Len(chunk) = k
  <2>1. /\ SubSeq(resp, a, e) \in Seq(AnyByte)
        /\ Len(SubSeq(resp, a, e)) = IF a <= e THEN e - a + 1 ELSE 0
    BY <1>3, SubSeqProperties
  <2>2. PICK c : c = chunk
    OBVIOUS
  <2>3. c = SubSeq(resp, a, e)
    BY <1>1, <1>2, <2>2
  <2>4. c \in Seq(AnyByte)
    BY <2>1, <2>3
  <2>5. Len(c) = k
    <3>1. Len(c) = IF a <= e THEN e - a + 1 ELSE 0
      BY <2>1, <2>3
    <3>2. QED  BY <1>1, <1>2, <3>1
  <2>6. QED  BY <2>2, <2>4, <2>5
<1>5. PICK u : u = SubSeq(resp, 1, n)
  OBVIOUS
<1>6. PICK v : v = SubSeq(resp, 1, e)
  OBVIOUS
<1>7. u \o chunk = v
  <2>1. PICK one : one = 1
    OBVIOUS
  <2>2. one \in 1 .. Len(resp) + 1 /\ n \in one - 1 .. Len(resp) /\ e \in n .. Len(resp)
    BY <1>0, <1>2, <2>1
  <2>3. SubSeq(resp, one, n) \o SubSeq(resp, n + 1, e) = SubSeq(resp, one, e)
    BY <2>2, ConcatAdjacentSubSeq
  <2>4. QED  BY <1>2, <1>5, <1>6, <2>1, <2>3
<1>8. u \in Seq(AnyByte) /\ v \in Seq(AnyByte) /\ Len(u) = n /\ Len(v) = e
  <2>1. PICK one : one = 1
    OBVIOUS
  <2>2. /\ one \in Int /\ n \in Int /\ e \in Int
        /\ \A i \in one .. n : resp[i] \in AnyByte
        /\ \A i \in one .. e : resp[i] \in AnyByte
    BY <1>0, <1>2, <2>1
  <2>3. /\ SubSeq(resp, one, n) \in Seq(AnyByte)
        /\ Len(SubSeq(resp, one, n)) = IF one <= n THEN n - one + 1 ELSE 0
    BY <2>2, SubSeqProperties
  <2>4. /\ SubSeq(resp, one, e) \in Seq(AnyByte)
        /\ Len(SubSeq(resp, one, e)) = IF one <= e THEN e - one + 1 ELSE 0
    BY <2>2, SubSeqProperties
  <2>5. Len(u) = n /\ Len(v) = e
    BY <1>2, <1>5, <1>6, <2>1, <2>3, <2>4
  <2>6. QED  BY <1>5, <1>6, <2>1, <2>3, <2>4, <2>5
<1>9. m \in Meters /\ m.delta_chunks = 0 /\ m.usage = None /\ m.buffer = <<>>
  BY DEF BodyFed
<1>10. CASE m.truncated
  <2>1. r = [m EXCEPT !.forward = chunk]
    BY <1>10 DEF Accumulate
  <2>2. /\ r \in Meters /\ r.truncated /\ r.forward = chunk
        /\ r.usage = m.usage /\ r.delta_chunks = m.delta_chunks /\ r.buffer = m.buffer
    BY <1>4, <1>9, <1>10, <2>1 DEF Meters
  <2>3. e > MaxBody
    BY <1>0, <1>3, <1>10 DEF BodyFed
  <2>4. QED  BY <1>2, <1>5, <1>6, <1>7, <1>9, <2>2, <2>3 DEF BodyFed, BodyGrown
<1>11. CASE ~ m.truncated /\ Len(m.body) + Len(chunk) > MaxBody
  <2>1. PICK z : z = <<>>
    OBVIOUS
  <2>2. z \in Held
    BY <1>0, <2>1, EmptySeq DEF Held
  <2>3. PICK w : w = [m EXCEPT !.truncated = TRUE, !.body = z]
    OBVIOUS
  <2>4. r = [w EXCEPT !.forward = chunk]
    BY <1>11, <2>1, <2>3 DEF Accumulate
  <2>5. /\ w \in Meters /\ w.truncated /\ w.usage = m.usage /\ w.delta_chunks = m.delta_chunks
        /\ w.buffer = m.buffer
    BY <1>9, <2>2, <2>3 DEF Meters
  <2>6. /\ r \in Meters /\ r.truncated /\ r.forward = chunk
        /\ r.usage = w.usage /\ r.delta_chunks = w.delta_chunks /\ r.buffer = w.buffer
    BY <1>4, <2>4, <2>5 DEF Meters
  <2>7. e > MaxBody
    <3>1. m.body = u
      BY <1>5, <1>11 DEF BodyFed
    <3>2. QED  BY <1>0, <1>2, <1>4, <1>8, <1>11, <3>1
  <2>8. QED  BY <1>2, <1>5, <1>6, <1>7, <1>9, <2>5, <2>6, <2>7 DEF BodyFed, BodyGrown
<1>12. CASE ~ m.truncated /\ ~ (Len(m.body) + Len(chunk) > MaxBody)
  <2>1. m.body = u
    BY <1>5, <1>12 DEF BodyFed
  <2>2. e <= MaxBody
    <3>1. Len(m.body) = n /\ Len(chunk) = k
      BY <1>4, <1>8, <2>1
    <3>2. ~ (n + k > MaxBody)
      BY <1>12, <3>1
    <3>3. QED  BY <1>0, <1>2, <3>2
  <2>3. v \in Held
    BY <1>8, <2>2 DEF Held
  <2>4. PICK w : w = [m EXCEPT !.body = v]
    OBVIOUS
  <2>5. r = [w EXCEPT !.forward = chunk]
    BY <1>7, <1>12, <2>1, <2>4 DEF Accumulate
  <2>6. /\ w \in Meters /\ w.body = v /\ w.truncated = m.truncated
        /\ w.usage = m.usage /\ w.delta_chunks = m.delta_chunks /\ w.buffer = m.buffer
    BY <1>9, <2>3, <2>4 DEF Meters
  <2>7. /\ r \in Meters /\ r.body = w.body /\ r.truncated = w.truncated /\ r.forward = chunk
        /\ r.usage = w.usage /\ r.delta_chunks = w.delta_chunks /\ r.buffer = w.buffer
    BY <1>4, <2>5, <2>6 DEF Meters
  <2>8. QED  BY <1>2, <1>5, <1>6, <1>7, <1>9, <1>12, <2>2, <2>6, <2>7 DEF BodyFed, BodyGrown
<1>13. QED  BY <1>10, <1>11, <1>12

\* finish() of a body, once or twice.
LEMMA BodyFinished ==
    ASSUME ~ plan.streaming, NEW resp \in Seq(AnyByte), NEW n \in 0 .. Len(resp),
           NEW fed \in BOOLEAN, NEW m, BodyFed(m, resp, n, fed), NEW r, r = finish(m)
    PROVE  BodyFed(r, resp, n, TRUE) /\ r.forward = <<>>
<1>1. PICK e : e = <<>>
  OBVIOUS
<1>2. e \in Seq(AnyByte) /\ m \in Meters /\ m.body \in Seq(AnyByte)
      /\ m.delta_chunks = 0 /\ m.buffer = <<>>
  BY <1>1, EmptySeq DEF BodyFed, Meters, Held
<1>3. PICK u : u = IF m.truncated THEN m.usage ELSE UsageOf(Loads(m.body))
  OBVIOUS
<1>4. u \in Counts \cup {None}
  <2>1. m.usage \in Counts \cup {None}
    BY <1>2 DEF Meters
  <2>2. UsageOf(Loads(m.body)) \in Counts \cup {None}
    BY <1>2, LoadsTypes
  <2>3. QED  BY <1>3, <2>1, <2>2
<1>5. r = [m EXCEPT !.forward = e, !.usage = u]
  BY <1>1, <1>3 DEF finish
<1>6. /\ r \in Meters /\ r.forward = e /\ r.usage = u /\ r.body = m.body
      /\ r.truncated = m.truncated /\ r.delta_chunks = m.delta_chunks /\ r.buffer = m.buffer
  BY <1>2, <1>4, <1>5 DEF Meters
<1>7. CASE m.truncated
  BY <1>1, <1>2, <1>3, <1>6, <1>7 DEF BodyFed
<1>8. CASE ~ m.truncated
  <2>1. n <= MaxBody /\ m.body = SubSeq(resp, 1, n)
    BY <1>8 DEF BodyFed
  <2>2. u = UsageOf(Loads(SubSeq(resp, 1, n)))
    BY <1>3, <1>8, <2>1
  <2>3. QED  BY <1>1, <1>2, <1>6, <1>8, <2>1, <2>2 DEF BodyFed
<1>9. QED  BY <1>7, <1>8

(***************************************************************************)
(* The inductive invariant of metered()                                    *)
(***************************************************************************)
Streamed(injected, m, s, o, ph) ==
    /\ ph = "feeding" => Settled(injected, m, s, o)
    /\ ph # "feeding" => AllCounted(m, s)
    /\ ph = "flushed" => Selects(o, s, ShownIf(injected, s, Starts(s)))
    /\ ph = "closed" => \/ Selects(o, s, ShownIf(injected, s, Ended(s)))
                        \/ Selects(o, s, ShownIf(injected, s, Starts(s)))

Verbatim(m, resp, n, o, ph) ==
    /\ Body(resp)
    /\ o = SubSeq(resp, 1, n)
    /\ BodyFed(m, resp, n, ph # "feeding")

MeteredSoFar(p, resp, n, m, o, ph) ==
    /\ p.streaming \in BOOLEAN /\ p.injected_usage \in BOOLEAN
    /\ resp \in Seq(AnyByte) /\ n \in 0 .. Len(resp) /\ o \in Seq(AnyByte)
    /\ ph \in {"feeding", "flushed", "closed"}
    /\ p.streaming => Streamed(p.injected_usage, m, SubSeq(resp, 1, n), o, ph)
    /\ ~ p.streaming => Verbatim(m, resp, n, o, ph)

MeterInv == /\ request \in ClientRequests
            /\ MeteredSoFar(plan_request(request), response, received, meter, out, phase)

LEMMA PlanTypes ==
    plan.streaming \in BOOLEAN /\ plan.injected_usage \in BOOLEAN
BY DEF plan, plan_request

\* No byte has been fed.
LEMMA NothingFed ==
    ASSUME NEW injected \in BOOLEAN, NEW s, s = <<>>, NEW o, o = <<>>,
           NEW m \in Meters, m.buffer = <<>>, m.usage = None, m.delta_chunks = 0,
           m.drop_next_blank = FALSE, m.forward = <<>>
    PROVE  Metered(injected, m, s, o)
<1>1. Len(s) = 0 /\ s \in Seq(AnyByte)
  BY EmptySeq
<1>2. Starts(s) = {} /\ Ended(s) = {}
  BY <1>1 DEF Starts, Ended
<1>3. PICK L \in 0 .. Len(s) : L = 0
  BY <1>1
<1>4. Cut(s, L)
  BY <1>1, <1>3 DEF Cut
<1>5. m.buffer = SubSeq(s, L + 1, Len(s))
  <2>1. PICK a : a = L + 1
    OBVIOUS
  <2>2. PICK e : e = Len(s)
    OBVIOUS
  <2>3. a \in Int /\ e \in Int /\ e < a
    BY <1>1, <1>3, <2>1, <2>2
  <2>4. SubSeq(s, a, e) = <<>>
    BY <2>3, SubSeqEmpty
  <2>5. QED  BY <2>1, <2>2, <2>4
<1>6. ~ UsageEndsAt(s, L)
  BY <1>2 DEF UsageEndsAt
<1>7. Tally(m.usage, m.delta_chunks, s, Ended(s))
  <2>1. Deltas(s, {}) = {} /\ Cardinality({}) = 0
    BY FS_EmptySet DEF Deltas
  <2>2. QED  BY <1>2, <2>1 DEF Tally
<1>8. Selects(o \o m.forward, s, ShownIf(injected, s, Ended(s)))
  <2>1. ShownIf(injected, s, {}) = {}
    BY DEF ShownIf
  <2>2. PICK f : f = o \o m.forward
    OBVIOUS
  <2>3. f = <<>>
    BY <1>1, <2>2, EmptyTail
  <2>4. Selects(f, s, {})
    BY <2>3, SelectsNothing
  <2>5. QED  BY <1>2, <2>1, <2>2, <2>4
<1>9. QED  BY <1>4, <1>5, <1>6, <1>7, <1>8 DEF Metered

LEMMA MeterInvInit == MeterInit => MeterInv
<1> SUFFICES ASSUME MeterInit
             PROVE  MeterInv
  OBVIOUS
<1>1. PICK e : e = <<>>
  OBVIOUS
<1>2. PICK z \in Nat : z = 0
  OBVIOUS
<1>3. e \in Seq(AnyByte) /\ e \in Held
  BY <1>1, EmptySeq, MeteringAssumption DEF Held
<1>4. meter = [buffer |-> e, body |-> e, truncated |-> FALSE, usage |-> None,
               delta_chunks |-> z, drop_next_blank |-> FALSE, forward |-> e]
  BY <1>1, <1>2 DEF MeterInit
<1>5. /\ meter \in Meters /\ meter.buffer = e /\ meter.body = e /\ meter.truncated = FALSE
      /\ meter.usage = None /\ meter.delta_chunks = z
      /\ meter.drop_next_blank = FALSE /\ meter.forward = e
  BY <1>3, <1>4 DEF Meters
<1>6. out = e /\ received = 0 /\ phase = "feeding" /\ request \in ClientRequests
  BY <1>1 DEF MeterInit
<1>7. SubSeq(response, 1, received) = e
  <2>1. PICK one : one = 1
    OBVIOUS
  <2>2. one \in Int /\ received \in Int /\ received < one
    BY <1>6, <2>1
  <2>3. SubSeq(response, one, received) = <<>>
    BY <2>2, SubSeqEmpty
  <2>4. QED  BY <1>1, <2>1, <2>3
<1>8. CASE plan.streaming
  <2>1. response \in Seq(AnyByte)
    <3>1. request.body = "stream"
      BY <1>8 DEF plan, plan_request
    <3>2. QED  BY <3>1, StreamTypes DEF MeterInit
  <2>2. PICK c : c = [meter EXCEPT !.forward = <<>>]
    OBVIOUS
  <2>3. /\ c \in Meters /\ c.forward = <<>> /\ c.buffer = meter.buffer
        /\ c.usage = meter.usage /\ c.delta_chunks = meter.delta_chunks
        /\ c.drop_next_blank = meter.drop_next_blank
    BY <1>5, <2>2, CleanMeter
  <2>4. PICK injected \in BOOLEAN : injected = plan.injected_usage
    BY PlanTypes
  <2>5. /\ c.buffer = <<>> /\ c.usage = None /\ c.delta_chunks = 0
        /\ c.drop_next_blank = FALSE /\ c.forward = <<>>
    BY <1>1, <1>2, <1>5, <2>3
  <2>6. Metered(injected, c, e, e)
    BY <1>1, <2>3, <2>5, NothingFed
  <2>7. Settled(injected, meter, e, e)
    BY <1>5, <2>2, <2>6 DEF Settled
  <2>8. Streamed(injected, meter, SubSeq(response, 1, received), out, phase)
    BY <1>6, <1>7, <2>7 DEF Streamed
  <2>9. Len(response) \in Nat /\ received \in 0 .. Len(response)
    BY <1>6, <2>1
  <2>10. QED  BY <1>3, <1>6, <1>8, <2>1, <2>4, <2>8, <2>9, PlanTypes DEF MeterInv, MeteredSoFar, plan
<1>9. CASE ~ plan.streaming
  <2>1. Body(response)
    <3>1. request.body # "stream"
      BY <1>9 DEF plan, plan_request
    <3>2. response \in Bodies
      BY <3>1 DEF MeterInit
    <3>3. QED  BY <3>2 DEF Bodies, Body
  <2>2. response \in Seq(AnyByte) /\ Len(response) \in Nat
    <3>1. PICK p \in PayloadKinds, n \in 1 .. MaxBody + 1 : response = Bytes(p, n)
      BY <2>1 DEF Body
    <3>2. n \in Nat /\ p \in PayloadKinds \cup {Blank}
      BY <3>1, MeteringAssumption
    <3>3. QED  BY <3>1, <3>2, BytesTypes
  <2>3. BodyFed(meter, response, received, FALSE)
    BY <1>1, <1>2, <1>5, <1>6, <1>7, MeteringAssumption DEF BodyFed
  <2>4. Verbatim(meter, response, received, out, phase)
    BY <1>6, <1>7, <2>1, <2>3 DEF Verbatim
  <2>5. received \in 0 .. Len(response)
    BY <1>6, <2>2
  <2>6. QED  BY <1>3, <1>6, <1>9, <2>2, <2>4, <2>5, PlanTypes DEF MeterInv, MeteredSoFar, plan
<1>10. QED  BY <1>8, <1>9

LEMMA SentTypes ==
    ASSUME NEW s \in Seq(AnyByte), NEW n \in 0 .. Len(s)
    PROVE  SubSeq(s, 1, n) \in Seq(AnyByte)
<1>1. PICK one : one = 1
  OBVIOUS
<1>2. one \in Int /\ n \in Int /\ \A i \in one .. n : s[i] \in AnyByte
  BY <1>1
<1>3. SubSeq(s, one, n) \in Seq(AnyByte)
  BY <1>2, SubSeqProperties
<1>4. QED  BY <1>1, <1>3

LEMMA ChunkKeepsMeterInv ==
    ASSUME MeterInv, NEW n \in 1 .. Len(response) - received, Chunk(n)
    PROVE  MeterInv'
<1>0. /\ response \in Seq(AnyByte) /\ Len(response) \in Nat /\ received \in Nat
      /\ received \in 0 .. Len(response) /\ out \in Seq(AnyByte)
  BY DEF MeterInv, MeteredSoFar
<1>1. n \in Nat /\ received + n <= Len(response) /\ received + n \in 0 .. Len(response)
  BY <1>0
<1>2. /\ phase = "feeding" /\ phase' = "feeding" /\ request' = request /\ response' = response
      /\ received' = received + n
  BY DEF Chunk
<1>3. PICK r : r = feed(meter, SubSeq(response, received + 1, received + n))
  OBVIOUS
<1>4. meter' = r /\ out' = out \o r.forward
  BY <1>3 DEF Chunk
<1>5. PICK injected \in BOOLEAN : injected = plan.injected_usage
  BY PlanTypes
<1>6. PICK e : e = received + n
  OBVIOUS
<1>7. CASE plan.streaming
  <2>1. PICK from \in Nat : from = received
    BY <1>0
  <2>2. PICK resp \in Seq(AnyByte) : resp = response
    BY <1>0
  <2>3. PICK o \in Seq(AnyByte) : o = out
    BY <1>0
  <2>4. PICK m : m = meter
    OBVIOUS
  <2>5. Settled(injected, m, SubSeq(resp, 1, from), o)
    <3>1. Streamed(plan.injected_usage, meter, SubSeq(response, 1, received), out, phase)
      BY <1>7 DEF MeterInv, MeteredSoFar, plan
    <3>2. QED  BY <1>2, <1>5, <2>1, <2>2, <2>3, <2>4, <3>1 DEF Streamed
  <2>6. r = Fed(m, SubSeq(resp, from + 1, from + n))
    BY <1>3, <1>7, <2>1, <2>2, <2>4 DEF feed
  <2>7. from + n <= Len(resp)
    BY <1>1, <2>1, <2>2
  <2>8. /\ o \o r.forward \in Seq(AnyByte)
        /\ Settled(injected, r, SubSeq(resp, 1, from + n), o \o r.forward)
    BY <1>1, <1>5, <2>5, <2>6, <2>7, ChunkFed
  <2>9. Streamed(injected, r, SubSeq(resp, 1, from + n), o \o r.forward, "feeding")
    BY <2>8 DEF Streamed
  <2>10. MeteredSoFar(plan_request(request), response, e, r, out \o r.forward, "feeding")
    BY <1>0, <1>1, <1>5, <1>6, <1>7, <2>1, <2>2, <2>3, <2>8, <2>9, PlanTypes
       DEF MeteredSoFar, plan
  <2>11. QED  BY <1>2, <1>4, <1>6, <2>10 DEF MeterInv
<1>8. CASE ~ plan.streaming
  <2>1. PICK chunk : chunk = SubSeq(response, received + 1, received + n)
    OBVIOUS
  <2>2. Verbatim(meter, response, received, out, phase)
    BY <1>8 DEF MeterInv, MeteredSoFar, plan
  <2>3. /\ Body(response) /\ out = SubSeq(response, 1, received)
        /\ BodyFed(meter, response, received, FALSE)
    BY <1>2, <2>2 DEF Verbatim
  <2>4. r = [Accumulate(meter, chunk) EXCEPT !.forward = chunk]
    BY <1>3, <1>8, <2>1 DEF feed
  <2>5. /\ BodyFed(r, response, e, FALSE)
        /\ r.forward = chunk
        /\ SubSeq(response, 1, received) \o chunk = SubSeq(response, 1, e)
    <3>1. PICK from \in Nat : from = received
      BY <1>0
    <3>2. PICK resp \in Seq(AnyByte) : resp = response
      BY <1>0
    <3>3. PICK m : m = meter
      OBVIOUS
    <3>4. from + n <= Len(resp) /\ n \in Nat
      BY <1>1, <3>1, <3>2
    <3>5. BodyFed(m, resp, from, FALSE)
      BY <2>3, <3>1, <3>2, <3>3
    <3>6. r = [Accumulate(m, chunk) EXCEPT !.forward = chunk]
      BY <2>4, <3>3
    <3>7. chunk = SubSeq(resp, from + 1, from + n)
      BY <2>1, <3>1, <3>2
    <3>8. BodyGrown(resp, from, n, chunk, r)
      BY <3>4, <3>5, <3>6, <3>7, BodyGrows
    <3>9. QED  BY <1>6, <3>1, <3>2, <3>8 DEF BodyGrown
  <2>6. out \o r.forward = SubSeq(response, 1, e)
    BY <2>3, <2>5
  <2>7. SubSeq(response, 1, e) \in Seq(AnyByte)
    BY <1>0, <1>1, <1>6, SentTypes
  <2>8. Verbatim(r, response, e, out \o r.forward, "feeding")
    BY <2>3, <2>5, <2>6 DEF Verbatim
  <2>9. MeteredSoFar(plan_request(request), response, e, r, out \o r.forward, "feeding")
    BY <1>0, <1>1, <1>6, <1>8, <2>6, <2>7, <2>8, PlanTypes DEF MeteredSoFar, plan
  <2>10. QED  BY <1>2, <1>4, <1>6, <2>9 DEF MeterInv
<1>9. QED  BY <1>7, <1>8

LEMMA EndOfStreamKeepsMeterInv ==
    ASSUME MeterInv, EndOfStream
    PROVE  MeterInv'
<1>0. /\ response \in Seq(AnyByte) /\ received \in 0 .. Len(response)
      /\ out \in Seq(AnyByte)
  BY DEF MeterInv, MeteredSoFar
<1>1. /\ phase = "feeding" /\ phase' = "flushed" /\ request' = request /\ response' = response
      /\ received' = received
  BY DEF EndOfStream
<1>2. PICK r : r = finish(meter)
  OBVIOUS
<1>3. meter' = r /\ out' = out \o r.forward
  BY <1>2 DEF EndOfStream
<1>4. PICK injected \in BOOLEAN : injected = plan.injected_usage
  BY PlanTypes
<1>5. PICK o \in Seq(AnyByte) : o = out
  BY <1>0
<1>6. CASE plan.streaming
  <2>1. PICK s : s = SubSeq(response, 1, received)
    OBVIOUS
  <2>2. PICK m : m = meter
    OBVIOUS
  <2>3. Settled(injected, m, s, o)
    <3>1. Streamed(plan.injected_usage, meter, SubSeq(response, 1, received), out, phase)
      BY <1>6 DEF MeterInv, MeteredSoFar, plan
    <3>2. QED  BY <1>1, <1>4, <1>5, <2>1, <2>2, <3>1 DEF Streamed
  <2>4. s \in Seq(AnyByte)
    BY <1>0, <2>1, SentTypes
  <2>5. /\ AllCounted(r, s) /\ o \o r.forward \in Seq(AnyByte)
        /\ Selects(o \o r.forward, s, ShownIf(injected, s, Starts(s)))
    BY <1>2, <1>6, <2>2, <2>3, <2>4, RestFinished
  <2>6. Streamed(injected, r, s, o \o r.forward, "flushed")
    BY <2>5 DEF Streamed
  <2>7. MeteredSoFar(plan_request(request), response, received, r, out \o r.forward, "flushed")
    BY <1>0, <1>4, <1>5, <1>6, <2>1, <2>5, <2>6, PlanTypes DEF MeteredSoFar, plan
  <2>8. QED  BY <1>1, <1>3, <2>7 DEF MeterInv
<1>7. CASE ~ plan.streaming
  <2>1. /\ Body(response) /\ out = SubSeq(response, 1, received)
        /\ BodyFed(meter, response, received, FALSE)
    BY <1>1, <1>7 DEF MeterInv, MeteredSoFar, plan, Verbatim
  <2>2. BodyFed(r, response, received, TRUE) /\ r.forward = <<>>
    BY <1>0, <1>2, <1>7, <2>1, BodyFinished
  <2>3. o \o r.forward = o
    BY <2>2, EmptyTail
  <2>4. Verbatim(r, response, received, o, "flushed")
    BY <1>5, <2>1, <2>2 DEF Verbatim
  <2>5. MeteredSoFar(plan_request(request), response, received, r, o, "flushed")
    BY <1>0, <1>7, <2>4, PlanTypes DEF MeteredSoFar, plan
  <2>6. QED  BY <1>1, <1>3, <1>5, <2>3, <2>5 DEF MeterInv
<1>8. QED  BY <1>6, <1>7

LEMMA FinallyKeepsMeterInv ==
    ASSUME MeterInv, Finally
    PROVE  MeterInv'
<1>0. /\ response \in Seq(AnyByte) /\ received \in 0 .. Len(response)
      /\ out \in Seq(AnyByte)
  BY DEF MeterInv, MeteredSoFar
<1>1. /\ phase \in {"feeding", "flushed"} /\ phase' = "closed" /\ request' = request
      /\ response' = response /\ received' = received /\ out' = out
  BY DEF Finally
<1>2. PICK r : r = finish(meter)
  OBVIOUS
<1>3. meter' = r
  BY <1>2 DEF Finally
<1>4. PICK injected \in BOOLEAN : injected = plan.injected_usage
  BY PlanTypes
<1>5. PICK o \in Seq(AnyByte) : o = out
  BY <1>0
<1>6. CASE plan.streaming
  <2>1. PICK s : s = SubSeq(response, 1, received)
    OBVIOUS
  <2>2. PICK m : m = meter
    OBVIOUS
  <2>3. s \in Seq(AnyByte)
    BY <1>0, <2>1, SentTypes
  <2>4. Streamed(injected, m, s, o, phase)
    BY <1>4, <1>5, <1>6, <2>1, <2>2 DEF MeterInv, MeteredSoFar, plan
  <2>5. Streamed(injected, r, s, o, "closed")
    <3>1. CASE phase = "feeding"
      <4>1. Settled(injected, m, s, o)
        BY <2>4, <3>1 DEF Streamed
      <4>2. AllCounted(r, s) /\ Selects(o, s, ShownIf(injected, s, Ended(s)))
        BY <1>2, <1>6, <2>2, <2>3, <4>1, RestFinished
      <4>3. QED  BY <4>2 DEF Streamed
    <3>2. CASE phase = "flushed"
      <4>1. AllCounted(m, s) /\ Selects(o, s, ShownIf(injected, s, Starts(s)))
        BY <2>4, <3>2 DEF Streamed
      <4>2. AllCounted(r, s)
        BY <1>2, <1>6, <2>2, <4>1, FinishedAgain
      <4>3. QED  BY <4>1, <4>2 DEF Streamed
    <3>3. QED  BY <1>1, <3>1, <3>2
  <2>6. MeteredSoFar(plan_request(request), response, received, r, out, "closed")
    BY <1>0, <1>4, <1>5, <1>6, <2>1, <2>5, PlanTypes DEF MeteredSoFar, plan
  <2>7. QED  BY <1>1, <1>3, <2>6 DEF MeterInv
<1>7. CASE ~ plan.streaming
  <2>1. PICK fed \in BOOLEAN : fed = (phase # "feeding")
    OBVIOUS
  <2>2. /\ Body(response) /\ out = SubSeq(response, 1, received)
        /\ BodyFed(meter, response, received, fed)
    BY <1>7, <2>1 DEF MeterInv, MeteredSoFar, plan, Verbatim
  <2>3. BodyFed(r, response, received, TRUE)
    BY <1>0, <1>2, <1>7, <2>2, BodyFinished
  <2>4. Verbatim(r, response, received, out, "closed")
    BY <2>2, <2>3 DEF Verbatim
  <2>5. MeteredSoFar(plan_request(request), response, received, r, out, "closed")
    BY <1>0, <1>7, <2>4, PlanTypes DEF MeteredSoFar, plan
  <2>6. QED  BY <1>1, <1>3, <2>5 DEF MeterInv
<1>8. QED  BY <1>6, <1>7

\* The meter's invariant: at every point it has looked at and forwarded what
\* the lines of the bytes that arrived say, however they were cut.
THEOREM MeterKeepsUp == MeterSpec => []MeterInv
<1>1. MeterInit => MeterInv
  BY MeterInvInit
<1>2. MeterInv /\ [MeterNext]_meterVars => MeterInv'
  <2>1. SUFFICES ASSUME MeterInv, [MeterNext]_meterVars
                 PROVE  MeterInv'
    OBVIOUS
  <2>2. ASSUME NEW n \in 1 .. Len(response) - received, Chunk(n)
        PROVE  MeterInv'
    BY <2>1, <2>2, ChunkKeepsMeterInv
  <2>3. CASE EndOfStream
    BY <2>1, <2>3, EndOfStreamKeepsMeterInv
  <2>4. CASE Finally
    BY <2>1, <2>4, FinallyKeepsMeterInv
  <2>5. CASE UNCHANGED meterVars
    BY <2>1, <2>5 DEF MeterInv, meterVars
  <2>6. QED  BY <2>1, <2>2, <2>3, <2>4, <2>5 DEF MeterNext
<1>3. QED  BY <1>1, <1>2, PTL DEF MeterSpec

LEMMA SameHidden ==
    ASSUME NEW s, NEW lines
    PROVE  ShownIf(plan.injected_usage, s, lines) = Shown(s, lines)
BY DEF ShownIf, HiddenIf, UsageEndsAt, Shown, Hidden

LEMMA MeterInvForwards == MeterInv => ForwardedByTheLine
<1> SUFFICES ASSUME MeterInv
             PROVE  ForwardedByTheLine
  OBVIOUS
<1>1. phase \in {"feeding", "flushed", "closed"} /\ out \in Seq(AnyByte)
  BY DEF MeterInv, MeteredSoFar
<1>2. CASE plan.streaming
  <2>1. PICK s : s = Sent
    OBVIOUS
  <2>2. PICK injected : injected = plan.injected_usage
    OBVIOUS
  <2>3. Streamed(injected, meter, s, out, phase)
    BY <1>2, <2>1, <2>2 DEF MeterInv, MeteredSoFar, plan, Sent
  <2>4. /\ ShownIf(injected, s, Ended(s)) = Shown(s, Ended(s))
        /\ ShownIf(injected, s, Starts(s)) = Shown(s, Starts(s))
    BY <2>2, SameHidden
  <2>5. CASE phase = "feeding"
    <3>1. PICK c : c = [meter EXCEPT !.forward = <<>>]
      OBVIOUS
    <3>2. meter \in Meters /\ Metered(injected, c, s, out)
      BY <2>3, <2>5, <3>1 DEF Streamed, Settled
    <3>3. out \o c.forward = out
      BY <1>1, <3>1, <3>2, CleanMeter, EmptyTail
    <3>4. Selects(out, s, ShownIf(injected, s, Ended(s)))
      BY <3>2, <3>3 DEF Metered
    <3>5. QED  BY <1>2, <2>1, <2>4, <2>5, <3>4 DEF ForwardedByTheLine
  <2>6. CASE phase = "flushed"
    BY <1>2, <2>1, <2>3, <2>4, <2>6 DEF Streamed, ForwardedByTheLine
  <2>7. CASE phase = "closed"
    BY <1>2, <2>1, <2>3, <2>4, <2>7 DEF Streamed, ForwardedByTheLine
  <2>8. QED  BY <1>1, <2>5, <2>6, <2>7
<1>3. CASE ~ plan.streaming
  BY <1>3 DEF MeterInv, MeteredSoFar, plan, Verbatim, ForwardedByTheLine, Sent
<1>4. QED  BY <1>2, <1>3

LEMMA MeterInvBills == MeterInv => BilledIsReported
<1> SUFFICES ASSUME MeterInv, phase # "feeding"
             PROVE  BilledIsReported
  BY DEF BilledIsReported
<1>1. /\ response \in Seq(AnyByte) /\ received \in 0 .. Len(response) /\ Len(response) \in Nat
  BY DEF MeterInv, MeteredSoFar
<1>2. CASE plan.streaming
  <2>1. PICK s : s = Sent
    OBVIOUS
  <2>2. AllCounted(meter, s)
    BY <1>2, <2>1 DEF MeterInv, MeteredSoFar, plan, Streamed, Sent
  <2>3. s \in Seq(AnyByte) /\ Len(s) \in Nat
    BY <1>1, <2>1, SentTypes DEF Sent
  <2>4. Counted = Starts(s) /\ Starts(s) \in SUBSET Nat
    BY <2>1, <2>3 DEF Counted, Starts
  <2>5. Reports = {i \in Starts(s) : Reported(s, i)}
    BY <2>1, <2>4 DEF Reports, Reported
  <2>6. Tally(meter.usage, meter.delta_chunks, s, Starts(s))
    BY <2>2 DEF AllCounted
  <2>7. CASE meter.usage = None /\ \A i \in Starts(s) : ~ Reported(s, i)
    <3>1. Reports = {}
      BY <2>5, <2>7
    <3>2. exact(meter) = FALSE /\ tokens(meter) = meter.delta_chunks
      BY <2>7 DEF exact, tokens
    <3>3. Deltas(s, Starts(s)) = {i \in Counted : Loads(LineAt(Sent, i))[1] = "delta"}
      BY <2>1, <2>4, <2>7 DEF Deltas
    <3>4. meter.delta_chunks = Cardinality(Deltas(s, Starts(s)))
      BY <2>6 DEF Tally
    <3>5. QED  BY <1>2, <3>1, <3>2, <3>3, <3>4 DEF BilledIsReported
  <2>8. CASE \E k \in Starts(s) : /\ Reported(s, k)
                                  /\ \A i \in Starts(s) : Reported(s, i) => i <= k
                                  /\ meter.usage = UsageOf(Loads(LineAt(s, k)))
    <3>1. PICK k \in Starts(s) : /\ Reported(s, k)
                                 /\ \A i \in Starts(s) : Reported(s, i) => i <= k
                                 /\ meter.usage = UsageOf(Loads(LineAt(s, k)))
      BY <2>8
    <3>2. PICK T : T = Reports
      OBVIOUS
    <3>3. T \in SUBSET Nat /\ k \in T /\ \A i \in T : i <= k
      BY <2>4, <2>5, <3>1, <3>2
    <3>4. Max(T) = k
      BY <3>3, MaxIs
    <3>5. exact(meter) = TRUE /\ tokens(meter) = UsageOf(Loads(LineAt(s, k)))
      BY <3>1 DEF exact, tokens, Reported
    <3>6. Reports # {} /\ Max(Reports) = k
      BY <3>2, <3>3, <3>4
    <3>7. QED  BY <1>2, <2>1, <3>5, <3>6 DEF BilledIsReported
  <2>9. QED  BY <2>6, <2>7, <2>8 DEF Tally
<1>3. CASE ~ plan.streaming
  <2>1. Body(response) /\ BodyFed(meter, response, received, TRUE)
    BY <1>3 DEF MeterInv, MeteredSoFar, plan, Verbatim
  <2>2. PICK part : part = SubSeq(response, 1, received)
    OBVIOUS
  <2>3. /\ meter.delta_chunks = 0
        /\ meter.truncated => received > MaxBody /\ meter.usage = None
        /\ ~ meter.truncated => received <= MaxBody /\ meter.usage = UsageOf(Loads(part))
    BY <2>1, <2>2 DEF BodyFed
  <2>4. received = Len(response) => part = response
    BY <1>1, <2>2, SubSeqFull
  <2>5. received # Len(response) => UsageOf(Loads(part)) = None
    BY <1>1, <2>1, <2>2, PartIsInvalid
  <2>6. MaxBody \in Nat
    BY MeteringAssumption
  <2>7. CASE meter.truncated
    <3>1. ~ (received <= MaxBody)
      BY <1>1, <2>3, <2>6, <2>7
    <3>2. exact(meter) = FALSE /\ tokens(meter) = 0
      BY <2>3, <2>7 DEF exact, tokens
    <3>3. QED  BY <1>3, <3>1, <3>2 DEF BilledIsReported
  <2>8. CASE ~ meter.truncated /\ received = Len(response)
    <3>1. received <= MaxBody /\ meter.usage = UsageOf(Loads(response))
      BY <2>3, <2>4, <2>8
    <3>2. QED  BY <1>3, <2>3, <2>8, <3>1 DEF BilledIsReported, exact, tokens
  <2>9. CASE ~ meter.truncated /\ received # Len(response)
    <3>1. exact(meter) = FALSE /\ tokens(meter) = 0
      BY <2>3, <2>5, <2>9 DEF exact, tokens
    <3>2. QED  BY <1>3, <2>9, <3>1 DEF BilledIsReported
  <2>10. QED  BY <2>7, <2>8, <2>9
<1>4. QED  BY <1>2, <1>3

\* The bytes held back are those after the last newline.
LEMMA MeterInvTypes == MeterInv => MeterTypeOK
<1> SUFFICES ASSUME MeterInv
             PROVE  MeterTypeOK
  OBVIOUS
<1>1. /\ request \in ClientRequests /\ received \in 0 .. Len(response)
      /\ phase \in {"feeding", "flushed", "closed"}
      /\ response \in Seq(AnyByte) /\ Len(response) \in Nat
  BY DEF MeterInv, MeteredSoFar
<1>2. meter \in Meters
  BY DEF MeterInv, MeteredSoFar, Streamed, Verbatim, Settled, AllCounted, BodyFed
<1>3. meter.buffer = <<>> => \A i \in DOMAIN meter.buffer : meter.buffer[i] # NL
  OBVIOUS
<1>4. CASE plan.streaming /\ phase = "feeding"
  <2>1. PICK s : s = SubSeq(response, 1, received)
    OBVIOUS
  <2>2. s \in Seq(AnyByte) /\ Len(s) \in Nat
    BY <1>1, <2>1, SentTypes
  <2>3. PICK injected : injected = plan.injected_usage
    OBVIOUS
  <2>4. PICK c : c = [meter EXCEPT !.forward = <<>>]
    OBVIOUS
  <2>5. Metered(injected, c, s, out)
    BY <1>4, <2>1, <2>3, <2>4 DEF MeterInv, MeteredSoFar, plan, Streamed, Settled
  <2>6. c.buffer = meter.buffer
    BY <1>2, <2>4, CleanMeter
  <2>7. PICK L \in 0 .. Len(s) : Cut(s, L) /\ meter.buffer = SubSeq(s, L + 1, Len(s))
    BY <2>5, <2>6 DEF Metered
  <2>8. PICK a : a = L + 1
    OBVIOUS
  <2>9. PICK e : e = Len(s)
    OBVIOUS
  <2>10. a \in Int /\ e \in Int /\ \A i \in a .. e : s[i] \in AnyByte
    BY <2>2, <2>8, <2>9
  <2>11. PICK u : u = SubSeq(s, a, e)
    OBVIOUS
  <2>12. /\ u \in Seq(AnyByte) /\ Len(u) = IF a <= e THEN e - a + 1 ELSE 0
         /\ \A i \in 1 .. e - a + 1 : u[i] = s[a + i - 1]
    BY <2>10, <2>11, SubSeqProperties
  <2>13. ASSUME NEW i \in DOMAIN u
         PROVE  u[i] # NL
    <3>1. i \in 1 .. Len(u)
      BY <2>12
    <3>2. i \in 1 .. e - a + 1 /\ a + i - 1 \in L + 1 .. Len(s)
      BY <2>2, <2>8, <2>9, <2>12, <3>1
    <3>3. QED  BY <2>7, <2>12, <3>2 DEF Cut
  <2>14. QED  BY <1>1, <1>2, <2>7, <2>8, <2>9, <2>11, <2>13 DEF MeterTypeOK, Meters, Held
<1>5. CASE ~ (plan.streaming /\ phase = "feeding")
  <2>1. meter.buffer = <<>>
    BY <1>5 DEF MeterInv, MeteredSoFar, plan, Streamed, Verbatim, AllCounted, BodyFed
  <2>2. QED  BY <1>1, <1>2, <1>3, <2>1 DEF MeterTypeOK, Meters, Held
<1>6. QED  BY <1>4, <1>5

\* The buffer never holds a complete line, the body never more than the limit
\* (ResponseMeter.feed, _MAX_ACCUMULATE_BYTES).
THEOREM MeterTypeCorrect == MeterSpec => []MeterTypeOK
BY MeterKeepsUp, MeterInvTypes, PTL

\* The client's bytes do not depend on where the upstream's are cut: every
\* complete line is forwarded, in order and once, but the injected usage event
\* and its empty line (ResponseMeter.feed, finish).
THEOREM LinesAreForwarded == MeterSpec => []ForwardedByTheLine
BY MeterKeepsUp, MeterInvForwards, PTL

\* The bill is the last count reported in what arrived, and the deltas only
\* when none was (ResponseMeter.usage, exact).
THEOREM BillIsWhatWasReported == MeterSpec => []BilledIsReported
BY MeterKeepsUp, MeterInvBills, PTL
==============================================================================
