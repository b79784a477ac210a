----------------------------- MODULE EngineProofs ------------------------------
(***************************************************************************)
(* Machine-checked facts about what the engines stand on, for every value  *)
(* of the constants: the cache of latents (LatentCache), the world-model   *)
(* rollout with its KV cache (LatentRollout), and the attention calls with *)
(* the op registry and the autotuner's file (Attention, AttentionOps).  The *)
(* three share no state; each part below has an invariant of its own.      *)
(***************************************************************************)
EXTENDS LatentCache, LatentRollout, Attention, FiniteSetTheorems, SequenceTheorems,
        WellFoundedInduction, TLAPS

(***************************************************************************)
(* Numbers                                                                 *)
(***************************************************************************)
\* Induction on numbers: a set of them has a least one.
LEMMA LeastNumber ==
    ASSUME NEW T \in SUBSET Nat, T # {}
    PROVE  \E n \in T : \A m \in T : n <= m
<1>1. PICK R : R = {p \in Nat \X Nat : p[1] < p[2]}
  OBVIOUS
<1>2. IsWellFoundedOn(R, Nat)
  <2>1. IsWellFoundedOn(OpToRel(<, Nat), Nat)
    BY NatLessThanWellFounded
  <2>2. R = OpToRel(<, Nat)
    BY <1>1 DEF OpToRel
  <2>3. QED  BY <2>1, <2>2
<1>3. PICK n \in T : \A m \in T : ~ (<<m, n>> \in R)
  BY <1>2, WFMin
<1>4. ASSUME NEW m \in T
      PROVE  n <= m
  <2>1. m \in Nat /\ n \in Nat /\ ~ (<<m, n>> \in R)
    BY <1>3
  <2>2. m < n => <<m, n>> \in R
    BY <1>1, <2>1
  <2>3. QED  BY <2>1, <2>2
<1>5. QED  BY <1>4

\* The least of a set of numbers is one of them.
LEMMA MinIsMember ==
    ASSUME NEW T \in SUBSET Nat, T # {}
    PROVE  Min(T) \in T
<1>1. \E n \in T : \A m \in T : n <= m
  BY LeastNumber
<1>2. PICK l : l = Min(T)
  OBVIOUS
<1>3. l \in T
  BY <1>1, <1>2 DEF Min
<1>4. QED  BY <1>2, <1>3

(***************************************************************************)
(* LatentCache                                                             *)
(***************************************************************************)
\* The inductive invariant of the cache: types, and the pool within its capacity.
Inv == TypeOK /\ Cardinality(DOMAIN pages) <= NumPages

\* The map is finite: its keys are ids that were handed out.
LEMMA DomainFinite ==
  TypeOK => IsFiniteSet(DOMAIN pages) /\ Cardinality(DOMAIN pages) \in Nat
  <1> SUFFICES ASSUME TypeOK
               PROVE  IsFiniteSet(DOMAIN pages) /\ Cardinality(DOMAIN pages) \in Nat
    OBVIOUS
  <1>0. 0 \in Int /\ next_id - 1 \in Int
    BY DEF TypeOK
  <1>1. IsFiniteSet(0 .. next_id - 1)
    BY <1>0, FS_Interval, Zenon
  <1> QED BY <1>1, FS_Subset, FS_CardinalityType DEF TypeOK

\* An insertion keeps the types and adds exactly one page to those kept.
LEMMA InsertFacts ==
  ASSUME TypeOK, NEW kept \in SUBSET DOMAIN pages,
         NEW r \in Requests, NEW f \in Frames, NEW s \in Steps, Insert(kept, r, f, s)
  PROVE  /\ TypeOK'
         /\ DOMAIN pages' = kept \cup {next_id}
         /\ Cardinality(DOMAIN pages') = Cardinality(kept) + 1
         /\ \A pid \in kept : pages'[pid] = pages[pid]
         /\ pages'[next_id].request_id = r
         /\ next_id' = next_id + 1
  <1>1. DOMAIN pages' = kept \cup {next_id} /\ next_id' = next_id + 1
    BY DEF Insert
  <1>2. next_id \notin kept /\ next_id \in Nat
    BY DEF TypeOK
  <1>3. IsFiniteSet(kept)
    BY DomainFinite, FS_Subset
  <1>4. Cardinality(kept \cup {next_id}) = Cardinality(kept) + 1
    BY <1>2, <1>3, FS_AddElement
  <1>5. \A pid \in kept : pages'[pid] = pages[pid]
    BY <1>2 DEF Insert
  <1>6. /\ pages'[next_id] = [request_id |-> r, frame_index |-> f,
                              last_used_step |-> s, in_use |-> TRUE]
        /\ pages' = [pid \in DOMAIN pages' |-> pages'[pid]]
    BY <1>1 DEF Insert
  <1>7. pages'[next_id] \in LatentPage
    BY <1>6 DEF LatentPage
  <1>8. \A pid \in DOMAIN pages' : pages'[pid] \in LatentPage
    BY <1>1, <1>5, <1>7 DEF TypeOK
  <1>9. TypeOK'
    BY <1>1, <1>2, <1>6, <1>8 DEF TypeOK
  <1> QED BY <1>1, <1>4, <1>5, <1>6, <1>9

\* The empty cache satisfies the invariant.
LEMMA InvInit == Init => Inv
  BY CacheAssumption, FS_EmptySet DEF Init, Inv, TypeOK

\* An allocation into a free slot keeps the invariant.
LEMMA AllocateFreeInv ==
  ASSUME Inv, NEW r \in Requests, NEW f \in Frames, NEW s \in Steps, AllocateFree(r, f, s)
  PROVE  Inv'
  <1>1. TypeOK /\ DOMAIN pages \in SUBSET DOMAIN pages
    BY DEF Inv
  <1>2. Insert(DOMAIN pages, r, f, s) /\ Cardinality(DOMAIN pages) < NumPages
    BY DEF AllocateFree
  <1>3. TypeOK' /\ Cardinality(DOMAIN pages') = Cardinality(DOMAIN pages) + 1
    BY <1>1, <1>2, InsertFacts, Zenon
  <1>4. Cardinality(DOMAIN pages) \in Nat
    BY <1>1, DomainFinite
  <1> QED BY <1>2, <1>3, <1>4, CacheAssumption DEF Inv

\* So does one that evicts a page first.
LEMMA AllocateEvictInv ==
  ASSUME Inv, NEW r \in Requests, NEW f \in Frames, NEW s \in Steps, NEW cf \in Frames,
         AllocateEvict(r, f, s, cf)
  PROVE  Inv'
  <1>1. PICK victim \in DOMAIN pages : Insert(DOMAIN pages \ {victim}, r, f, s)
    BY DEF AllocateEvict
  <1>2. Cardinality(DOMAIN pages \ {victim}) = Cardinality(DOMAIN pages) - 1
    BY DomainFinite, FS_RemoveElement DEF Inv
  <1>3. TypeOK' /\ Cardinality(DOMAIN pages') = Cardinality(DOMAIN pages \ {victim}) + 1
    BY <1>1, InsertFacts DEF Inv
  <1> QED BY <1>2, <1>3, DomainFinite DEF Inv

\* Touch and Unpin change one field of one page.
LEMMA UpdateInv ==
  ASSUME Inv, NEW pid \in DOMAIN pages, Unpin(pid) \/ \E s \in Steps : Touch(pid, s)
  PROVE  /\ Inv'
         /\ DOMAIN pages' = DOMAIN pages /\ next_id' = next_id
         /\ \A q \in DOMAIN pages :
              /\ pages'[q].request_id = pages[q].request_id
              /\ pages'[q].frame_index = pages[q].frame_index
  <1>1. CASE Unpin(pid)
    <2>1. pages' = [pages EXCEPT ![pid].in_use = FALSE] /\ next_id' = next_id
      BY <1>1 DEF Unpin
    <2>2. TypeOK'
      BY <2>1 DEF Inv, TypeOK, LatentPage
    <2> QED BY <2>1, <2>2 DEF Inv, TypeOK, LatentPage
  <1>2. ASSUME NEW s \in Steps, Touch(pid, s)
        PROVE  /\ TypeOK' /\ DOMAIN pages' = DOMAIN pages /\ next_id' = next_id
               /\ \A q \in DOMAIN pages :
                    /\ pages'[q].request_id = pages[q].request_id
                    /\ pages'[q].frame_index = pages[q].frame_index
    <2>1. pages' = [pages EXCEPT ![pid].last_used_step = s] /\ next_id' = next_id
      BY <1>2 DEF Touch
    <2>2. TypeOK'
      BY <2>1 DEF Inv, TypeOK, LatentPage
    <2> QED BY <2>1, <2>2 DEF Inv, TypeOK, LatentPage
  <1> QED BY <1>1, <1>2 DEF Inv

\* release_request() only shrinks the map.
LEMMA ReleaseInv ==
  ASSUME Inv, NEW r \in Requests, ReleaseRequest(r)
  PROVE  /\ Inv'
         /\ DOMAIN pages' = {pid \in DOMAIN pages : pages[pid].request_id # r}
         /\ \A pid \in DOMAIN pages' : pages'[pid] = pages[pid]
         /\ next_id' = next_id
  <1> DEFINE kept == {pid \in DOMAIN pages : pages[pid].request_id # r}
  <1>1. pages' = [pid \in kept |-> pages[pid]] /\ next_id' = next_id
    BY DEF ReleaseRequest, Restricted
  <1>2. Cardinality(kept) <= Cardinality(DOMAIN pages) /\ Cardinality(kept) \in Nat
    BY DomainFinite, FS_Subset, FS_CardinalityType DEF Inv
  <1>3. TypeOK'
    BY <1>1 DEF Inv, TypeOK
  <1> QED BY <1>1, <1>2, <1>3, DomainFinite, CacheAssumption DEF Inv

\* Every step keeps the invariant.
LEMMA InvNext == Inv /\ [Next]_vars => Inv'
  <1> SUFFICES ASSUME Inv, [Next]_vars PROVE Inv'
    OBVIOUS
  <1>1. CASE UNCHANGED vars
    BY <1>1 DEF vars, Inv, TypeOK
  <1> QED BY <1>1, AllocateFreeInv, AllocateEvictInv, UpdateInv, ReleaseInv DEF Next

\* The invariant holds in every reachable state.
LEMMA InvAlways == Spec => []Inv
  BY InvInit, InvNext, PTL DEF Spec

\* Every reachable state is well typed; in particular every id in the map was
\* handed out by allocate().
THEOREM CacheTypeCorrect == Spec => []TypeOK
  <1>1. Inv => TypeOK
    BY DEF Inv
  <1> QED BY <1>1, InvAlways, PTL

\* The pool never exceeds the capacity given to new(), so the unsigned
\* subtraction in stats() cannot wrap.
THEOREM CacheCapacity == Spec => []CapacityRespected
  <1>1. Inv => CapacityRespected
    <2> SUFFICES ASSUME Inv PROVE CapacityRespected
      OBVIOUS
    <2>1. Cardinality(DOMAIN pages \ evictable) <= Cardinality(DOMAIN pages)
      BY DomainFinite, FS_Subset DEF Inv
    <2> QED BY <2>1, DomainFinite, CacheAssumption
            DEF Inv, CapacityRespected, free, pinned, allocated
  <1> QED BY <1>1, InvAlways, PTL

\* No allocation takes a pinned page: a page that disappears was evictable or
\* went with its whole request.
THEOREM CachePinnedSurvives == Spec => PinnedSurvives
  <1> DEFINE Survives ==
        \A pid \in DOMAIN pages \ DOMAIN pages' :
            \/ ~ pages[pid].in_use
            \/ \A q \in DOMAIN pages' : pages'[q].request_id # pages[pid].request_id
  <1>1. Inv /\ [Next]_vars => [Survives]_vars
    <2> SUFFICES ASSUME Inv, Next PROVE Survives
      OBVIOUS
    <2>1. ASSUME NEW r \in Requests, NEW f \in Frames, NEW s \in Steps, AllocateFree(r, f, s)
          PROVE  Survives
      BY <2>1, InsertFacts DEF Inv, AllocateFree
    <2>2. ASSUME NEW r \in Requests, NEW f \in Frames, NEW s \in Steps, NEW cf \in Frames,
                 AllocateEvict(r, f, s, cf)
          PROVE  Survives
      <3>1. PICK victim \in DOMAIN pages :
                /\ IsVictim(victim, cf)
                /\ Insert(DOMAIN pages \ {victim}, r, f, s)
        BY <2>2 DEF AllocateEvict
      <3>2. DOMAIN pages' = (DOMAIN pages \ {victim}) \cup {next_id}
        BY <3>1 DEF Insert
      <3> QED BY <3>1, <3>2 DEF IsVictim, evictable
    <2>3. ASSUME NEW pid \in DOMAIN pages, Unpin(pid) \/ \E s \in Steps : Touch(pid, s)
          PROVE  Survives
      BY <2>3, UpdateInv
    <2>4. ASSUME NEW r \in Requests, ReleaseRequest(r) PROVE Survives
      BY <2>4, ReleaseInv
    <2> QED BY <2>1, <2>2, <2>3, <2>4 DEF Next
  <1> QED BY <1>1, InvAlways, PTL DEF Spec, PinnedSurvives

\* A page id denotes one page for ever.
THEOREM CacheIdsAreStable == Spec => IdsAreStable
  <1> DEFINE Stable ==
        /\ \A pid \in DOMAIN pages' \cap DOMAIN pages :
              /\ pages'[pid].request_id = pages[pid].request_id
              /\ pages'[pid].frame_index = pages[pid].frame_index
        /\ \A pid \in DOMAIN pages' \ DOMAIN pages : pid >= next_id
        /\ next_id' >= next_id
  <1>1. Inv /\ [Next]_vars => [Stable]_vars
    <2> SUFFICES ASSUME Inv, Next PROVE Stable
      OBVIOUS
    <2>0. next_id \in Nat /\ next_id \notin DOMAIN pages
      BY DEF Inv, TypeOK
    <2>1. ASSUME NEW r \in Requests, NEW f \in Frames, NEW s \in Steps, AllocateFree(r, f, s)
          PROVE  Stable
      <3>1. Insert(DOMAIN pages, r, f, s)
        BY <2>1 DEF AllocateFree
      <3> QED BY <2>0, <3>1 DEF Insert
    <2>2. ASSUME NEW r \in Requests, NEW f \in Frames, NEW s \in Steps, NEW cf \in Frames,
                 AllocateEvict(r, f, s, cf)
          PROVE  Stable
      <3>1. PICK victim \in DOMAIN pages : Insert(DOMAIN pages \ {victim}, r, f, s)
        BY <2>2 DEF AllocateEvict
      <3> QED BY <2>0, <3>1 DEF Insert
    <2>3. ASSUME NEW pid \in DOMAIN pages, Unpin(pid) \/ \E s \in Steps : Touch(pid, s)
          PROVE  Stable
      BY <2>0, <2>3, UpdateInv
    <2>4. ASSUME NEW r \in Requests, ReleaseRequest(r) PROVE Stable
      <3>1. /\ DOMAIN pages' \subseteq DOMAIN pages
            /\ \A pid \in DOMAIN pages' : pages'[pid] = pages[pid]
            /\ next_id' = next_id
        BY <2>4 DEF ReleaseRequest, Restricted
      <3> QED BY <2>0, <3>1
    <2> QED BY <2>1, <2>2, <2>3, <2>4 DEF Next
  <1> QED BY <1>1, InvAlways, PTL DEF Spec, IdsAreStable

\* An eviction never gives up a page at or after the current frame while an
\* evictable page before it exists.
THEOREM CachePastFramesGoFirst == Spec => PastFramesGoFirst
  <1> DEFINE PastFirst ==
        \A r \in Requests, f \in Frames, s \in Steps, cf \in Frames :
          AllocateEvict(r, f, s, cf) =>
             \A gone \in DOMAIN pages \ DOMAIN pages', q \in evictable :
                 pages[q].frame_index < cf => pages[gone].frame_index < cf
  <1>1. Inv => PastFirst
    <2> SUFFICES ASSUME Inv, NEW r \in Requests, NEW f \in Frames, NEW s \in Steps,
                        NEW cf \in Frames, AllocateEvict(r, f, s, cf),
                        NEW gone \in DOMAIN pages \ DOMAIN pages', NEW q \in evictable,
                        pages[q].frame_index < cf
                 PROVE  pages[gone].frame_index < cf
      OBVIOUS
    <2>1. PICK victim \in DOMAIN pages :
              /\ IsVictim(victim, cf)
              /\ Insert(DOMAIN pages \ {victim}, r, f, s)
      BY DEF AllocateEvict
    <2>2. gone = victim
      BY <2>1 DEF Insert
    <2>3. Preferred(victim, q, cf)
      BY <2>1 DEF IsVictim
    <2>4. pages[victim].frame_index \in Int /\ pages[q].frame_index \in Int /\ cf \in Int
      BY CacheAssumption DEF Inv, TypeOK, LatentPage, evictable
    <2> QED BY <2>2, <2>3, <2>4 DEF Preferred
  <1> QED BY <1>1, InvAlways, PTL DEF Spec, PastFramesGoFirst

(***************************************************************************)
(* LatentRollout                                                           *)
(***************************************************************************)

(***************************************************************************)
(* Windows of frames.  A frame is any value, so that a window is a         *)
(* sequence over some set.                                                 *)
(***************************************************************************)
IsSeq(c) == \E S : c \in Seq(S)

\* A context the engine may hold under a window of n frames.
Context(c, n) == IsSeq(c) /\ Len(c) \in 1 .. n

\* A sequence and one more element.
LEMMA AppendAny ==
    ASSUME NEW c, NEW f, IsSeq(c)
    PROVE  /\ IsSeq(Append(c, f))
           /\ Len(c) \in Nat /\ DOMAIN c = 1 .. Len(c)
           /\ Len(Append(c, f)) = Len(c) + 1
           /\ \A i \in 1 .. Len(c) : Append(c, f)[i] = c[i]
           /\ Append(c, f)[Len(c) + 1] = f
<1>1. PICK S : c \in Seq(S)
  BY DEF IsSeq
<1>2. c \in Seq(S \cup {f}) /\ f \in S \cup {f}
  BY <1>1, SeqMonotonic
<1>3. Append(c, f) \in Seq(S \cup {f})
  BY <1>2, AppendProperties
<1>4. QED  BY <1>2, <1>3, AppendProperties, LenProperties DEF IsSeq

\* Part of a sequence.
LEMMA SubSeqAny ==
    ASSUME NEW c, IsSeq(c), NEW m \in Int, NEW n \in Int, 1 <= m, n <= Len(c)
    PROVE  /\ IsSeq(SubSeq(c, m, n))
           /\ Len(SubSeq(c, m, n)) = IF m <= n THEN n - m + 1 ELSE 0
           /\ \A i \in 1 .. n - m + 1 : SubSeq(c, m, n)[i] = c[m + i - 1]
<1>1. PICK S : c \in Seq(S)
  BY DEF IsSeq
<1>2. Len(c) \in Nat /\ DOMAIN c = 1 .. Len(c)
  BY <1>1, LenProperties
<1>3. \A i \in m .. n : c[i] \in S
  BY <1>1, <1>2, ElementOfSeq
<1>4. SubSeq(c, m, n) \in Seq(S)
  BY <1>3, SubSeqProperties
<1>5. Len(SubSeq(c, m, n)) = IF m <= n THEN n - m + 1 ELSE 0
  BY <1>3, SubSeqProperties
<1>6. \A i \in 1 .. n - m + 1 : SubSeq(c, m, n)[i] = c[m + i - 1]
  BY <1>3, SubSeqProperties
<1>7. QED  BY <1>4, <1>5, <1>6 DEF IsSeq

\* Two sequences with the same elements are equal.
LEMMA SeqEqualAny ==
    ASSUME NEW c, NEW d, IsSeq(c), IsSeq(d), Len(c) = Len(d),
           \A i \in 1 .. Len(c) : c[i] = d[i]
    PROVE  c = d
<1>1. PICK S : c \in Seq(S)
  BY DEF IsSeq
<1>2. PICK T : d \in Seq(T)
  BY DEF IsSeq
<1>3. c \in Seq(S \cup T) /\ d \in Seq(S \cup T)
  <2>1. S \subseteq S \cup T /\ T \subseteq S \cup T
    OBVIOUS
  <2>2. QED  BY <1>1, <1>2, <2>1, SeqMonotonic
<1>4. QED  BY <1>3, SeqEqual

\* The window after a frame more: capped, and never empty.
LEMMA LastFramesFacts ==
    ASSUME NEW c, NEW f, NEW n \in Nat \ {0}, IsSeq(c)
    PROVE  /\ Context(LastFrames(Append(c, f), n), n)
           /\ Len(LastFrames(Append(c, f), n)) = IF Len(c) < n THEN Len(c) + 1 ELSE n
           /\ Len(c) < n => LastFrames(Append(c, f), n) = Append(c, f)
           /\ Last(LastFrames(Append(c, f), n)) = f
<1> DEFINE d == Append(c, f)
<1>1. IsSeq(d) /\ Len(d) = Len(c) + 1 /\ Len(c) \in Nat /\ d[Len(c) + 1] = f
  BY AppendAny
<1> HIDE DEF d
<1>2. CASE Len(d) <= n
  BY <1>1, <1>2 DEF LastFrames, Context, Last, d
<1>3. CASE ~ (Len(d) <= n)
  <2>1. LastFrames(d, n) = SubSeq(d, Len(d) - n + 1, Len(d))
    BY <1>3 DEF LastFrames
  <2>2. /\ Len(d) - n + 1 \in Int /\ Len(d) \in Int /\ 1 <= Len(d) - n + 1
        /\ Len(d) - n + 1 <= Len(d) /\ Len(d) - (Len(d) - n + 1) + 1 = n
        /\ (Len(d) - n + 1) + n - 1 = Len(d) /\ n \in 1 .. n
    BY <1>1, <1>3
  <2>3. /\ IsSeq(LastFrames(d, n)) /\ Len(LastFrames(d, n)) = n
        /\ LastFrames(d, n)[n] = d[Len(d)]
    BY <1>1, <2>1, <2>2, SubSeqAny
  <2>4. QED  BY <1>1, <1>3, <2>2, <2>3 DEF Context, Last, d
<1>4. QED  BY <1>2, <1>3

(***************************************************************************)
(* The cache                                                               *)
(***************************************************************************)
\* The entries of a prefix: one for every frame but the last.
LEMMA PrefixKVFacts ==
    ASSUME NEW c, IsSeq(c), Len(c) >= 1
    PROVE  /\ IsSeq(PrefixKV(c)) /\ Len(PrefixKV(c)) = Len(c) - 1
           /\ \A i \in 1 .. Len(c) - 1 : PrefixKV(c)[i] = SubSeq(c, 1, i)
<1>1. Len(c) \in Nat
  BY AppendAny
<1> DEFINE S == {SubSeq(c, 1, i) : i \in 1 .. Len(c) - 1}
<1>2. PrefixKV(c) \in [1 .. Len(c) - 1 -> S]
  BY DEF PrefixKV
<1>3. Len(c) - 1 \in Nat
  BY <1>1
<1>4. PrefixKV(c) \in Seq(S)
  <2>1. PrefixKV(c) \in UNION {[1 .. k -> S] : k \in Nat}
    BY <1>2, <1>3
  <2>2. QED  BY <2>1, SeqDef
<1>5. Len(PrefixKV(c)) = Len(c) - 1
  BY <1>2, <1>3, <1>4, LenProperties
<1>6. QED  BY <1>4, <1>5 DEF IsSeq, PrefixKV

\* What Commit, AppendFrame and Evict build.
LEMMA CommitFields ==
    ASSUME NEW kv, NEW p, NEW seen, seen = IF kv = <<>> THEN <<>> ELSE Last(kv)
    PROVE  Commit([layer_kv |-> kv, pending |-> <<p>>])
               = [layer_kv |-> Append(kv, Append(seen, p)), pending |-> <<>>]
BY DEF Commit

LEMMA AppendFrameFields ==
    ASSUME NEW kv, NEW p, NEW f
    PROVE  AppendFrame([layer_kv |-> kv, pending |-> p], f)
               = [layer_kv |-> kv, pending |-> <<f>>]
BY DEF AppendFrame

LEMMA EvictFields ==
    ASSUME NEW kv, NEW p, NEW n
    PROVE  Evict([layer_kv |-> kv, pending |-> p], n)
               = [layer_kv |-> SubSeq(kv, 1, n) \o SubSeq(kv, n + 2, Len(kv)), pending |-> p]
<1>1. PICK c : c = [layer_kv |-> kv, pending |-> p]
  OBVIOUS
<1>2. Evict(c, n) = [c EXCEPT !.layer_kv = SubSeq(kv, 1, n) \o SubSeq(kv, n + 2, Len(kv))]
  BY <1>1 DEF Evict
<1>3. QED  BY <1>1, <1>2

\* Committing the pending frame and appending the predicted one gives the
\* cache a recomputation would: the entry of a frame has seen the frames
\* before it.
LEMMA CommitIsExact ==
    ASSUME NEW c, NEW f, IsSeq(c), Len(c) >= 1
    PROVE  AppendFrame(Commit(InitCache(c)), f) = InitCache(Append(c, f))
<1> DEFINE d == Append(c, f)
           kv == PrefixKV(c)
           seen == IF kv = <<>> THEN <<>> ELSE Last(kv)
<1>1. /\ IsSeq(d) /\ Len(d) = Len(c) + 1 /\ Len(c) \in Nat /\ d[Len(c) + 1] = f
      /\ \A i \in 1 .. Len(c) : d[i] = c[i]
  BY AppendAny
<1>2. /\ IsSeq(kv) /\ Len(kv) = Len(c) - 1
      /\ \A i \in 1 .. Len(c) - 1 : kv[i] = SubSeq(c, 1, i)
  BY PrefixKVFacts
<1>0. seen = IF kv = <<>> THEN <<>> ELSE Last(kv)
  OBVIOUS
<1>a. kv = PrefixKV(c) /\ d = Append(c, f)
  OBVIOUS
<1> HIDE DEF d, kv, seen
<1>3. seen = SubSeq(c, 1, Len(c) - 1)
  <2>1. CASE Len(c) = 1
    <3>1. SubSeq(c, 1, Len(c) - 1) = <<>>
      BY <2>1, SubSeqEmpty
    <3>2. kv = <<>>
      BY <1>2, <2>1, EmptySeq DEF IsSeq
    <3>3. QED  BY <1>0, <3>1, <3>2
  <2>2. CASE Len(c) # 1
    <3>1. Len(kv) \in 1 .. Len(c) - 1 /\ Len(kv) # 0
      BY <1>1, <1>2, <2>2
    <3>2. kv # <<>>
      BY <3>1
    <3>3. QED  BY <1>0, <1>2, <3>1, <3>2 DEF Last
  <2>3. QED  BY <2>1, <2>2
<1>4. Append(seen, Last(c)) = c
  <2>1. /\ IsSeq(seen) /\ Len(seen) = Len(c) - 1
        /\ \A i \in 1 .. Len(c) - 1 : seen[i] = c[i]
    <3>1. PICK k \in Nat : k = Len(c) - 1
      BY <1>1
    <3>2. 1 \in Int /\ k \in Int /\ 1 <= 1 /\ k <= Len(c)
      BY <1>1, <3>1
    <3>3. seen = SubSeq(c, 1, k)
      BY <1>3, <3>1
    <3>4. /\ IsSeq(seen) /\ Len(seen) = IF 1 <= k THEN k - 1 + 1 ELSE 0
          /\ \A i \in 1 .. k - 1 + 1 : seen[i] = c[1 + i - 1]
      BY <3>2, <3>3, SubSeqAny
    <3>5. k - 1 + 1 = k /\ \A i \in 1 .. k : 1 + i - 1 = i
      BY <3>1
    <3>6. Len(seen) = k
      BY <3>1, <3>4
    <3>7. QED  BY <3>1, <3>4, <3>5, <3>6
  <2>2. /\ IsSeq(Append(seen, Last(c))) /\ Len(Append(seen, Last(c))) = Len(c)
        /\ \A i \in 1 .. Len(c) : Append(seen, Last(c))[i] = c[i]
    <3>1. /\ IsSeq(Append(seen, Last(c))) /\ Len(Append(seen, Last(c))) = Len(seen) + 1
          /\ \A i \in 1 .. Len(seen) : Append(seen, Last(c))[i] = seen[i]
          /\ Append(seen, Last(c))[Len(seen) + 1] = Last(c)
      BY <2>1, AppendAny
    <3>2. QED  BY <1>1, <2>1, <3>1 DEF Last
  <2>3. QED  BY <2>2, SeqEqualAny
<1>5. Append(kv, c) = PrefixKV(d)
  <2>1. /\ IsSeq(Append(kv, c)) /\ Len(Append(kv, c)) = Len(c)
        /\ \A i \in 1 .. Len(c) - 1 : Append(kv, c)[i] = SubSeq(c, 1, i)
        /\ Append(kv, c)[Len(c)] = c
    <3>1. /\ IsSeq(Append(kv, c)) /\ Len(Append(kv, c)) = Len(kv) + 1
          /\ \A i \in 1 .. Len(kv) : Append(kv, c)[i] = kv[i]
          /\ Append(kv, c)[Len(kv) + 1] = c
      BY <1>2, AppendAny
    <3>2. QED  BY <1>1, <1>2, <3>1
  <2>2. /\ IsSeq(PrefixKV(d)) /\ Len(PrefixKV(d)) = Len(c)
        /\ \A i \in 1 .. Len(c) : PrefixKV(d)[i] = SubSeq(d, 1, i)
    <3>1. /\ IsSeq(PrefixKV(d)) /\ Len(PrefixKV(d)) = Len(d) - 1
          /\ \A i \in 1 .. Len(d) - 1 : PrefixKV(d)[i] = SubSeq(d, 1, i)
      BY <1>1, PrefixKVFacts
    <3>2. QED  BY <1>1, <3>1
  <2>3. ASSUME NEW i \in 1 .. Len(c)
        PROVE  SubSeq(d, 1, i) = SubSeq(c, 1, i)
    <3>1. i \in Int /\ 1 <= i /\ i <= Len(c) /\ i <= Len(d) /\ i - 1 + 1 = i
      BY <1>1
    <3>2. /\ IsSeq(SubSeq(d, 1, i)) /\ Len(SubSeq(d, 1, i)) = i
          /\ \A j \in 1 .. i : SubSeq(d, 1, i)[j] = d[1 + j - 1]
      BY <1>1, <3>1, SubSeqAny
    <3>3. /\ IsSeq(SubSeq(c, 1, i)) /\ Len(SubSeq(c, 1, i)) = i
          /\ \A j \in 1 .. i : SubSeq(c, 1, i)[j] = c[1 + j - 1]
      BY <3>1, SubSeqAny
    <3>4. \A j \in 1 .. i : SubSeq(d, 1, i)[j] = SubSeq(c, 1, i)[j]
      BY <1>1, <3>1, <3>2, <3>3
    <3>5. QED  BY <3>2, <3>3, <3>4, SeqEqualAny
  <2>4. SubSeq(c, 1, Len(c)) = c
    BY SubSeqFull DEF IsSeq
  <2>5. \A i \in 1 .. Len(c) : Append(kv, c)[i] = PrefixKV(d)[i]
    BY <1>1, <2>1, <2>2, <2>3, <2>4
  <2>6. QED  BY <2>1, <2>2, <2>5, SeqEqualAny
<1>6. Last(d) = f
  BY <1>1 DEF Last
<1>7. InitCache(c) = [layer_kv |-> kv, pending |-> <<Last(c)>>]
  BY <1>a DEF InitCache
<1>8. Commit(InitCache(c)) = [layer_kv |-> Append(kv, c), pending |-> <<>>]
  BY <1>0, <1>4, <1>7, CommitFields
<1>9. AppendFrame(Commit(InitCache(c)), f) = [layer_kv |-> Append(kv, c), pending |-> <<f>>]
  BY <1>8, AppendFrameFields
<1>10. QED  BY <1>5, <1>6, <1>9, <1>a DEF InitCache

(***************************************************************************)
(* The full forwards of a rollout, step by step.  W[t] is the window after *)
(* t actions of q from c, under a window of n frames.                      *)
(***************************************************************************)
Slid(n, c, a) == LastFrames(Append(c, FullForward(c, a)), n)

RunTo(W, n, c, q, k) ==
    /\ W = [t \in 0 .. k |-> W[t]]
    /\ W[0] = c
    /\ \A t \in 1 .. k : W[t] = Slid(n, W[t - 1], q[t])

After(n, c, q, k) == (CHOOSE W : RunTo(W, n, c, q, k))[k]

\* There is a run of every length.
LEMMA RunExists ==
    ASSUME NEW n, NEW c, NEW q, NEW k \in Nat
    PROVE  \E W : RunTo(W, n, c, q, k)
<1> DEFINE Bad == {j \in Nat : ~ \E W : RunTo(W, n, c, q, j)}
<1>1. SUFFICES ASSUME Bad # {}
               PROVE  FALSE
  OBVIOUS
<1>2. PICK j \in Bad : \A i \in Bad : j <= i
  <2>1. Bad \in SUBSET Nat
    OBVIOUS
  <2> HIDE DEF Bad
  <2>2. QED  BY <1>1, <2>1, LeastNumber
<1>3. j \in Nat /\ ~ \E W : RunTo(W, n, c, q, j)
  BY <1>2
<1>4. CASE j = 0
  <2>1. RunTo([t \in 0 .. 0 |-> c], n, c, q, 0)
    BY DEF RunTo
  <2>2. QED  BY <1>3, <1>4, <2>1
<1>5. CASE j # 0
  <2>1. j - 1 \in Nat /\ ~ (j <= j - 1) /\ j - 1 \in 0 .. j
    BY <1>3, <1>5
  <2>2. PICK W : RunTo(W, n, c, q, j - 1)
    <3>1. j - 1 \notin Bad
      BY <1>2, <2>1
    <3>2. QED  BY <2>1, <3>1
  <2>3. PICK V : V = [t \in 0 .. j |-> IF t = j THEN Slid(n, W[j - 1], q[j]) ELSE W[t]]
    OBVIOUS
  <2>4. V[0] = c
    BY <1>3, <1>5, <2>2, <2>3 DEF RunTo
  <2>5. ASSUME NEW t \in 1 .. j
        PROVE  V[t] = Slid(n, V[t - 1], q[t])
    <3>1. t - 1 \in 0 .. j /\ t \in 0 .. j /\ t - 1 # j
      BY <1>3
    <3>2. V[t - 1] = W[t - 1]
      BY <2>3, <3>1
    <3>3. CASE t = j
      BY <2>3, <3>1, <3>2, <3>3
    <3>4. CASE t # j
      <4>1. t \in 1 .. j - 1
        BY <1>3, <3>4
      <4>2. W[t] = Slid(n, W[t - 1], q[t])
        BY <2>2, <4>1 DEF RunTo
      <4>3. QED  BY <2>3, <3>1, <3>2, <3>4, <4>2
    <3>5. QED  BY <3>3, <3>4
  <2>6. V = [t \in 0 .. j |-> V[t]]
    BY <2>3
  <2>7. RunTo(V, n, c, q, j)
    BY <2>4, <2>5, <2>6 DEF RunTo
  <2>8. QED  BY <1>3, <2>7
<1>6. QED  BY <1>4, <1>5

\* Two runs agree as far as both go.
LEMMA RunsAgree ==
    ASSUME NEW n, NEW c, NEW q, NEW k \in Nat, NEW m \in Nat, k <= m,
           NEW V, RunTo(V, n, c, q, k), NEW W, RunTo(W, n, c, q, m)
    PROVE  \A t \in 0 .. k : V[t] = W[t]
<1> DEFINE Bad == {t \in 0 .. k : V[t] # W[t]}
<1>1. SUFFICES ASSUME Bad # {}
               PROVE  FALSE
  OBVIOUS
<1>2. PICK t \in Bad : \A i \in Bad : t <= i
  <2>1. Bad \in SUBSET Nat
    OBVIOUS
  <2> HIDE DEF Bad
  <2>2. QED  BY <1>1, <2>1, LeastNumber
<1>3. t \in 0 .. k /\ V[t] # W[t]
  BY <1>2
<1>4. t # 0
  BY <1>3 DEF RunTo
<1>5. t \in 1 .. k /\ t \in 1 .. m /\ t - 1 \in 0 .. k /\ ~ (t <= t - 1)
  BY <1>3, <1>4
<1>6. V[t - 1] = W[t - 1]
  BY <1>2, <1>5
<1>7. V[t] = Slid(n, V[t - 1], q[t]) /\ W[t] = Slid(n, W[t - 1], q[t])
  BY <1>5 DEF RunTo
<1>8. QED  BY <1>3, <1>6, <1>7

\* The window after t actions is that of any run that is long enough.
LEMMA AfterIs ==
    ASSUME NEW n, NEW c, NEW q, NEW m \in Nat, NEW k \in 0 .. m,
           NEW W, RunTo(W, n, c, q, m)
    PROVE  After(n, c, q, k) = W[k]
<1>1. k \in Nat /\ k <= m /\ k \in 0 .. k
  OBVIOUS
<1>2. PICK V : V = CHOOSE U : RunTo(U, n, c, q, k)
  OBVIOUS
<1>3. \E U : RunTo(U, n, c, q, k)
  BY <1>1, RunExists
<1>4. RunTo(V, n, c, q, k)
  BY <1>2, <1>3
<1>5. V[k] = W[k]
  BY <1>1, <1>4, RunsAgree
<1>6. QED  BY <1>2, <1>5 DEF After

\* No action leaves the window as it is; one more slides it once more.
LEMMA AfterSteps ==
    ASSUME NEW n, NEW c, NEW q, NEW k \in Nat
    PROVE  /\ After(n, c, q, 0) = c
           /\ After(n, c, q, k + 1) = Slid(n, After(n, c, q, k), q[k + 1])
<1>1. k + 1 \in Nat /\ k \in 0 .. k + 1 /\ k + 1 \in 0 .. k + 1 /\ 0 \in 0 .. k + 1
      /\ k + 1 \in 1 .. k + 1 /\ (k + 1) - 1 = k
  OBVIOUS
<1>2. PICK W : RunTo(W, n, c, q, k + 1)
  BY <1>1, RunExists
<1>3. /\ After(n, c, q, 0) = W[0] /\ After(n, c, q, k) = W[k]
      /\ After(n, c, q, k + 1) = W[k + 1]
  BY <1>1, <1>2, AfterIs
<1>4. W[0] = c /\ W[k + 1] = Slid(n, W[(k + 1) - 1], q[k + 1])
  BY <1>1, <1>2 DEF RunTo
<1>5. QED  BY <1>1, <1>3, <1>4

\* The window after k actions is a context, and has grown by k frames as long
\* as that fits.
LEMMA AfterFacts ==
    ASSUME NEW n \in Nat \ {0}, NEW c, NEW q, Context(c, n), NEW k \in Nat
    PROVE  /\ Context(After(n, c, q, k), n)
           /\ Len(c) + k <= n => Len(After(n, c, q, k)) = Len(c) + k
<1> DEFINE Good(j) == /\ Context(After(n, c, q, j), n)
                      /\ Len(c) + j <= n => Len(After(n, c, q, j)) = Len(c) + j
           Bad == {j \in Nat : ~ Good(j)}
<1>1. SUFFICES ASSUME Bad # {}
               PROVE  FALSE
  OBVIOUS
<1>2. PICK j \in Bad : \A i \in Bad : j <= i
  <2>1. Bad \in SUBSET Nat
    OBVIOUS
  <2> HIDE DEF Bad
  <2>2. QED  BY <1>1, <2>1, LeastNumber
<1>3. Len(c) \in Nat
  BY DEF Context
<1>4. j # 0
  BY <1>2, <1>3, AfterSteps
<1>5. PICK i \in Nat : j = i + 1
  BY <1>2, <1>4
<1>6. Good(i)
  BY <1>2, <1>5
<1>7. /\ IsSeq(After(n, c, q, i)) /\ Len(After(n, c, q, i)) \in 1 .. n
      /\ Len(c) + i <= n => Len(After(n, c, q, i)) = Len(c) + i
  BY <1>6 DEF Context
<1>8. After(n, c, q, j)
        = LastFrames(Append(After(n, c, q, i), FullForward(After(n, c, q, i), q[i + 1])), n)
  BY <1>5, AfterSteps DEF Slid
<1>9. /\ Context(After(n, c, q, j), n)
      /\ Len(After(n, c, q, j))
            = IF Len(After(n, c, q, i)) < n THEN Len(After(n, c, q, i)) + 1 ELSE n
  BY <1>7, <1>8, LastFramesFacts
<1>10. Good(j)
  BY <1>3, <1>5, <1>7, <1>9
<1>11. QED  BY <1>2, <1>10

(***************************************************************************)
(* The model's rollouts are runs                                           *)
(***************************************************************************)
LEMMA RolledOutIsAfter ==
    ASSUME NEW c, NEW q, Len(q) \in Nat
    PROVE  RolledOut(c, q) = After(config.context_frames, c, q, Len(q))
<1> DEFINE n == config.context_frames
           F(W) == [t \in 0 .. Len(q) |-> IF t = 0 THEN c ELSE Slid(n, W[t - 1], q[t])]
<1>1. PICK W : W = CHOOSE U : U = F(U)
  OBVIOUS
<1>2. RolledOut(c, q) = W[Len(q)]
  BY <1>1 DEF RolledOut, Slid, Window
<1>3. \E U : U = F(U)
  <2>1. PICK U : RunTo(U, n, c, q, Len(q))
    BY RunExists
  <2>2. U = F(U)
    BY <2>1 DEF RunTo
  <2>3. QED  BY <2>2
<1>4. W = F(W)
  BY <1>1, <1>3
<1>5. RunTo(W, n, c, q, Len(q))
  BY <1>4 DEF RunTo
<1>6. QED  BY <1>2, <1>5, AfterIs

\* As long as the horizon fits the window, the batched scorer's shared prefix
\* holds what init_cache would make of every window, so that its last frame is
\* that of the full forwards.
LEMMA RolledOutCachedIsLast ==
    ASSUME NEW n \in Nat \ {0}, NEW c, NEW q, Context(c, n), Len(q) \in Nat,
           Len(c) + Len(q) <= n
    PROVE  RolledOutCached(c, q) = Last(After(n, c, q, Len(q)))
<1> DEFINE F(W) == [t \in 0 .. Len(q) |->
                      IF t = 0 THEN InitCache(c)
                      ELSE AppendFrame(Commit(W[t - 1]), Advance(W[t - 1], q[t]))]
<1>1. PICK W : W = CHOOSE U : U = F(U)
  OBVIOUS
<1>2. RolledOutCached(c, q) = W[Len(q)].pending[1]
  BY <1>1 DEF RolledOutCached
<1>3. Len(c) \in Nat
  BY DEF Context
<1>4. ASSUME NEW t \in 1 .. Len(q)
      PROVE  InitCache(After(n, c, q, t))
               = AppendFrame(Commit(InitCache(After(n, c, q, t - 1))),
                             Advance(InitCache(After(n, c, q, t - 1)), q[t]))
  <2>1. PICK d : d = After(n, c, q, t - 1)
    OBVIOUS
  <2>2. t - 1 \in Nat /\ (t - 1) + 1 = t /\ Len(c) + (t - 1) <= n /\ Len(c) + (t - 1) < n
    BY <1>3
  <2>3. Context(d, n) /\ Len(d) = Len(c) + (t - 1)
    BY <2>1, <2>2, AfterFacts
  <2>4. IsSeq(d) /\ Len(d) >= 1 /\ Len(d) < n
    BY <2>2, <2>3 DEF Context
  <2>5. After(n, c, q, t) = Slid(n, d, q[t])
    BY <2>1, <2>2, AfterSteps
  <2>6. Slid(n, d, q[t]) = Append(d, FullForward(d, q[t]))
    BY <2>4, LastFramesFacts DEF Slid
  <2>7. FullForward(d, q[t]) = Advance(InitCache(d), q[t])
    BY DEF FullForward, Advance, InitCache
  <2>8. AppendFrame(Commit(InitCache(d)), Advance(InitCache(d), q[t]))
            = InitCache(Append(d, Advance(InitCache(d), q[t])))
    BY <2>4, CommitIsExact
  <2>9. QED  BY <2>1, <2>5, <2>6, <2>7, <2>8
<1>5. \E U : U = F(U)
  <2>1. PICK U : U = [t \in 0 .. Len(q) |-> InitCache(After(n, c, q, t))]
    OBVIOUS
  <2>2. U[0] = InitCache(c)
    BY <2>1, AfterSteps
  <2>3. ASSUME NEW t \in 1 .. Len(q)
        PROVE  U[t] = AppendFrame(Commit(U[t - 1]), Advance(U[t - 1], q[t]))
    <3>1. t \in 0 .. Len(q) /\ t - 1 \in 0 .. Len(q)
      OBVIOUS
    <3>2. U[t] = InitCache(After(n, c, q, t)) /\ U[t - 1] = InitCache(After(n, c, q, t - 1))
      BY <2>1, <3>1
    <3>3. QED  BY <1>4, <3>2
  <2>4. ASSUME NEW t \in 0 .. Len(q)
        PROVE  U[t] = F(U)[t]
    <3>1. CASE t = 0
      BY <2>2, <3>1
    <3>2. CASE t # 0
      <4>1. t \in 1 .. Len(q)
        BY <3>2
      <4>2. QED  BY <2>3, <3>2, <4>1
    <3>3. QED  BY <3>1, <3>2
  <2>5. U = F(U)
    BY <2>1, <2>4
  <2>6. QED  BY <2>5
<1>6. W = F(W)
  BY <1>1, <1>5
<1>7. /\ W[0] = InitCache(c)
      /\ \A t \in 1 .. Len(q) : W[t] = AppendFrame(Commit(W[t - 1]), Advance(W[t - 1], q[t]))
  BY <1>6
<1> HIDE DEF F
<1>8. W[Len(q)] = InitCache(After(n, c, q, Len(q)))
  <2> DEFINE Bad == {t \in 0 .. Len(q) : W[t] # InitCache(After(n, c, q, t))}
  <2>1. SUFFICES ASSUME Bad # {}
                 PROVE  FALSE
    OBVIOUS
  <2>2. PICK t \in Bad : \A i \in Bad : t <= i
    <3>1. Bad \in SUBSET Nat
      OBVIOUS
    <3> HIDE DEF Bad
    <3>2. QED  BY <2>1, <3>1, LeastNumber
  <2>3. t \in 0 .. Len(q) /\ W[t] # InitCache(After(n, c, q, t))
    BY <2>2
  <2>4. t # 0
    BY <1>7, <2>3, AfterSteps
  <2>5. t \in 1 .. Len(q) /\ t - 1 \in 0 .. Len(q) /\ ~ (t <= t - 1)
    BY <2>3, <2>4
  <2>6. W[t - 1] = InitCache(After(n, c, q, t - 1))
    BY <2>2, <2>5
  <2>7. W[t] = InitCache(After(n, c, q, t))
    BY <1>4, <1>7, <2>5, <2>6
  <2>8. QED  BY <2>3, <2>7
<1>9. QED  BY <1>2, <1>8 DEF InitCache

(***************************************************************************)
(* The inductive invariant of the rollout engine, session by session: cfg  *)
(* is the configuration, k the session's cache entry, st the contexts its  *)
(* host holds, c its call, d the last rollout it completed.                *)
(***************************************************************************)
Slides(cfg) == cfg.kv_evict_policy = "slide"
Capable(cfg) == cfg.use_kv_cache /\ cfg.supports_kv_cache

\* An entry spans its context, and is what init_cache computes from it unless
\* "slide" trades that away at a full window.
CacheOf(k, cfg) ==
    /\ IsSeq(k.cache.layer_kv) /\ \E f : k.cache.pending = <<f>>
    /\ Context(k.last_context, cfg.context_frames)
    /\ Len(k.cache.layer_kv) + 1 = Len(k.last_context)
    /\ \/ k.cache = InitCache(k.last_context)
       \/ Slides(cfg) /\ Len(k.last_context) >= cfg.context_frames

\* A window after t actions from base is the full forwards', unless "slide" has
\* predicted from a full window by then.
Exact(cfg, base, seq, t, ctx) ==
    \/ ctx = After(cfg.context_frames, base, seq, t)
    \/ Slides(cfg) /\ Capable(cfg) /\ Len(base) + t > cfg.context_frames

InRollout(c, cfg) ==
    /\ Context(c.base, cfg.context_frames) /\ Context(c.ctx, cfg.context_frames)
    /\ Len(c.seq) \in Nat /\ IsSeq(c.todo) /\ Len(c.todo) \in 1 .. Len(c.seq)
    /\ \A i \in 1 .. Len(c.todo) : c.todo[i] = c.seq[Len(c.seq) - Len(c.todo) + i]
    /\ Len(c.ctx) <= Len(c.base) + (Len(c.seq) - Len(c.todo))
    /\ Exact(cfg, c.base, c.seq, Len(c.seq) - Len(c.todo), c.ctx)

CallOK(c, cfg) ==
    /\ c = [pc |-> c.pc, op |-> c.op, base |-> c.base, seq |-> c.seq, ctx |-> c.ctx,
            todo |-> c.todo, candidates |-> c.candidates, saved |-> c.saved, failed |-> c.failed]
    /\ c.pc \in {"closed", "idle"} \/ InRollout(c, cfg)

DoneOK(d, cfg) == d.base # <<>> =>
    /\ Len(d.seq) \in Nat
    /\ \/ d.terminal = Last(After(cfg.context_frames, d.base, d.seq, Len(d.seq)))
       \/ Slides(cfg) /\ Capable(cfg) /\ Len(d.base) + Len(d.seq) > cfg.context_frames

SessionOK(cfg, k, st, c, d) ==
    /\ k # NoEntry => CacheOf(k, cfg) /\ c.pc # "closed"
    /\ \A ctx \in st : Context(ctx, cfg.context_frames)
    /\ CallOK(c, cfg)
    /\ DoneOK(d, cfg)

RolloutInv ==
    /\ config \in ConfigType
    /\ kv_cache = [s \in Sessions |-> kv_cache[s]]
    /\ states = [s \in Sessions |-> states[s]]
    /\ engine_call = [s \in Sessions |-> engine_call[s]]
    /\ done = [s \in Sessions |-> done[s]]
    /\ \A s \in Sessions :
          SessionOK(config, kv_cache[s], states[s], engine_call[s], done[s])

\* A step that changes one session.
LEMMA OneSession ==
    ASSUME RolloutInv, NEW s \in Sessions, config' = config, NEW k, NEW st, NEW c, NEW d,
           kv_cache' = [kv_cache EXCEPT ![s] = k], states' = [states EXCEPT ![s] = st],
           engine_call' = [engine_call EXCEPT ![s] = c], done' = [done EXCEPT ![s] = d],
           SessionOK(config, k, st, c, d)
    PROVE  RolloutInv'
<1>1. ASSUME NEW r \in Sessions
      PROVE  SessionOK(config, kv_cache'[r], states'[r], engine_call'[r], done'[r])
  <2>1. CASE r = s
    <3>1. /\ kv_cache'[r] = k /\ states'[r] = st /\ engine_call'[r] = c /\ done'[r] = d
      BY <2>1 DEF RolloutInv
    <3>2. QED  BY <3>1
  <2>2. CASE r # s
    <3>1. /\ kv_cache'[r] = kv_cache[r] /\ states'[r] = states[r]
          /\ engine_call'[r] = engine_call[r] /\ done'[r] = done[r]
      BY <2>2 DEF RolloutInv
    <3>2. QED  BY <3>1 DEF RolloutInv
  <2>3. QED  BY <2>1, <2>2
<1>2. /\ kv_cache' = [r \in Sessions |-> kv_cache'[r]]
      /\ states' = [r \in Sessions |-> states'[r]]
      /\ engine_call' = [r \in Sessions |-> engine_call'[r]]
      /\ done' = [r \in Sessions |-> done'[r]]
  BY DEF RolloutInv
<1>3. config' \in ConfigType
  BY DEF RolloutInv
<1>4. QED  BY <1>1, <1>2, <1>3 DEF RolloutInv

\* A function updated with the value it has does not change.
LEMMA SameSession ==
    ASSUME RolloutInv, NEW s \in Sessions
    PROVE  /\ kv_cache = [kv_cache EXCEPT ![s] = kv_cache[s]]
           /\ states = [states EXCEPT ![s] = states[s]]
           /\ engine_call = [engine_call EXCEPT ![s] = engine_call[s]]
           /\ done = [done EXCEPT ![s] = done[s]]
BY DEF RolloutInv

\* The seed clip's window is a context.
LEMMA SeedIsContext ==
    ASSUME config \in ConfigType
    PROVE  Context(SeedContext, config.context_frames)
<1> DEFINE n == config.context_frames
           keep == IF config.reset_context_frames = 0 THEN n ELSE config.reset_context_frames
           cap == IF keep < n THEN keep ELSE n
           clip == [i \in 1 .. EncodedFrames |-> [seed |-> i]]
<1>1. n \in Nat \ {0} /\ config.reset_context_frames \in Nat /\ EncodedFrames \in Nat \ {0}
  BY RolloutAssumption DEF ConfigType
<1>2. cap \in Nat \ {0} /\ cap <= n
  BY <1>1
<1>3. IsSeq(clip) /\ Len(clip) = EncodedFrames
  <2>1. clip \in [1 .. EncodedFrames -> {[seed |-> i] : i \in 1 .. EncodedFrames}]
    OBVIOUS
  <2>2. clip \in Seq({[seed |-> i] : i \in 1 .. EncodedFrames})
    <3>1. clip \in UNION {[1 .. k -> {[seed |-> i] : i \in 1 .. EncodedFrames}] : k \in Nat}
      BY <1>1, <2>1
    <3>2. QED  BY <3>1, SeqDef
  <2>3. Len(clip) \in Nat /\ DOMAIN clip = 1 .. Len(clip) /\ DOMAIN clip = 1 .. EncodedFrames
    BY <2>1, <2>2, LenProperties
  <2> HIDE DEF clip
  <2>4. Len(clip) = EncodedFrames
    <3>1. EncodedFrames \in 1 .. Len(clip)
      BY <1>1, <2>3
    <3>2. Len(clip) \in 1 .. EncodedFrames
      BY <1>1, <2>3, <3>1
    <3>3. Len(clip) \in Nat /\ EncodedFrames \in Nat
      BY <1>1, <2>3
    <3>4. EncodedFrames <= Len(clip) /\ Len(clip) <= EncodedFrames
      BY <3>1, <3>2, <3>3
    <3>5. QED  BY <3>3, <3>4
  <2>5. QED  BY <2>2, <2>4 DEF IsSeq
<1>4. SeedContext = LastFrames(clip, cap)
  BY DEF SeedContext
<1> HIDE DEF n, keep, cap, clip
<1>5. IsSeq(LastFrames(clip, cap)) /\ Len(LastFrames(clip, cap)) \in 1 .. cap
  <2>1. CASE Len(clip) <= cap
    BY <1>1, <1>2, <1>3, <2>1 DEF LastFrames
  <2>2. CASE ~ (Len(clip) <= cap)
    <3>1. /\ Len(clip) - cap + 1 \in Int /\ Len(clip) \in Int /\ 1 <= Len(clip) - cap + 1
          /\ Len(clip) - cap + 1 <= Len(clip) /\ Len(clip) - (Len(clip) - cap + 1) + 1 = cap
      BY <1>1, <1>2, <1>3, <2>2
    <3>2. /\ IsSeq(SubSeq(clip, Len(clip) - cap + 1, Len(clip)))
          /\ Len(SubSeq(clip, Len(clip) - cap + 1, Len(clip))) = cap
      BY <1>3, <3>1, SubSeqAny
    <3>3. LastFrames(clip, cap) = SubSeq(clip, Len(clip) - cap + 1, Len(clip))
      BY <2>2 DEF LastFrames
    <3>4. QED  BY <1>2, <3>2, <3>3
  <2>3. QED  BY <2>1, <2>2
<1>6. QED  BY <1>1, <1>2, <1>4, <1>5 DEF Context, n

(***************************************************************************)
(* One step from a context                                                 *)
(***************************************************************************)
\* The cache a step starts from: the entry that is in sync, or a new one.
LEMMA CacheForFacts ==
    ASSUME config \in ConfigType, NEW s \in Sessions,
           kv_cache[s] # NoEntry => CacheOf(kv_cache[s], config),
           NEW ctx, Context(ctx, config.context_frames)
    PROVE  /\ IsSeq(CacheFor(s, ctx).layer_kv) /\ \E f : CacheFor(s, ctx).pending = <<f>>
           /\ Len(CacheFor(s, ctx).layer_kv) + 1 = Len(ctx)
           /\ \/ CacheFor(s, ctx) = InitCache(ctx)
              \/ config.kv_evict_policy = "slide" /\ WindowFull(ctx)
<1>1. CASE InSync(s, ctx)
  <2>1. kv_cache[s] # NoEntry /\ kv_cache[s].last_context = ctx
    BY <1>1 DEF InSync
  <2>2. CacheFor(s, ctx) = kv_cache[s].cache
    BY <1>1 DEF CacheFor
  <2>3. QED  BY <2>1, <2>2 DEF CacheOf, Slides, WindowFull
<1>2. CASE ~ InSync(s, ctx)
  <2>1. CacheFor(s, ctx) = InitCache(ctx)
    BY <1>2 DEF CacheFor
  <2>2. IsSeq(ctx) /\ Len(ctx) >= 1 /\ Len(ctx) \in Nat
    BY DEF Context
  <2>3. /\ InitCache(ctx).layer_kv = PrefixKV(ctx)
        /\ InitCache(ctx).pending = <<Last(ctx)>>
    BY DEF InitCache
  <2>4. IsSeq(PrefixKV(ctx)) /\ Len(PrefixKV(ctx)) = Len(ctx) - 1
    BY <2>2, PrefixKVFacts
  <2>5. QED  BY <2>1, <2>2, <2>3, <2>4
<1>3. QED  BY <1>1, <1>2

\* The next frame is the full forward's, whichever path computes it.
LEMMA NextFrameIsExact ==
    ASSUME config \in ConfigType, NEW s \in Sessions,
           kv_cache[s] # NoEntry => CacheOf(kv_cache[s], config),
           NEW ctx, Context(ctx, config.context_frames), NEW a
    PROVE  \/ NextFrame(s, ctx, a) = FullForward(ctx, a)
           \/ Slides(config) /\ Capable(config) /\ Len(ctx) >= config.context_frames
<1>1. CASE CachedPath(s, ctx)
  <2>1. NextFrame(s, ctx, a) = Advance(CacheFor(s, ctx), a)
    BY <1>1 DEF NextFrame
  <2>2. Advance(InitCache(ctx), a) = FullForward(ctx, a)
    BY DEF Advance, InitCache, FullForward
  <2>3. \/ CacheFor(s, ctx) = InitCache(ctx)
        \/ config.kv_evict_policy = "slide" /\ WindowFull(ctx)
    BY CacheForFacts
  <2>4. CASE CacheFor(s, ctx) = InitCache(ctx)
    BY <2>1, <2>2, <2>4
  <2>5. CASE config.kv_evict_policy = "slide" /\ WindowFull(ctx)
    BY <1>1, <2>5 DEF CachedPath, CacheCapable, Slides, Capable, WindowFull
  <2>6. QED  BY <2>3, <2>4, <2>5
<1>2. CASE ~ CachedPath(s, ctx)
  BY <1>2 DEF NextFrame
<1>3. QED  BY <1>1, <1>2

\* What _sync_kv_cache leaves behind: the cache grows by the frame committed,
\* and a slide gives one back.
LEMMA SyncedEntryOK ==
    ASSUME config \in ConfigType, NEW s \in Sessions,
           kv_cache[s] # NoEntry => CacheOf(kv_cache[s], config),
           NEW ctx, Context(ctx, config.context_frames), NEW frame,
           CachedPath(s, ctx), ~ EvictRaises(s, ctx),
           NEW k, k = SyncedEntry(s, ctx, frame), k # NoEntry
    PROVE  CacheOf(k, config)
<1>1. PICK n : n = config.context_frames
  OBVIOUS
<1>2. n \in Nat \ {0} /\ config.kv_sink_frames \in Nat
      /\ config.kv_evict_policy \in {"reinit", "slide"}
  BY <1>1 DEF ConfigType
<1>3. IsSeq(ctx) /\ Len(ctx) \in 1 .. n /\ Len(ctx) \in Nat
  BY <1>1, <1>2 DEF Context
<1>4. PICK old : old = CacheFor(s, ctx)
  OBVIOUS
<1>5. PICK kv, p : kv = old.layer_kv /\ old.pending = <<p>>
  BY <1>4, CacheForFacts
<1>6. IsSeq(kv) /\ Len(kv) + 1 = Len(ctx) /\ Len(kv) \in Nat
  <2>1. IsSeq(kv) /\ Len(kv) + 1 = Len(ctx)
    BY <1>4, <1>5, CacheForFacts
  <2>2. QED  BY <2>1, AppendAny
<1>7. PICK e : e = Append(IF kv = <<>> THEN <<>> ELSE Last(kv), p)
  OBVIOUS
<1>8. Commit(old) = [layer_kv |-> Append(kv, e), pending |-> <<>>]
  BY <1>5, <1>7 DEF Commit
<1>9. PICK grown : grown = Append(kv, e)
  OBVIOUS
<1>10. IsSeq(grown) /\ Len(grown) = Len(ctx) /\ Len(grown) \in Nat
  BY <1>3, <1>6, <1>9, AppendAny
<1>11. AppendFrame(Commit(old), frame) = [layer_kv |-> grown, pending |-> <<frame>>]
  BY <1>8, <1>9, AppendFrameFields
<1>12. PICK w : w = Window(ctx, frame)
  OBVIOUS
<1>13. /\ Context(w, n) /\ Len(w) = IF Len(ctx) < n THEN Len(ctx) + 1 ELSE n
       /\ Len(ctx) < n => w = Append(ctx, frame)
  BY <1>1, <1>2, <1>3, <1>12, LastFramesFacts DEF Window
<1>14. CASE ~ WindowFull(ctx)
  <2>1. k = Entry([layer_kv |-> grown, pending |-> <<frame>>], w)
    BY <1>4, <1>11, <1>12, <1>14 DEF SyncedEntry
  <2>2. /\ k.cache = [layer_kv |-> grown, pending |-> <<frame>>] /\ k.last_context = w
        /\ k.cache.layer_kv = grown /\ k.cache.pending = <<frame>>
    BY <2>1 DEF Entry
  <2>3. Len(ctx) < n
    BY <1>1, <1>2, <1>3, <1>14 DEF WindowFull
  <2>4. old = InitCache(ctx)
    BY <1>4, <1>14, CacheForFacts
  <2>5. k.cache = InitCache(w)
    <3>1. AppendFrame(Commit(InitCache(ctx)), frame) = InitCache(Append(ctx, frame))
      BY <1>3, CommitIsExact
    <3>2. QED  BY <1>11, <1>13, <2>2, <2>3, <2>4, <3>1
  <2>6. Len(grown) + 1 = Len(w)
    BY <1>10, <1>13, <2>3
  <2>7. QED  BY <1>1, <1>10, <1>13, <2>2, <2>5, <2>6 DEF CacheOf
<1>15. CASE WindowFull(ctx)
  <2>1. Len(ctx) = n
    BY <1>1, <1>2, <1>3, <1>15 DEF WindowFull
  <2>2. config.kv_evict_policy = "slide"
    BY <1>2, <1>15 DEF SyncedEntry
  <2>3. PICK sink : sink = config.kv_sink_frames
    OBVIOUS
  <2>4. sink \in Nat /\ sink < Len(grown)
    <3>1. Commit(old).layer_kv = grown
      BY <1>8, <1>9
    <3>2. QED  BY <1>2, <1>4, <1>10, <1>15, <2>2, <2>3, <3>1 DEF EvictRaises
  <2>5. PICK slid : slid = SubSeq(grown, 1, sink) \o SubSeq(grown, sink + 2, Len(grown))
    OBVIOUS
  <2>6. Evict([layer_kv |-> grown, pending |-> <<frame>>], sink)
            = [layer_kv |-> slid, pending |-> <<frame>>]
    BY <2>5, EvictFields
  <2>7. k = Entry([layer_kv |-> slid, pending |-> <<frame>>], w)
    BY <1>4, <1>11, <1>12, <1>15, <2>2, <2>3, <2>6 DEF SyncedEntry
  <2>8. /\ k.cache.layer_kv = slid /\ k.cache.pending = <<frame>> /\ k.last_context = w
    BY <2>7 DEF Entry
  <2>9. IsSeq(slid) /\ Len(slid) + 1 = Len(grown)
    <3>1. PICK S : grown \in Seq(S)
      BY <1>10 DEF IsSeq
    <3>2. /\ sink \in Int /\ sink + 2 \in Int /\ Len(grown) \in Int /\ 1 \in Int
          /\ DOMAIN grown = 1 .. Len(grown)
      BY <1>10, <2>4, <3>1, LenProperties
    <3>3. \A i \in 1 .. Len(grown) : grown[i] \in S
      BY <3>1, ElementOfSeq
    <3>4. /\ \A i \in 1 .. sink : grown[i] \in S
          /\ \A i \in sink + 2 .. Len(grown) : grown[i] \in S
      BY <1>10, <2>4, <3>3
    <3>5. SubSeq(grown, 1, sink) \in Seq(S) /\ Len(SubSeq(grown, 1, sink)) = sink
      <4>1. SubSeq(grown, 1, sink) \in Seq(S)
        BY <3>2, <3>4, SubSeqProperties
      <4>2. Len(SubSeq(grown, 1, sink)) = IF 1 <= sink THEN sink - 1 + 1 ELSE 0
        BY <3>2, <3>4, SubSeqProperties
      <4>3. QED  BY <2>4, <4>1, <4>2
    <3>6. /\ SubSeq(grown, sink + 2, Len(grown)) \in Seq(S)
          /\ Len(SubSeq(grown, sink + 2, Len(grown))) = Len(grown) - (sink + 1)
      <4>1. SubSeq(grown, sink + 2, Len(grown)) \in Seq(S)
        BY <3>2, <3>4, SubSeqProperties
      <4>2. Len(SubSeq(grown, sink + 2, Len(grown)))
              = IF sink + 2 <= Len(grown) THEN Len(grown) - (sink + 2) + 1 ELSE 0
        BY <3>2, <3>4, SubSeqProperties
      <4>3. QED  BY <1>10, <2>4, <4>1, <4>2
    <3>7. slid \in Seq(S) /\ Len(slid) = sink + (Len(grown) - (sink + 1))
      BY <2>5, <3>5, <3>6, ConcatProperties
    <3>8. QED  BY <1>10, <2>4, <3>7 DEF IsSeq
  <2>10. Len(w) = n /\ Len(w) >= n
    BY <1>2, <1>13, <2>1
  <2>11. QED  BY <1>1, <1>10, <1>13, <2>1, <2>2, <2>8, <2>9, <2>10 DEF CacheOf, Slides
<1>16. QED  BY <1>14, <1>15

LEMMA EntryAfterOK ==
    ASSUME config \in ConfigType, NEW s \in Sessions,
           kv_cache[s] # NoEntry => CacheOf(kv_cache[s], config),
           NEW ctx, Context(ctx, config.context_frames), NEW frame, ~ EvictRaises(s, ctx),
           NEW k, k = EntryAfter(s, ctx, frame), k # NoEntry
    PROVE  CacheOf(k, config)
<1>1. CASE CachedPath(s, ctx)
  <2>1. k = SyncedEntry(s, ctx, frame)
    BY <1>1 DEF EntryAfter
  <2>2. QED  BY <1>1, <2>1, SyncedEntryOK
<1>2. CASE ~ CachedPath(s, ctx)
  BY <1>2 DEF EntryAfter
<1>3. QED  BY <1>1, <1>2

(***************************************************************************)
(* Every action keeps the invariant                                        *)
(***************************************************************************)
\* The parts of a session that an action leaves alone.
LEMMA SessionParts ==
    ASSUME RolloutInv, NEW s \in Sessions
    PROVE  /\ config \in ConfigType /\ config.context_frames \in Nat \ {0}
           /\ kv_cache[s] # NoEntry => CacheOf(kv_cache[s], config) /\ engine_call[s].pc # "closed"
           /\ \A ctx \in states[s] : Context(ctx, config.context_frames)
           /\ CallOK(engine_call[s], config) /\ DoneOK(done[s], config)
<1>1. config \in ConfigType
  BY DEF RolloutInv
<1>2. config.context_frames \in Nat \ {0}
  BY <1>1 DEF ConfigType
<1>3. SessionOK(config, kv_cache[s], states[s], engine_call[s], done[s])
  BY DEF RolloutInv
<1>4. QED  BY <1>1, <1>2, <1>3 DEF SessionOK

\* What an update of one field of a call builds.
LEMMA OneField ==
    ASSUME NEW p, NEW o, NEW b, NEW q, NEW x, NEW w, NEW n, NEW v, NEW e, NEW y,
           NEW c, c = [pc |-> p, op |-> o, base |-> b, seq |-> q, ctx |-> x, todo |-> w,
                        candidates |-> n, saved |-> v, failed |-> e]
    PROVE  /\ [c EXCEPT !.pc = y] = [pc |-> y, op |-> o, base |-> b, seq |-> q, ctx |-> x, todo |-> w,
                                     candidates |-> n, saved |-> v, failed |-> e]
           /\ [c EXCEPT !.op = y] = [pc |-> p, op |-> y, base |-> b, seq |-> q, ctx |-> x, todo |-> w,
                                     candidates |-> n, saved |-> v, failed |-> e]
           /\ [c EXCEPT !.base = y] = [pc |-> p, op |-> o, base |-> y, seq |-> q, ctx |-> x, todo |-> w,
                                       candidates |-> n, saved |-> v, failed |-> e]
           /\ [c EXCEPT !.seq = y] = [pc |-> p, op |-> o, base |-> b, seq |-> y, ctx |-> x, todo |-> w,
                                      candidates |-> n, saved |-> v, failed |-> e]
           /\ [c EXCEPT !.ctx = y] = [pc |-> p, op |-> o, base |-> b, seq |-> q, ctx |-> y, todo |-> w,
                                      candidates |-> n, saved |-> v, failed |-> e]
           /\ [c EXCEPT !.todo = y] = [pc |-> p, op |-> o, base |-> b, seq |-> q, ctx |-> x, todo |-> y,
                                       candidates |-> n, saved |-> v, failed |-> e]
           /\ [c EXCEPT !.candidates = y] = [pc |-> p, op |-> o, base |-> b, seq |-> q, ctx |-> x, todo |-> w,
                                             candidates |-> y, saved |-> v, failed |-> e]
           /\ [c EXCEPT !.saved = y] = [pc |-> p, op |-> o, base |-> b, seq |-> q, ctx |-> x, todo |-> w,
                                        candidates |-> n, saved |-> y, failed |-> e]
           /\ [c EXCEPT !.failed = y] = [pc |-> p, op |-> o, base |-> b, seq |-> q, ctx |-> x, todo |-> w,
                                         candidates |-> n, saved |-> v, failed |-> y]
BY Z3

\* What the updates of a call build.
LEMMA CallFields ==
    ASSUME NEW c, NEW cfg, CallOK(c, cfg), NEW where, NEW kept, NEW raised
    PROVE  /\ [c EXCEPT !.pc = where, !.saved = kept]
               = [pc |-> where, op |-> c.op, base |-> c.base, seq |-> c.seq, ctx |-> c.ctx,
                  todo |-> c.todo, candidates |-> c.candidates, saved |-> kept,
                  failed |-> c.failed]
           /\ [c EXCEPT !.pc = where, !.failed = raised]
               = [pc |-> where, op |-> c.op, base |-> c.base, seq |-> c.seq, ctx |-> c.ctx,
                  todo |-> c.todo, candidates |-> c.candidates, saved |-> c.saved,
                  failed |-> raised]
           /\ [c EXCEPT !.pc = where]
               = [pc |-> where, op |-> c.op, base |-> c.base, seq |-> c.seq, ctx |-> c.ctx,
                  todo |-> c.todo, candidates |-> c.candidates, saved |-> c.saved,
                  failed |-> c.failed]
<1>1. c = [pc |-> c.pc, op |-> c.op, base |-> c.base, seq |-> c.seq, ctx |-> c.ctx,
           todo |-> c.todo, candidates |-> c.candidates, saved |-> c.saved, failed |-> c.failed]
  BY DEF CallOK
<1>2. PICK d : d = [c EXCEPT !.pc = where]
  OBVIOUS
<1>3. d = [pc |-> where, op |-> c.op, base |-> c.base, seq |-> c.seq, ctx |-> c.ctx,
           todo |-> c.todo, candidates |-> c.candidates, saved |-> c.saved, failed |-> c.failed]
  BY <1>1, <1>2, OneField
<1>4. [d EXCEPT !.saved = kept]
        = [pc |-> where, op |-> c.op, base |-> c.base, seq |-> c.seq, ctx |-> c.ctx,
           todo |-> c.todo, candidates |-> c.candidates, saved |-> kept, failed |-> c.failed]
  BY <1>3, Z3
<1>5. [d EXCEPT !.failed = raised]
        = [pc |-> where, op |-> c.op, base |-> c.base, seq |-> c.seq, ctx |-> c.ctx,
           todo |-> c.todo, candidates |-> c.candidates, saved |-> c.saved, failed |-> raised]
  BY <1>3, Z3
<1>6. QED  BY <1>2, <1>3, <1>4, <1>5, Zenon

\* The guard and the forward move a call on and leave its rollout alone.
LEMMA MovesOn ==
    ASSUME NEW c, NEW cfg, CallOK(c, cfg), InRollout(c, cfg), NEW where, NEW kept, NEW raised,
           NEW d, d = [pc |-> where, op |-> c.op, base |-> c.base, seq |-> c.seq, ctx |-> c.ctx,
                       todo |-> c.todo, candidates |-> c.candidates, saved |-> kept,
                       failed |-> raised]
    PROVE  CallOK(d, cfg) /\ d.pc = where
<1>1. /\ d.pc = where /\ d.op = c.op /\ d.base = c.base /\ d.seq = c.seq /\ d.ctx = c.ctx
      /\ d.todo = c.todo /\ d.candidates = c.candidates /\ d.saved = kept /\ d.failed = raised
  OBVIOUS
<1>2. InRollout(d, cfg)
  BY <1>1 DEF InRollout, Exact
<1>3. d = [pc |-> d.pc, op |-> d.op, base |-> d.base, seq |-> d.seq, ctx |-> d.ctx,
           todo |-> d.todo, candidates |-> d.candidates, saved |-> d.saved, failed |-> d.failed]
  BY <1>1
<1>4. QED  BY <1>1, <1>2, <1>3 DEF CallOK

\* A rollout starts at its base.
LEMMA StartsExact ==
    ASSUME NEW c, NEW cfg, cfg.context_frames \in Nat \ {0},
           c = [pc |-> c.pc, op |-> c.op, base |-> c.base, seq |-> c.seq, ctx |-> c.ctx,
                todo |-> c.todo, candidates |-> c.candidates, saved |-> c.saved,
                failed |-> c.failed],
           Context(c.base, cfg.context_frames), c.ctx = c.base, c.todo = c.seq,
           NEW h \in Nat \ {0}, NEW A, c.seq \in [1 .. h -> A]
    PROVE  CallOK(c, cfg)
<1>1. c.seq \in Seq(A) /\ Len(c.seq) = h
  <2>1. c.seq \in UNION {[1 .. k -> A] : k \in Nat}
    OBVIOUS
  <2>2. c.seq \in Seq(A)
    BY <2>1, SeqDef
  <2>3. Len(c.seq) \in Nat /\ DOMAIN c.seq = 1 .. Len(c.seq) /\ DOMAIN c.seq = 1 .. h
    BY <2>2, LenProperties
  <2>4. h \in 1 .. h
    OBVIOUS
  <2>5. h \in 1 .. Len(c.seq)
    BY <2>3, <2>4
  <2>6. Len(c.seq) \in 1 .. Len(c.seq)
    BY <2>3, <2>5
  <2>7. Len(c.seq) \in 1 .. h
    BY <2>3, <2>6
  <2>8. Len(c.seq) <= h /\ h <= Len(c.seq)
    BY <2>3, <2>5, <2>7
  <2>9. QED  BY <2>2, <2>3, <2>8
<1>2. /\ IsSeq(c.seq) /\ Len(c.seq) \in Nat /\ Len(c.seq) \in 1 .. Len(c.seq)
      /\ Len(c.seq) - Len(c.seq) = 0 /\ \A i \in 1 .. Len(c.seq) : 0 + i = i
  BY <1>1 DEF IsSeq
<1>3. After(cfg.context_frames, c.base, c.seq, 0) = c.base
  BY AfterSteps
<1>4. Len(c.base) \in Nat /\ Len(c.base) <= Len(c.base) + 0
  BY DEF Context
<1>5. InRollout(c, cfg)
  BY <1>2, <1>3, <1>4 DEF InRollout, Exact
<1>6. QED  BY <1>5 DEF CallOK

LEMMA RestsOK ==
    ASSUME NEW cfg
    PROVE  /\ CallOK(IdleCall, cfg) /\ IdleCall.pc = "idle"
           /\ CallOK(Closed, cfg) /\ Closed.pc = "closed"
<1>1. PICK c : c = IdleCall
  OBVIOUS
<1>2. PICK d : d = [c EXCEPT !.pc = "closed"]
  OBVIOUS
<1>3. /\ c = [pc |-> "idle", op |-> "none", base |-> <<>>, seq |-> <<>>, ctx |-> <<>>,
              todo |-> <<>>, candidates |-> 0, saved |-> <<>>, failed |-> FALSE]
      /\ d = [pc |-> "closed", op |-> "none", base |-> <<>>, seq |-> <<>>, ctx |-> <<>>,
              todo |-> <<>>, candidates |-> 0, saved |-> <<>>, failed |-> FALSE]
  BY <1>1, <1>2 DEF IdleCall
<1>4. CallOK(c, cfg) /\ c.pc = "idle" /\ CallOK(d, cfg) /\ d.pc = "closed"
  BY <1>3 DEF CallOK
<1>5. QED  BY <1>1, <1>2, <1>4 DEF Closed

\* reset()
LEMMA ResetKeeps ==
    ASSUME RolloutInv, NEW s \in Sessions, Reset(s)
    PROVE  RolloutInv'
<1>1. /\ kv_cache[s] # NoEntry => CacheOf(kv_cache[s], config)
      /\ DoneOK(done[s], config) /\ Context(SeedContext, config.context_frames)
  BY SessionParts, SeedIsContext
<1>2. SessionOK(config, kv_cache[s], {SeedContext}, IdleCall, done[s])
  BY <1>1, RestsOK DEF SessionOK
<1>3. /\ config' = config /\ kv_cache' = [kv_cache EXCEPT ![s] = kv_cache[s]]
      /\ states' = [states EXCEPT ![s] = {SeedContext}]
      /\ engine_call' = [engine_call EXCEPT ![s] = IdleCall]
      /\ done' = [done EXCEPT ![s] = done[s]]
  BY SameSession DEF Reset
<1>4. QED  BY <1>2, <1>3, OneSession

\* release()
LEMMA ReleaseKeeps ==
    ASSUME RolloutInv, NEW s \in Sessions, Release(s)
    PROVE  RolloutInv'
<1>1. /\ \A ctx \in states[s] : Context(ctx, config.context_frames)
      /\ DoneOK(done[s], config)
  BY SessionParts
<1>2. SessionOK(config, NoEntry, states[s], Closed, done[s])
  BY <1>1, RestsOK DEF SessionOK
<1>3. /\ config' = config /\ kv_cache' = [kv_cache EXCEPT ![s] = NoEntry]
      /\ states' = [states EXCEPT ![s] = states[s]]
      /\ engine_call' = [engine_call EXCEPT ![s] = Closed]
      /\ done' = [done EXCEPT ![s] = done[s]]
  BY SameSession DEF Release
<1>4. QED  BY <1>2, <1>3, OneSession

\* step() and plan() begin.
LEMMA StartKeeps ==
    ASSUME RolloutInv, NEW s \in Sessions, NEW op, NEW ctx \in states[s],
           NEW h \in Nat \ {0}, NEW seq \in [1 .. h -> Actions], Start(s, op, ctx, seq),
           config' = config, kv_cache' = kv_cache, states' = states, done' = done
    PROVE  RolloutInv'
<1>1. PICK c : c = [pc |-> "enter", op |-> op, base |-> ctx, seq |-> seq, ctx |-> ctx,
                    todo |-> seq, candidates |-> 0, saved |-> <<>>, failed |-> FALSE]
  OBVIOUS
<1>3. /\ c.pc = "enter" /\ c.op = op /\ c.base = ctx /\ c.seq = seq /\ c.ctx = ctx
      /\ c.todo = seq /\ c.candidates = 0 /\ c.saved = <<>> /\ c.failed = FALSE
  BY <1>1
<1>4. /\ kv_cache[s] # NoEntry => CacheOf(kv_cache[s], config)
      /\ \A d \in states[s] : Context(d, config.context_frames)
      /\ DoneOK(done[s], config) /\ config.context_frames \in Nat \ {0}
  BY SessionParts
<1>5. c = [pc |-> c.pc, op |-> c.op, base |-> c.base, seq |-> c.seq, ctx |-> c.ctx,
           todo |-> c.todo, candidates |-> c.candidates, saved |-> c.saved, failed |-> c.failed]
  BY <1>1, <1>3
<1>6. CallOK(c, config)
  <2>1. Context(c.base, config.context_frames)
    BY <1>3, <1>4
  <2>2. c.ctx = c.base /\ c.todo = c.seq /\ c.seq \in [1 .. h -> Actions]
    BY <1>3
  <2>3. QED  BY <1>4, <1>5, <2>1, <2>2, StartsExact
<1>7. SessionOK(config, kv_cache[s], states[s], c, done[s])
  BY <1>3, <1>4, <1>6 DEF SessionOK
<1>8. /\ config' = config /\ kv_cache' = [kv_cache EXCEPT ![s] = kv_cache[s]]
      /\ states' = [states EXCEPT ![s] = states[s]]
      /\ engine_call' = [engine_call EXCEPT ![s] = c]
      /\ done' = [done EXCEPT ![s] = done[s]]
  BY <1>1, SameSession DEF Start
<1>9. PICK k, st, z : k = kv_cache[s] /\ st = states[s] /\ z = done[s]
  OBVIOUS
<1>10. /\ kv_cache' = [kv_cache EXCEPT ![s] = k] /\ states' = [states EXCEPT ![s] = st]
       /\ done' = [done EXCEPT ![s] = z] /\ SessionOK(config, k, st, c, z)
  BY <1>7, <1>8, <1>9
<1>11. QED  BY <1>8, <1>10, OneSession

\* A call moves on and everything else stays.
LEMMA Moved ==
    ASSUME RolloutInv, NEW s \in Sessions, NEW c, c = engine_call[s], InRollout(c, config),
           NEW where, where # "closed", NEW kept, NEW raised,
           engine_call' = [engine_call EXCEPT ![s] =
               [pc |-> where, op |-> c.op, base |-> c.base, seq |-> c.seq, ctx |-> c.ctx,
                todo |-> c.todo, candidates |-> c.candidates, saved |-> kept,
                failed |-> raised]],
           config' = config, kv_cache' = kv_cache, states' = states, done' = done
    PROVE  RolloutInv'
<1>1. /\ kv_cache[s] # NoEntry => CacheOf(kv_cache[s], config)
      /\ \A d \in states[s] : Context(d, config.context_frames)
      /\ DoneOK(done[s], config) /\ CallOK(c, config)
  BY SessionParts
<1>2. PICK d :
        d = [pc |-> where, op |-> c.op, base |-> c.base, seq |-> c.seq, ctx |-> c.ctx,
             todo |-> c.todo, candidates |-> c.candidates, saved |-> kept, failed |-> raised]
  OBVIOUS
<1>3. CallOK(d, config) /\ d.pc # "closed"
  BY <1>1, <1>2, MovesOn
<1>4. SessionOK(config, kv_cache[s], states[s], d, done[s])
  BY <1>1, <1>3 DEF SessionOK
<1>5. /\ kv_cache' = [kv_cache EXCEPT ![s] = kv_cache[s]]
      /\ states' = [states EXCEPT ![s] = states[s]]
      /\ engine_call' = [engine_call EXCEPT ![s] = d]
      /\ done' = [done EXCEPT ![s] = done[s]]
  BY <1>2, SameSession
<1>6. PICK k, st, z : k = kv_cache[s] /\ st = states[s] /\ z = done[s]
  OBVIOUS
<1>7. /\ kv_cache' = [kv_cache EXCEPT ![s] = k] /\ states' = [states EXCEPT ![s] = st]
      /\ done' = [done EXCEPT ![s] = z] /\ SessionOK(config, k, st, d, z)
  BY <1>4, <1>5, <1>6
<1>8. QED  BY <1>5, <1>7, OneSession

\* The guard, the forward and the guard again.
LEMMA GuardKeeps ==
    ASSUME RolloutInv, NEW s \in Sessions, GuardEnter(s) \/ Forward(s) \/ GuardExit(s)
    PROVE  RolloutInv'
<1>1. PICK c : c = engine_call[s]
  OBVIOUS
<1>2. CallOK(c, config)
  BY <1>1, SessionParts
<1>3. InRollout(c, config)
  <2>1. c.pc \in {"enter", "forward", "exit"}
    BY <1>1 DEF GuardEnter, Forward, GuardExit, CallAt
  <2>2. QED  BY <1>2, <2>1 DEF CallOK
<1>4. config' = config /\ kv_cache' = kv_cache /\ states' = states /\ done' = done
  BY DEF GuardEnter, Forward, GuardExit
<1>5. CASE GuardEnter(s)
  <2>1. PICK d : d = [c EXCEPT !.pc = "forward", !.saved = sdpa]
    OBVIOUS
  <2>2. engine_call' = [engine_call EXCEPT ![s] = d]
    BY <1>1, <1>5, <2>1 DEF GuardEnter
  <2>3. d = [pc |-> "forward", op |-> c.op, base |-> c.base, seq |-> c.seq, ctx |-> c.ctx,
             todo |-> c.todo, candidates |-> c.candidates, saved |-> sdpa, failed |-> c.failed]
    BY <1>2, <2>1, CallFields
  <2>4. QED  BY <1>1, <1>3, <1>4, <2>2, <2>3, Moved
<1>6. CASE Forward(s)
  <2>1. PICK raised : engine_call' = [engine_call EXCEPT ![s] =
                                        [c EXCEPT !.pc = "exit", !.failed = raised]]
    BY <1>1, <1>6 DEF Forward
  <2>2. PICK d : d = [c EXCEPT !.pc = "exit", !.failed = raised]
    OBVIOUS
  <2>3. engine_call' = [engine_call EXCEPT ![s] = d]
    BY <2>1, <2>2
  <2>4. d = [pc |-> "exit", op |-> c.op, base |-> c.base, seq |-> c.seq, ctx |-> c.ctx,
             todo |-> c.todo, candidates |-> c.candidates, saved |-> c.saved,
             failed |-> raised]
    BY <1>2, <2>2, CallFields
  <2>5. QED  BY <1>1, <1>3, <1>4, <2>3, <2>4, Moved
<1>7. CASE GuardExit(s)
  <2>1. PICK d : d = [c EXCEPT !.pc = "apply"]
    OBVIOUS
  <2>2. engine_call' = [engine_call EXCEPT ![s] = d]
    BY <1>1, <1>7, <2>1 DEF GuardExit
  <2>3. d = [pc |-> "apply", op |-> c.op, base |-> c.base, seq |-> c.seq, ctx |-> c.ctx,
             todo |-> c.todo, candidates |-> c.candidates, saved |-> c.saved,
             failed |-> c.failed]
    BY <1>2, <2>1, CallFields
  <2>4. QED  BY <1>1, <1>3, <1>4, <2>2, <2>3, Moved
<1>8. QED  BY <1>5, <1>6, <1>7

\* An exception leaves the call, and at most drops the entry.
LEMMA CallRaisesKeeps ==
    ASSUME RolloutInv, NEW s \in Sessions, CallRaises(s)
    PROVE  RolloutInv'
<1>1. /\ kv_cache[s] # NoEntry => CacheOf(kv_cache[s], config)
      /\ \A ctx \in states[s] : Context(ctx, config.context_frames)
      /\ DoneOK(done[s], config)
  BY SessionParts
<1>2. kv_cache = [kv_cache EXCEPT ![s] = kv_cache[s]]
  BY SameSession
<1>3. \/ kv_cache' = [kv_cache EXCEPT ![s] = NoEntry]
      \/ kv_cache' = kv_cache
  BY DEF CallRaises
<1>4. PICK k : k \in {NoEntry, kv_cache[s]} /\ kv_cache' = [kv_cache EXCEPT ![s] = k]
  BY <1>2, <1>3
<1>5. PICK st, c, z : st = states[s] /\ c = IdleCall /\ z = done[s]
  OBVIOUS
<1>6. SessionOK(config, k, st, c, z)
  BY <1>1, <1>4, <1>5, RestsOK DEF SessionOK
<1>7. /\ config' = config /\ states' = [states EXCEPT ![s] = st]
      /\ engine_call' = [engine_call EXCEPT ![s] = c] /\ done' = [done EXCEPT ![s] = z]
  BY <1>5, SameSession DEF CallRaises
<1>8. QED  BY <1>4, <1>6, <1>7, OneSession

\* The next candidate of a plan, and the next step of a rollout.
NextCandidate(c, q, x, n) ==
    [c EXCEPT !.pc = "enter", !.seq = q, !.todo = q, !.ctx = x, !.candidates = n]
NextStep(c, q, x) == [c EXCEPT !.pc = "enter", !.ctx = x, !.todo = q]

LEMMA CandidateFields ==
    ASSUME NEW c, NEW cfg, CallOK(c, cfg), NEW q, NEW x, NEW n
    PROVE  /\ NextCandidate(c, q, x, n)
               = [pc |-> "enter", op |-> c.op, base |-> c.base, seq |-> q, ctx |-> x,
                  todo |-> q, candidates |-> n, saved |-> c.saved, failed |-> c.failed]
           /\ NextStep(c, q, x)
               = [pc |-> "enter", op |-> c.op, base |-> c.base, seq |-> c.seq, ctx |-> x,
                  todo |-> q, candidates |-> c.candidates, saved |-> c.saved,
                  failed |-> c.failed]
<1>1. c = [pc |-> c.pc, op |-> c.op, base |-> c.base, seq |-> c.seq, ctx |-> c.ctx,
           todo |-> c.todo, candidates |-> c.candidates, saved |-> c.saved, failed |-> c.failed]
  BY DEF CallOK
<1>2. PICK o, b, sq, cx, td, cd, v, e :
        /\ o = c.op /\ b = c.base /\ sq = c.seq /\ cx = c.ctx /\ td = c.todo
        /\ cd = c.candidates /\ v = c.saved /\ e = c.failed
  OBVIOUS
<1>3. PICK c1 : c1 = [c EXCEPT !.pc = "enter"]
  OBVIOUS
<1>4. c1 = [pc |-> "enter", op |-> o, base |-> b, seq |-> sq, ctx |-> cx, todo |-> td,
            candidates |-> cd, saved |-> v, failed |-> e]
  BY <1>1, <1>2, <1>3, Z3
<1>5. PICK c2 : c2 = [c1 EXCEPT !.seq = q]
  OBVIOUS
<1>6. c2 = [pc |-> "enter", op |-> o, base |-> b, seq |-> q, ctx |-> cx, todo |-> td,
            candidates |-> cd, saved |-> v, failed |-> e]
  BY <1>4, <1>5, Z3
<1>7. PICK c3 : c3 = [c2 EXCEPT !.todo = q]
  OBVIOUS
<1>8. c3 = [pc |-> "enter", op |-> o, base |-> b, seq |-> q, ctx |-> cx, todo |-> q,
            candidates |-> cd, saved |-> v, failed |-> e]
  BY <1>6, <1>7, Z3
<1>9. PICK c4 : c4 = [c3 EXCEPT !.ctx = x]
  OBVIOUS
<1>10. c4 = [pc |-> "enter", op |-> o, base |-> b, seq |-> q, ctx |-> x, todo |-> q,
             candidates |-> cd, saved |-> v, failed |-> e]
  BY <1>8, <1>9, Z3
<1>11. [c4 EXCEPT !.candidates = n]
         = [pc |-> "enter", op |-> o, base |-> b, seq |-> q, ctx |-> x, todo |-> q,
            candidates |-> n, saved |-> v, failed |-> e]
  BY <1>10, Z3
<1>12. PICK c5 : c5 = [c1 EXCEPT !.ctx = x]
  OBVIOUS
<1>13. c5 = [pc |-> "enter", op |-> o, base |-> b, seq |-> sq, ctx |-> x, todo |-> td,
             candidates |-> cd, saved |-> v, failed |-> e]
  BY <1>4, <1>12, Z3
<1>14. [c5 EXCEPT !.todo = q]
         = [pc |-> "enter", op |-> o, base |-> b, seq |-> sq, ctx |-> x, todo |-> q,
            candidates |-> cd, saved |-> v, failed |-> e]
  BY <1>13, Z3
<1>15. NextCandidate(c, q, x, n) = [c4 EXCEPT !.candidates = n]
  BY <1>3, <1>5, <1>7, <1>9, Zenon DEF NextCandidate
<1>16. NextStep(c, q, x) = [c5 EXCEPT !.todo = q]
  BY <1>3, <1>12, Zenon DEF NextStep
<1>17. QED  BY <1>2, <1>11, <1>14, <1>15, <1>16, Zenon

\* What a completed rollout leads to.
LEMMA CompleteKeeps ==
    ASSUME RolloutInv, NEW s \in Sessions, NEW c, c = engine_call[s], InRollout(c, config),
           NEW ctx, Context(ctx, config.context_frames), NEW frame, Complete(s, ctx, frame),
           NEW z, z = [base |-> c.base, seq |-> c.seq, terminal |-> frame], DoneOK(z, config),
           NEW k, k # NoEntry => CacheOf(k, config), kv_cache' = [kv_cache EXCEPT ![s] = k],
           config' = config
    PROVE  RolloutInv'
<1>1. /\ \A d \in states[s] : Context(d, config.context_frames)
      /\ CallOK(c, config) /\ config.context_frames \in Nat \ {0}
  BY SessionParts
<1>2. done' = [done EXCEPT ![s] = z]
  BY DEF Complete
<1>3. CASE c.op = "step" /\ states' = [states EXCEPT ![s] = @ \cup {ctx}]
           /\ engine_call' = [engine_call EXCEPT ![s] = IdleCall]
  <2>1. PICK st, i : st = states[s] \cup {ctx} /\ i = IdleCall
    OBVIOUS
  <2>2. SessionOK(config, k, st, i, z)
    BY <1>1, <2>1, RestsOK DEF SessionOK
  <2>3. states' = [states EXCEPT ![s] = st] /\ engine_call' = [engine_call EXCEPT ![s] = i]
    BY <1>3, <2>1
  <2>4. QED  BY <1>2, <2>2, <2>3, OneSession
<1>4. CASE states' = states /\ \E seq \in [1 .. Len(c.seq) -> Actions] :
             engine_call' = [engine_call EXCEPT ![s] =
                 [c EXCEPT !.pc = "enter", !.seq = seq, !.todo = seq,
                           !.ctx = c.base, !.candidates = @ + 1]]
  <2>1. PICK seq \in [1 .. Len(c.seq) -> Actions] :
             engine_call' = [engine_call EXCEPT ![s] =
                 [c EXCEPT !.pc = "enter", !.seq = seq, !.todo = seq,
                           !.ctx = c.base, !.candidates = @ + 1]]
    BY <1>4
  <2>2. PICK d : d = [c EXCEPT !.pc = "enter", !.seq = seq, !.todo = seq, !.ctx = c.base,
                               !.candidates = c.candidates + 1]
    OBVIOUS
  <2>3. engine_call' = [engine_call EXCEPT ![s] = d]
    <3>1. c = [pc |-> c.pc, op |-> c.op, base |-> c.base, seq |-> c.seq, ctx |-> c.ctx,
               todo |-> c.todo, candidates |-> c.candidates, saved |-> c.saved,
               failed |-> c.failed]
      BY <1>1 DEF CallOK
    <3>2. QED  BY <2>1, <2>2, <3>1
  <2>4. d = [pc |-> "enter", op |-> c.op, base |-> c.base, seq |-> seq, ctx |-> c.base,
             todo |-> seq, candidates |-> c.candidates + 1, saved |-> c.saved,
             failed |-> c.failed]
    <3>1. PICK x, n : x = c.base /\ n = c.candidates + 1
      OBVIOUS
    <3>2. d = NextCandidate(c, seq, x, n)
      BY <2>2, <3>1, Zenon DEF NextCandidate
    <3>3. d = [pc |-> "enter", op |-> c.op, base |-> c.base, seq |-> seq, ctx |-> x,
               todo |-> seq, candidates |-> n, saved |-> c.saved, failed |-> c.failed]
      BY <1>1, <3>2, CandidateFields
    <3>4. QED  BY <3>1, <3>3
  <2>5. /\ d.pc = "enter" /\ d.op = c.op /\ d.base = c.base /\ d.seq = seq
        /\ d.ctx = c.base /\ d.todo = seq /\ d.candidates = c.candidates + 1
        /\ d.saved = c.saved /\ d.failed = c.failed
    BY <2>4
  <2>6. d = [pc |-> d.pc, op |-> d.op, base |-> d.base, seq |-> d.seq, ctx |-> d.ctx,
             todo |-> d.todo, candidates |-> d.candidates, saved |-> d.saved,
             failed |-> d.failed]
    BY <2>4, <2>5
  <2>7. PICK h : h = Len(c.seq)
    OBVIOUS
  <2>8. h \in Nat \ {0} /\ d.seq \in [1 .. h -> Actions]
    BY <2>5, <2>7 DEF InRollout
  <2>9. Context(d.base, config.context_frames) /\ d.ctx = d.base /\ d.todo = d.seq
    BY <2>5 DEF InRollout
  <2>10. CallOK(d, config)
    BY <1>1, <2>6, <2>8, <2>9, StartsExact
  <2>11. PICK st : st = states[s]
    OBVIOUS
  <2>12. SessionOK(config, k, st, d, z)
    BY <1>1, <2>5, <2>10, <2>11 DEF SessionOK
  <2>13. states' = [states EXCEPT ![s] = st]
    BY <1>4, <2>11, SameSession
  <2>14. QED  BY <1>2, <2>3, <2>12, <2>13, OneSession
<1>5. CASE states' = states /\ engine_call' = [engine_call EXCEPT ![s] = IdleCall]
  <2>1. PICK st, i : st = states[s] /\ i = IdleCall
    OBVIOUS
  <2>2. SessionOK(config, k, st, i, z)
    BY <1>1, <2>1, RestsOK DEF SessionOK
  <2>3. states' = [states EXCEPT ![s] = st] /\ engine_call' = [engine_call EXCEPT ![s] = i]
    BY <1>5, <2>1, SameSession
  <2>4. QED  BY <1>2, <2>2, <2>3, OneSession
<1>6. QED  BY <1>3, <1>4, <1>5 DEF Complete

\* The action a step takes is the next of its rollout.
LEMMA NextAction ==
    ASSUME NEW c, NEW cfg, InRollout(c, cfg), cfg.context_frames \in Nat \ {0}
    PROVE  \E taken \in Nat, todo \in Nat \ {0} :
              /\ Len(c.seq) = taken + todo /\ Len(c.todo) = todo
              /\ Len(c.seq) - Len(c.todo) = taken
              /\ Head(c.todo) = c.seq[taken + 1]
              /\ Len(c.ctx) <= Len(c.base) + taken
              /\ Exact(cfg, c.base, c.seq, taken, c.ctx)
<1>1. PICK m, j : m = Len(c.seq) /\ j = Len(c.todo)
  OBVIOUS
<1>2. m \in Nat /\ j \in 1 .. m
  BY <1>1 DEF InRollout
<1>3. PICK taken \in Nat : taken = m - j
  BY <1>2
<1>4. j \in Nat \ {0} /\ m = taken + j /\ 1 \in 1 .. j
  BY <1>2, <1>3
<1>5. c.todo[1] = c.seq[taken + 1]
  <2>1. \A i \in 1 .. j : c.todo[i] = c.seq[taken + i]
    BY <1>1, <1>3 DEF InRollout
  <2>2. QED  BY <1>4, <2>1
<1>6. Head(c.todo) = c.todo[1]
  <2>1. PICK S : c.todo \in Seq(S)
    BY DEF InRollout, IsSeq
  <2>2. c.todo # <<>>
    BY <1>1, <1>4
  <2>3. QED  BY <2>1, <2>2, HeadTailProperties
<1>7. Len(c.ctx) <= Len(c.base) + taken /\ Exact(cfg, c.base, c.seq, taken, c.ctx)
  BY <1>1, <1>3 DEF InRollout
<1>8. QED  BY <1>1, <1>3, <1>4, <1>5, <1>6, <1>7

\* One step of a rollout, after taken actions, and what it comes to.
StepFrom(s, c, taken, a, frame, ctx) ==
    /\ c = engine_call[s] /\ InRollout(c, config)
    /\ a = c.seq[taken + 1] /\ frame = NextFrame(s, c.ctx, a) /\ ctx = Window(c.ctx, frame)
    /\ Len(c.ctx) <= Len(c.base) + taken /\ Exact(config, c.base, c.seq, taken, c.ctx)
StepTo(c, taken, frame, ctx) ==
    /\ Context(ctx, config.context_frames) /\ Last(ctx) = frame
    /\ Len(ctx) <= Len(c.base) + (taken + 1)
    /\ Exact(config, c.base, c.seq, taken + 1, ctx)

\* One step of a rollout keeps its window exact.
LEMMA RolloutStepExact ==
    ASSUME RolloutInv, NEW s \in Sessions, NEW c, NEW taken \in Nat, NEW a, NEW frame, NEW ctx,
           StepFrom(s, c, taken, a, frame, ctx)
    PROVE  StepTo(c, taken, frame, ctx)
<1>0. /\ c = engine_call[s] /\ InRollout(c, config)
      /\ a = c.seq[taken + 1] /\ frame = NextFrame(s, c.ctx, a) /\ ctx = Window(c.ctx, frame)
      /\ Len(c.ctx) <= Len(c.base) + taken /\ Exact(config, c.base, c.seq, taken, c.ctx)
  BY DEF StepFrom
<1>1. PICK n, x, b : n = config.context_frames /\ x = Len(c.ctx) /\ b = Len(c.base)
  OBVIOUS
<1>2. /\ n \in Nat \ {0} /\ config \in ConfigType
      /\ kv_cache[s] # NoEntry => CacheOf(kv_cache[s], config)
  BY <1>1, SessionParts
<1>3. Context(c.ctx, n) /\ IsSeq(c.ctx) /\ x \in 1 .. n /\ b \in 1 .. n
  BY <1>0, <1>1 DEF InRollout, Context
<1>4. ctx = LastFrames(Append(c.ctx, frame), n)
  BY <1>0, <1>1 DEF Window
<1>5. Context(ctx, n) /\ Last(ctx) = frame /\ Len(ctx) = IF x < n THEN x + 1 ELSE n
  BY <1>1, <1>2, <1>3, <1>4, LastFramesFacts
<1>6. Len(ctx) <= Len(c.base) + (taken + 1)
  <2>1. x <= b + taken
    BY <1>0, <1>1
  <2>2. (IF x < n THEN x + 1 ELSE n) <= b + (taken + 1)
    BY <1>2, <1>3, <2>1
  <2>3. QED  BY <1>1, <1>5, <2>2
<1>7. \/ c.ctx = After(n, c.base, c.seq, taken)
      \/ Slides(config) /\ Capable(config) /\ b + taken > n
  BY <1>0, <1>1 DEF Exact
<1>8. \/ frame = FullForward(c.ctx, c.seq[taken + 1])
      \/ Slides(config) /\ Capable(config) /\ x >= n
  BY <1>0, <1>1, <1>2, <1>3, NextFrameIsExact
<1>9. CASE /\ c.ctx = After(n, c.base, c.seq, taken)
           /\ frame = FullForward(c.ctx, c.seq[taken + 1])
  <2>1. After(n, c.base, c.seq, taken + 1) = Slid(n, c.ctx, c.seq[taken + 1])
    BY <1>9, AfterSteps
  <2>2. ctx = Slid(n, c.ctx, c.seq[taken + 1])
    BY <1>4, <1>9 DEF Slid
  <2>3. QED  BY <1>1, <1>5, <1>6, <2>1, <2>2 DEF Exact, StepTo
<1>10. CASE Slides(config) /\ Capable(config) /\ (b + taken > n \/ x >= n)
  <2>1. x <= b + taken
    BY <1>0, <1>1
  <2>2. b + (taken + 1) > n
    BY <1>2, <1>3, <1>10, <2>1
  <2>3. QED  BY <1>1, <1>5, <1>6, <1>10, <2>2 DEF Exact, StepTo
<1>11. QED  BY <1>7, <1>8, <1>9, <1>10

\* step(), from its caller or from _rollout_energy.
LEMMA ApplyStepKeeps ==
    ASSUME RolloutInv, NEW s \in Sessions, ApplyStep(s)
    PROVE  RolloutInv'
<1>1. PICK c : c = engine_call[s]
  OBVIOUS
<1>2. PICK frame : frame = NextFrame(s, c.ctx, Head(c.todo))
  OBVIOUS
<1>3. PICK ctx : ctx = Window(c.ctx, frame)
  OBVIOUS
<1>4. PICK k : k = EntryAfter(s, c.ctx, frame)
  OBVIOUS
<1>5. /\ ~ EvictRaises(s, c.ctx) /\ c.pc = "apply"
      /\ kv_cache' = [kv_cache EXCEPT ![s] = k] /\ config' = config
      /\ \/ Len(c.todo) = 1 /\ Complete(s, ctx, frame)
         \/ /\ Len(c.todo) > 1
            /\ engine_call' = [engine_call EXCEPT ![s] = NextStep(c, Tail(c.todo), ctx)]
            /\ states' = states /\ done' = done
  <2>1. PICK d : d = [c EXCEPT !.pc = "enter", !.ctx = ctx, !.todo = Tail(@)]
    OBVIOUS
  <2>2. /\ ~ EvictRaises(s, c.ctx) /\ c.pc = "apply"
        /\ kv_cache' = [kv_cache EXCEPT ![s] = k] /\ config' = config
        /\ \/ Len(c.todo) = 1 /\ Complete(s, ctx, frame)
           \/ /\ Len(c.todo) > 1
              /\ engine_call' = [engine_call EXCEPT ![s] = d]
              /\ states' = states /\ done' = done
    BY <1>1, <1>2, <1>3, <1>4, <2>1 DEF ApplyStep, CallAt
  <2>3. c = [pc |-> c.pc, op |-> c.op, base |-> c.base, seq |-> c.seq, ctx |-> c.ctx,
             todo |-> c.todo, candidates |-> c.candidates, saved |-> c.saved,
             failed |-> c.failed]
    BY <1>1, SessionParts DEF CallOK
  <2>4. d = NextStep(c, Tail(c.todo), ctx)
    <3>1. PICK t : t = Tail(c.todo)
      OBVIOUS
    <3>2. d = [c EXCEPT !.pc = "enter", !.ctx = ctx, !.todo = t]
      BY <2>1, <2>3, <3>1
    <3>3. QED  BY <3>1, <3>2, Zenon DEF NextStep
  <2>5. QED  BY <2>2, <2>4
<1>6. /\ \A d \in states[s] : Context(d, config.context_frames)
      /\ CallOK(c, config) /\ DoneOK(done[s], config)
      /\ config \in ConfigType /\ config.context_frames \in Nat \ {0}
      /\ kv_cache[s] # NoEntry => CacheOf(kv_cache[s], config)
  BY <1>1, SessionParts
<1>7. InRollout(c, config)
  BY <1>5, <1>6 DEF CallOK
<1>8. k # NoEntry => CacheOf(k, config)
  <2>1. Context(c.ctx, config.context_frames)
    BY <1>7 DEF InRollout
  <2>2. QED  BY <1>4, <1>5, <1>6, <2>1, EntryAfterOK
<1>9. PICK taken \in Nat, todo \in Nat \ {0} :
         /\ Len(c.seq) = taken + todo /\ Len(c.todo) = todo
         /\ Head(c.todo) = c.seq[taken + 1] /\ Len(c.ctx) <= Len(c.base) + taken
         /\ Exact(config, c.base, c.seq, taken, c.ctx)
  BY <1>6, <1>7, NextAction
<1>10. /\ Context(ctx, config.context_frames) /\ Last(ctx) = frame
       /\ Len(ctx) <= Len(c.base) + (taken + 1)
       /\ Exact(config, c.base, c.seq, taken + 1, ctx)
  <2>1. PICK a : a = Head(c.todo)
    OBVIOUS
  <2>2. a = c.seq[taken + 1] /\ frame = NextFrame(s, c.ctx, a)
    BY <1>2, <1>9, <2>1
  <2>3. Len(c.ctx) <= Len(c.base) + taken /\ Exact(config, c.base, c.seq, taken, c.ctx)
    BY <1>9
  <2>4. StepFrom(s, c, taken, a, frame, ctx)
    BY <1>1, <1>3, <1>7, <2>2, <2>3 DEF StepFrom
  <2>5. StepTo(c, taken, frame, ctx)
    BY <1>9, <2>4, RolloutStepExact
  <2>6. QED  BY <2>5 DEF StepTo
<1>11. CASE Len(c.todo) = 1 /\ Complete(s, ctx, frame)
  <2>1. PICK z : z = [base |-> c.base, seq |-> c.seq, terminal |-> frame]
    OBVIOUS
  <2>2. z.base = c.base /\ z.seq = c.seq /\ z.terminal = frame
    BY <2>1
  <2>3. Len(c.seq) = taken + 1 /\ taken + 1 \in Nat
    BY <1>9, <1>11
  <2>4. DoneOK(z, config)
    BY <1>10, <2>2, <2>3 DEF DoneOK, Exact
  <2>5. QED  BY <1>1, <1>5, <1>7, <1>8, <1>10, <1>11, <2>1, <2>4, CompleteKeeps
<1>12. CASE /\ Len(c.todo) > 1
            /\ engine_call' = [engine_call EXCEPT ![s] = NextStep(c, Tail(c.todo), ctx)]
            /\ states' = states /\ done' = done
  <2>1. PICK t, d : t = Tail(c.todo) /\ d = NextStep(c, t, ctx)
    OBVIOUS
  <2>2. d = [pc |-> "enter", op |-> c.op, base |-> c.base, seq |-> c.seq, ctx |-> ctx,
             todo |-> t, candidates |-> c.candidates, saved |-> c.saved,
             failed |-> c.failed]
    BY <1>6, <2>1, CandidateFields
  <2>3. /\ d.pc = "enter" /\ d.op = c.op /\ d.base = c.base /\ d.seq = c.seq
        /\ d.ctx = ctx /\ d.todo = t /\ d.candidates = c.candidates
        /\ d.saved = c.saved /\ d.failed = c.failed
    BY <2>2
  <2>4. d = [pc |-> d.pc, op |-> d.op, base |-> d.base, seq |-> d.seq, ctx |-> d.ctx,
             todo |-> d.todo, candidates |-> d.candidates, saved |-> d.saved,
             failed |-> d.failed]
    BY <2>2, <2>3
  <2>5. PICK j \in Nat : j = todo - 1
    BY <1>9
  <2>6. /\ IsSeq(t) /\ Len(t) = j /\ \A i \in 1 .. j : t[i] = c.seq[(taken + 1) + i]
    <3>1. PICK S : c.todo \in Seq(S)
      BY <1>7 DEF InRollout, IsSeq
    <3>2. c.todo # <<>>
      BY <1>9
    <3>3. t \in Seq(S) /\ Len(t) = j /\ \A i \in 1 .. Len(t) : t[i] = c.todo[i + 1]
      BY <1>9, <2>1, <2>5, <3>1, <3>2, HeadTailProperties
    <3>4. ASSUME NEW i \in 1 .. j
          PROVE  t[i] = c.seq[(taken + 1) + i]
      <4>1. i + 1 \in 1 .. todo /\ taken + (i + 1) = (taken + 1) + i
        BY <1>9, <2>5
      <4>2. \A g \in 1 .. todo : c.todo[g] = c.seq[taken + g]
        <5>1. Len(c.seq) - Len(c.todo) = taken
          BY <1>9
        <5>2. QED  BY <1>7, <1>9, <5>1 DEF InRollout
      <4>3. c.todo[i + 1] = c.seq[taken + (i + 1)]
        BY <4>1, <4>2
      <4>4. QED  BY <3>3, <4>1, <4>3
    <3>5. QED  BY <3>3, <3>4 DEF IsSeq
  <2>7. /\ Len(d.seq) \in Nat /\ Len(d.todo) \in 1 .. Len(d.seq)
        /\ Len(d.seq) - Len(d.todo) = taken + 1
    <3>1. Len(d.seq) = taken + todo /\ Len(d.todo) = j
      BY <1>9, <2>3, <2>6
    <3>2. j \in 1 .. taken + todo /\ (taken + todo) - j = taken + 1
      BY <1>9, <1>12, <2>5
    <3>3. QED  BY <3>1, <3>2
  <2>8. InRollout(d, config)
    <3>1. Context(d.base, config.context_frames) /\ Context(d.ctx, config.context_frames)
      BY <1>7, <1>10, <2>3 DEF InRollout
    <3>2. IsSeq(d.todo) /\ \A i \in 1 .. Len(d.todo) : d.todo[i] = d.seq[(taken + 1) + i]
      BY <2>3, <2>6
    <3>3. Len(d.ctx) <= Len(d.base) + (taken + 1)
      BY <1>10, <2>3
    <3>4. Exact(config, d.base, d.seq, taken + 1, d.ctx)
      BY <1>10, <2>3
    <3>5. QED  BY <2>7, <3>1, <3>2, <3>3, <3>4 DEF InRollout
  <2>9. CallOK(d, config)
    BY <2>4, <2>8 DEF CallOK
  <2>10. PICK st, z : st = states[s] /\ z = done[s]
    OBVIOUS
  <2>11. SessionOK(config, k, st, d, z)
    BY <1>6, <1>8, <2>3, <2>9, <2>10 DEF SessionOK
  <2>12. /\ states' = [states EXCEPT ![s] = st] /\ done' = [done EXCEPT ![s] = z]
         /\ engine_call' = [engine_call EXCEPT ![s] = d]
    BY <1>12, <2>1, <2>10, SameSession
  <2>13. QED  BY <1>5, <2>11, <2>12, OneSession
<1>13. QED  BY <1>5, <1>11, <1>12

\* What the batched scorers compute.
LEMMA TerminalIsExact ==
    ASSUME config.context_frames \in Nat \ {0}, NEW c, NEW q,
           Context(c, config.context_frames), Len(q) \in Nat
    PROVE  Terminal(c, q) = Last(After(config.context_frames, c, q, Len(q)))
<1>1. PICK n : n = config.context_frames
  OBVIOUS
<1>2. CASE /\ config.plan_batched_kv /\ config.use_kv_cache /\ config.supports_kv_cache
           /\ BatchedCachedFits(c, q)
  <2>1. Terminal(c, q) = RolledOutCached(c, q)
    BY <1>2 DEF Terminal
  <2>2. Len(c) + Len(q) <= n
    BY <1>1, <1>2 DEF BatchedCachedFits
  <2>3. RolledOutCached(c, q) = Last(After(n, c, q, Len(q)))
    BY <1>1, <2>2, RolledOutCachedIsLast
  <2>4. QED  BY <1>1, <2>1, <2>3
<1>3. CASE ~ (/\ config.plan_batched_kv /\ config.use_kv_cache /\ config.supports_kv_cache
              /\ BatchedCachedFits(c, q))
  <2>1. Terminal(c, q) = Last(RolledOut(c, q))
    BY <1>3 DEF Terminal
  <2>2. QED  BY <2>1, RolledOutIsAfter
<1>4. QED  BY <1>2, <1>3

\* The batched scorers leave the session's cache alone.
LEMMA ApplyBatchedKeeps ==
    ASSUME RolloutInv, NEW s \in Sessions, ApplyBatched(s)
    PROVE  RolloutInv'
<1>1. PICK c, k : c = engine_call[s] /\ k = kv_cache[s]
  OBVIOUS
<1>2. PICK frame : frame = Terminal(c.base, c.seq)
  OBVIOUS
<1>3. /\ c.pc = "apply" /\ c.op = "plan" /\ config' = config /\ kv_cache' = kv_cache
      /\ Complete(s, c.base, frame)
  BY <1>1, <1>2 DEF ApplyBatched, CallAt
<1>4. /\ CallOK(c, config) /\ config.context_frames \in Nat \ {0}
      /\ k # NoEntry => CacheOf(k, config)
  BY <1>1, SessionParts
<1>5. InRollout(c, config)
  BY <1>3, <1>4 DEF CallOK
<1>6. Context(c.base, config.context_frames) /\ Len(c.seq) \in Nat
  BY <1>5 DEF InRollout
<1>7. frame = Last(After(config.context_frames, c.base, c.seq, Len(c.seq)))
  BY <1>2, <1>4, <1>6, TerminalIsExact
<1>8. PICK z : z = [base |-> c.base, seq |-> c.seq, terminal |-> frame]
  OBVIOUS
<1>9. z.base = c.base /\ z.seq = c.seq /\ z.terminal = frame
  BY <1>8
<1>10. DoneOK(z, config)
  BY <1>6, <1>7, <1>9 DEF DoneOK
<1>11. kv_cache' = [kv_cache EXCEPT ![s] = k]
  BY <1>1, <1>3, SameSession
<1>12. PICK b : b = c.base
  OBVIOUS
<1>13. QED  BY <1>1, <1>3, <1>4, <1>5, <1>6, <1>8, <1>10, <1>11, <1>12, CompleteKeeps

(***************************************************************************)
(* The theorems                                                            *)
(***************************************************************************)
LEMMA RolloutInitInv == RolloutInit => RolloutInv
<1> SUFFICES ASSUME RolloutInit
             PROVE  RolloutInv
  OBVIOUS
<1>1. config \in ConfigType
  BY RolloutAssumption DEF RolloutInit
<1>2. /\ kv_cache = [s \in Sessions |-> kv_cache[s]] /\ states = [s \in Sessions |-> states[s]]
      /\ engine_call = [s \in Sessions |-> engine_call[s]]
      /\ done = [s \in Sessions |-> done[s]]
  BY DEF RolloutInit
<1>3. ASSUME NEW s \in Sessions
      PROVE  SessionOK(config, kv_cache[s], states[s], engine_call[s], done[s])
  <2>1. /\ kv_cache[s] = NoEntry /\ states[s] = {} /\ engine_call[s] = Closed
        /\ done[s] = NoRollout
    BY DEF RolloutInit
  <2>2. DoneOK(NoRollout, config)
    BY DEF DoneOK, NoRollout
  <2>3. QED  BY <2>1, <2>2, RestsOK DEF SessionOK
<1>4. QED  BY <1>1, <1>2, <1>3 DEF RolloutInv

LEMMA RolloutNextInv == RolloutInv /\ [RolloutNext]_rolloutVars => RolloutInv'
<1> SUFFICES ASSUME RolloutInv, [RolloutNext]_rolloutVars
             PROVE  RolloutInv'
  OBVIOUS
<1>1. CASE UNCHANGED rolloutVars
  BY <1>1 DEF RolloutInv, rolloutVars
<1>2. CASE RolloutNext
  <2>1. PICK s \in Sessions :
          \/ Reset(s) \/ Release(s)
          \/ \E ctx \in states[s], action \in Actions : StepCall(s, ctx, action)
          \/ \E ctx \in states[s], h \in 1 .. MaxHorizon :
                \E seq \in [1 .. h -> Actions] : PlanCall(s, ctx, seq)
          \/ GuardEnter(s) \/ Forward(s) \/ GuardExit(s)
          \/ CallRaises(s) \/ ApplyStep(s) \/ ApplyBatched(s)
    BY <1>2 DEF RolloutNext
  <2>2. CASE \E ctx \in states[s], action \in Actions : StepCall(s, ctx, action)
    <3>1. PICK ctx \in states[s], action \in Actions : StepCall(s, ctx, action)
      BY <2>2
    <3>2. PICK seq : seq = <<action>>
      OBVIOUS
    <3>3. seq \in [1 .. 1 -> Actions] /\ 1 \in Nat \ {0}
      BY <3>2
    <3>4. /\ Start(s, "step", ctx, seq) /\ config' = config /\ kv_cache' = kv_cache
          /\ states' = states /\ done' = done
      BY <3>1, <3>2 DEF StepCall
    <3>5. QED  BY <3>3, <3>4, StartKeeps
  <2>3. CASE \E ctx \in states[s], h \in 1 .. MaxHorizon :
                \E seq \in [1 .. h -> Actions] : PlanCall(s, ctx, seq)
    <3>1. PICK ctx \in states[s], h \in 1 .. MaxHorizon :
                \E seq \in [1 .. h -> Actions] : PlanCall(s, ctx, seq)
      BY <2>3
    <3>2. PICK seq \in [1 .. h -> Actions] : PlanCall(s, ctx, seq)
      BY <3>1
    <3>3. h \in Nat \ {0}
      BY <3>1, RolloutAssumption
    <3>4. /\ Start(s, "plan", ctx, seq) /\ config' = config /\ kv_cache' = kv_cache
          /\ states' = states /\ done' = done
      BY <3>2 DEF PlanCall
    <3>5. QED  BY <3>3, <3>4, StartKeeps
  <2>4. QED  BY <2>1, <2>2, <2>3, ResetKeeps, ReleaseKeeps, GuardKeeps, CallRaisesKeeps,
                ApplyStepKeeps, ApplyBatchedKeeps
<1>3. QED  BY <1>1, <1>2

\* A cache that continues a session is the one a fresh prefill of its context
\* would be: what _sync_kv_cache, release() and every exception must preserve.
THEOREM CacheIsAlwaysRecomputation == RolloutSpec => []CacheIsRecomputation
<1>1. RolloutInv => CacheIsRecomputation
  BY DEF RolloutInv, SessionOK, CacheOf, CacheIsRecomputation, Slides, WindowFull
<1>2. QED  BY <1>1, RolloutInitInv, RolloutNextInv, PTL DEF RolloutSpec

\* step() and the planner's scorers, whichever path they take, end where full
\* forwards over the capped window end.
THEOREM RolloutsAreAlwaysExact == RolloutSpec => []RolloutsAreExact
<1>1. RolloutInv => RolloutsAreExact
  <2> SUFFICES ASSUME RolloutInv, NEW s \in Sessions, done[s].base # <<>>
               PROVE  \/ done[s].terminal = Last(RolledOut(done[s].base, done[s].seq))
                      \/ /\ config.kv_evict_policy = "slide" /\ CacheCapable
                         /\ Len(done[s].base) + Len(done[s].seq) > config.context_frames
    BY DEF RolloutsAreExact
  <2>1. DoneOK(done[s], config)
    BY SessionParts
  <2>2. Len(done[s].seq) \in Nat
    BY <2>1 DEF DoneOK
  <2>3. RolledOut(done[s].base, done[s].seq)
          = After(config.context_frames, done[s].base, done[s].seq, Len(done[s].seq))
    BY <2>2, RolledOutIsAfter
  <2>4. QED  BY <2>1, <2>3 DEF DoneOK, Slides, Capable, CacheCapable
<1>2. QED  BY <1>1, RolloutInitInv, RolloutNextInv, PTL DEF RolloutSpec

\* The cache neither outgrows the window nor falls behind it, nor outlives its
\* session: evict() and release().
THEOREM CacheAlwaysSpansWindow == RolloutSpec => []CacheSpansWindow
<1>1. RolloutInv => CacheSpansWindow
  <2> SUFFICES ASSUME RolloutInv, NEW s \in Sessions, kv_cache[s] # NoEntry
               PROVE  /\ ~ CallAt(s, "closed")
                      /\ Len(kv_cache[s].cache.layer_kv) + Len(kv_cache[s].cache.pending)
                             = Len(kv_cache[s].last_context)
                      /\ Len(kv_cache[s].cache.pending) = 1
                      /\ Len(kv_cache[s].last_context) <= config.context_frames
    BY DEF CacheSpansWindow
  <2>1. /\ CacheOf(kv_cache[s], config) /\ engine_call[s].pc # "closed"
        /\ config.context_frames \in Nat \ {0}
    BY SessionParts
  <2>2. PICK e, w, n : e = kv_cache[s].cache /\ w = kv_cache[s].last_context
                       /\ n = config.context_frames
    OBVIOUS
  <2>3. PICK f : e.pending = <<f>>
    BY <2>1, <2>2 DEF CacheOf
  <2>4. Len(e.layer_kv) + 1 = Len(w) /\ Len(w) \in 1 .. n
    BY <2>1, <2>2 DEF CacheOf, Context
  <2>5. Len(e.pending) = 1
    BY <2>3
  <2>6. Len(w) <= n
    BY <2>1, <2>2, <2>4
  <2>7. QED  BY <2>1, <2>2, <2>4, <2>5, <2>6 DEF CallAt
<1>2. QED  BY <1>1, RolloutInitInv, RolloutNextInv, PTL DEF RolloutSpec

(***************************************************************************)
(* Attention                                                               *)
(***************************************************************************)

(***************************************************************************)
(* The op that is chosen                                                   *)
(***************************************************************************)
\* The first candidate that supports the problem is one that does.
LEMMA FirstSupported ==
    ASSUME NEW S, NEW c \in Seq(S), NEW k \in 1 .. Len(c), c[k].supports
    PROVE  \E op \in S : op.supports /\ FirstSupporting(c) = op
<1> DEFINE I == {j \in 1 .. Len(c) : c[j].supports}
<1>1. I \in SUBSET Nat /\ I # {}
  OBVIOUS
<1>2. Min(I) \in I
  <2> HIDE DEF I
  <2>1. QED  BY <1>1, MinIsMember
<1>3. FirstSupporting(c) = c[Min(I)]
  BY <1>1 DEF FirstSupporting, SelectInSeq
<1>4. PICK m : m = Min(I)
  OBVIOUS
<1>5. m \in 1 .. Len(c) /\ c[m].supports
  BY <1>2, <1>4
<1>6. c[m] \in S
  BY <1>5, ElementOfSeq
<1>7. QED  BY <1>3, <1>4, <1>5, <1>6

\* A candidate that is gated by the environment, and more candidates.
LEMMA WhenIsSeq ==
    ASSUME NEW S, NEW cond, NEW op, cond => op \in S
    PROVE  When(cond, op) \in Seq(S)
BY DEF When

\* The naive op ends every list of candidates, so that one is found.
LEMMA NaiveServes ==
    ASSUME NEW S, NEW c \in Seq(S), NEW h, NEW q, NaiveAttention(h, q) \in S
    PROVE  \E op \in S : op.supports /\ FirstSupporting(c \o <<NaiveAttention(h, q)>>) = op
<1>1. PICK n : n = NaiveAttention(h, q)
  OBVIOUS
<1>2. n \in S /\ n.supports
  BY <1>1 DEF NaiveAttention, Op
<1>3. PICK d : d = c \o <<n>>
  OBVIOUS
<1>4. d \in Seq(S) /\ Len(d) = Len(c) + 1 /\ d[Len(c) + 1] = n
  BY <1>2, <1>3, ConcatProperties
<1>5. Len(c) + 1 \in 1 .. Len(d)
  BY <1>4, LenProperties
<1>6. \E op \in S : op.supports /\ FirstSupporting(d) = op
  BY <1>2, <1>4, <1>5, FirstSupported
<1>7. QED  BY <1>1, <1>3, <1>6

\* Ops that serve under a backend as the registry and capabilities() promise.
Declared(vendor, h, name) ==
    \/ name \in capabilities(vendor, h)
    \/ vendor = "amd" /\ name \in Fp8Ops /\ _FP8_ENABLED(h)
    \/ name = "ipex-flash" /\ _AMX_ENABLED(h) /\ "amx_bf16" \notin features(h)

\* What an op that is asked to serve may raise over, and what the save of a
\* finished tuning may.
Rejected(h, q, name) == <<Library(name), q.dtype, q.D>> \in h.rejects
OpRaises(h, q, name) ==
    \/ Rejected(h, q, name)
    \/ name = "sdpa" /\ q.mask /\ q.causal
    \/ name \in FlashOps \cup Fp8Ops /\ ~OnGpu(q)
    \/ name \in AmxOps \cup {"ipex-flash"} /\ OnGpu(q)
    \/ name \in TritonOps /\ h.arch \notin KernelArchs(name)
    \/ name = "fp8-scaled-mm" /\ (h.arch # "gfx942" \/ "grouped_mm" \notin h.has)
    \/ name \in AmxOps /\ (~SelfAttention(q) \/ q.Sq % AmxTile # 0)
SaveRaises(h, name, torn) ==
    name \in TritonOps /\ "best_config" \in h.has /\ ~h.notune /\ (torn \/ h.faulty)

\* What an op that runs may take for granted of the problem.
Suits(q, op) ==
    op.runs => \/ op.name = "naive-sdpa"
               \/ /\ FullOrCausal(q) /\ op.name \notin {"none", "sdpa"}
                  /\ op.name \in AmxOps => SelfAttention(q) /\ q.Sq % AmxTile = 0

Served(vendor, h, q, op) ==
    /\ op.name # "none" /\ Suits(q, op)
    /\ Declared(vendor, h, op.name)
    /\ op.name \in Fp8Ops => _FP8_ENABLED(h)
    /\ ~ op.runs => OpRaises(h, q, op.name)

\* A list of candidates of one op.
LEMMA OneIsSeq ==
    ASSUME NEW S, NEW op \in S
    PROVE  <<op>> \in Seq(S)
OBVIOUS

\* The fields of an op.
LEMMA OpIs ==
    ASSUME NEW h, NEW q, NEW name, NEW s, NEW r
    PROVE  /\ Op(h, q, name, s, r).name = name
           /\ Op(h, q, name, s, r).supports = s
           /\ Op(h, q, name, s, r).runs <=> r /\ ~ Rejected(h, q, name)
<1>1. PICK ok : ok = (r /\ ~ Rejected(h, q, name))
  OBVIOUS
<1>2. Op(h, q, name, s, r) = [name |-> name, supports |-> s, runs |-> ok]
  BY <1>1 DEF Op, Rejected
<1>3. PICK op : op = [name |-> name, supports |-> s, runs |-> ok]
  OBVIOUS
<1>4. op.name = name /\ op.supports = s /\ op.runs = ok
  BY <1>3
<1>5. QED  BY <1>1, <1>2, <1>3, <1>4
\* What a Triton op needs beyond its shape, and an AMX op.
TritonSays(h, q, name, there, op) ==
    /\ op.name = name
    /\ op.supports => there /\ q.D \in TritonDims /\ SelfAttention(q)
    /\ there /\ q.D \in TritonDims /\ SelfAttention(q) /\ ~ op.runs => OpRaises(h, q, name)
LEMMA TritonRuns ==
    ASSUME NEW h, NEW q, NEW name \in TritonOps, NEW there
    PROVE  TritonSays(h, q, name, there, Triton(h, q, name, there))
<1>1. PICK s, r : 
        /\ s = (there /\ Half(q) /\ q.D \in TritonDims /\ FullOrCausal(q) /\ q.Sq >= MinSeqLen /\ SelfAttention(q))
        /\ r = (there /\ q.D \in TritonDims /\ SelfAttention(q) /\ OnGpu(q) /\ h.arch \in KernelArchs(name))
  OBVIOUS
<1>2. Triton(h, q, name, there) = Op(h, q, name, s, r)
  BY <1>1 DEF Triton
<1>3. PICK op : op = Op(h, q, name, s, r)
  OBVIOUS
<1>4. /\ op.name = name /\ op.supports = s
      /\ op.runs <=> r /\ ~ Rejected(h, q, name)
  BY <1>3, OpIs
<1>5. name \in FlashOps \cup Fp8Ops
  BY DEF Fp8Ops
<1>6. op.supports => there /\ q.D \in TritonDims /\ SelfAttention(q)
  BY <1>1, <1>4
<1>7. there /\ q.D \in TritonDims /\ SelfAttention(q) /\ ~ op.runs => OpRaises(h, q, name)
  BY <1>1, <1>4, <1>5 DEF OpRaises
<1>8. QED  BY <1>2, <1>3, <1>4, <1>6, <1>7 DEF TritonSays

AmxSays(h, q, name, flag, op) ==
    /\ op.name = name
    /\ op.supports => {flag, "amx_native"} \subseteq h.has /\ FullOrCausal(q)
    /\ op.runs => SelfAttention(q) /\ q.Sq % AmxTile = 0
    /\ {flag, "amx_native"} \subseteq h.has /\ ~ op.runs => OpRaises(h, q, name)
LEMMA AmxRuns ==
    ASSUME NEW h, NEW q, NEW name \in AmxOps, NEW flag, NEW dtype
    PROVE  AmxSays(h, q, name, flag, Amx(h, q, name, flag, dtype))
<1>1. PICK there : there = ({flag, "amx_native"} \subseteq h.has)
  OBVIOUS
<1>2. PICK s, r : /\ s = (there /\ q.dtype = dtype /\ q.D \in {64, 128} /\ FullOrCausal(q))
                  /\ r = (there /\ ~OnGpu(q) /\ SelfAttention(q) /\ q.Sq % AmxTile = 0)
  OBVIOUS
<1>3. Amx(h, q, name, flag, dtype) = Op(h, q, name, s, r)
  BY <1>1, <1>2 DEF Amx
<1>4. PICK op : op = Op(h, q, name, s, r)
  OBVIOUS
<1>5. /\ op.name = name /\ op.supports = s
      /\ op.runs <=> r /\ ~ Rejected(h, q, name)
  BY <1>4, OpIs
<1>6. op.supports => there /\ FullOrCausal(q)
  BY <1>2, <1>5
<1>7. op.runs => SelfAttention(q) /\ q.Sq % AmxTile = 0
  BY <1>2, <1>5
<1>8. there /\ ~ op.runs => OpRaises(h, q, name)
  BY <1>2, <1>5 DEF OpRaises
<1>9. QED  BY <1>1, <1>3, <1>4, <1>5, <1>6, <1>7, <1>8 DEF AmxSays

\* What a supporting op tells of the host and the problem.
LEMMA OpFacts ==
    ASSUME NEW h, NEW q, NEW op, op.supports
    PROVE  /\ op = NaiveAttention(h, q) =>
                  op.name = "naive-sdpa" /\ (~ op.runs => OpRaises(h, q, op.name))
           /\ op = ROCmFlashAttention(h, q) =>
                  /\ op.name = "rocm-ck-flash" /\ "flash_attn" \in h.has
                  /\ ~ op.runs => OpRaises(h, q, op.name)
           /\ op = HopperFlashAttention(h, q) =>
                  /\ op.name = "nvidia-flash" /\ {"fa3", "flash_attn"} \cap h.has # {}
                  /\ ~ op.runs => OpRaises(h, q, op.name)
           /\ op = FP8TritonAttention(h, q) =>
                  /\ op.name = "fp8-triton-flash" /\ "triton" \in h.has
                  /\ ~ op.runs => OpRaises(h, q, op.name)
           /\ op = FP8HopperTritonAttention(h, q) =>
                  /\ op.name = "fp8-hopper-triton-flash" /\ "triton" \in h.has
                  /\ ~ op.runs => OpRaises(h, q, op.name)
           /\ op = FP8AdaTritonAttention(h, q) =>
                  /\ op.name = "fp8-ada-triton-flash"
                  /\ ~ op.runs => OpRaises(h, q, op.name)
<1>1. ASSUME op = NaiveAttention(h, q)
      PROVE  op.name = "naive-sdpa" /\ (~ op.runs => OpRaises(h, q, op.name))
  BY <1>1 DEF NaiveAttention, Op, OpRaises, Rejected
<1>2. ASSUME op = ROCmFlashAttention(h, q)
      PROVE  /\ op.name = "rocm-ck-flash" /\ "flash_attn" \in h.has
             /\ ~ op.runs => OpRaises(h, q, op.name)
  BY <1>2 DEF ROCmFlashAttention, Flash, Op, OpRaises, Rejected, FlashOps
<1>3. ASSUME op = HopperFlashAttention(h, q)
      PROVE  /\ op.name = "nvidia-flash" /\ {"fa3", "flash_attn"} \cap h.has # {}
             /\ ~ op.runs => OpRaises(h, q, op.name)
  BY <1>3 DEF HopperFlashAttention, Flash, Op, OpRaises, Rejected, FlashOps
<1>4. ASSUME NEW name \in TritonOps, NEW there, op = Triton(h, q, name, there)
      PROVE  there /\ op.name = name /\ (~ op.runs => OpRaises(h, q, op.name))
  <2>1. TritonSays(h, q, name, there, op)
    BY <1>4, TritonRuns
  <2>2. QED  BY <2>1 DEF TritonSays
<1>5. op = FP8TritonAttention(h, q) =>
         /\ op.name = "fp8-triton-flash" /\ "triton" \in h.has
         /\ ~ op.runs => OpRaises(h, q, op.name)
  BY <1>4 DEF FP8TritonAttention, TritonOps
<1>6. op = FP8HopperTritonAttention(h, q) =>
         /\ op.name = "fp8-hopper-triton-flash" /\ "triton" \in h.has
         /\ ~ op.runs => OpRaises(h, q, op.name)
  BY <1>4 DEF FP8HopperTritonAttention, TritonOps
<1>7. op = FP8AdaTritonAttention(h, q) =>
         op.name = "fp8-ada-triton-flash" /\ (~ op.runs => OpRaises(h, q, op.name))
  BY <1>4 DEF FP8AdaTritonAttention, TritonOps
<1>8. QED  BY <1>1, <1>2, <1>3, <1>5, <1>6, <1>7

\* The same of the ops of one vendor.
LEMMA VendorOpFacts ==
    ASSUME NEW h, NEW q, NEW op, op.supports
    PROVE  /\ op = TransformerEngineAttention(h, q) =>
                  /\ op.name = "transformer-engine-fp8" /\ "te" \in h.has
                  /\ ~ op.runs => OpRaises(h, q, op.name)
           /\ op = AMXSDPAAttention(h, q) =>
                  op.name = "amx-sdpa" /\ (~ op.runs => OpRaises(h, q, op.name))
           /\ op = IPEXFlashAttention(h, q) =>
                  /\ op.name = "ipex-flash" /\ "ipex" \in h.has
                  /\ ~ op.runs => OpRaises(h, q, op.name)
           /\ op = FP8ScaledMMAttention(h, q) =>
                  op.name = "fp8-scaled-mm" /\ (~ op.runs => OpRaises(h, q, op.name))
           /\ op = AMXFlashAttention(h, q) =>
                  /\ op.name = "amx-bf16-flash" /\ {"amx_bf16", "amx_native"} \subseteq h.has
                  /\ ~ op.runs => OpRaises(h, q, op.name)
           /\ op = AMXFP16FlashAttention(h, q) =>
                  /\ op.name = "amx-fp16-flash" /\ {"amx_fp16", "amx_native"} \subseteq h.has
                  /\ ~ op.runs => OpRaises(h, q, op.name)
           /\ op = AMXInt8FlashAttention(h, q) =>
                  /\ op.name = "amx-int8-flash" /\ {"amx_int8", "amx_native"} \subseteq h.has
                  /\ ~ op.runs => OpRaises(h, q, op.name)
<1>1. ASSUME op = TransformerEngineAttention(h, q)
      PROVE  /\ op.name = "transformer-engine-fp8" /\ "te" \in h.has
             /\ ~ op.runs => OpRaises(h, q, op.name)
  BY <1>1 DEF TransformerEngineAttention, Op, OpRaises, Rejected, Fp8Ops
<1>2. ASSUME op = AMXSDPAAttention(h, q)
      PROVE  op.name = "amx-sdpa" /\ (~ op.runs => OpRaises(h, q, op.name))
  BY <1>2 DEF AMXSDPAAttention, Op, OpRaises, Rejected
<1>3. ASSUME op = IPEXFlashAttention(h, q)
      PROVE  /\ op.name = "ipex-flash" /\ "ipex" \in h.has
             /\ ~ op.runs => OpRaises(h, q, op.name)
  BY <1>3 DEF IPEXFlashAttention, Op, OpRaises, Rejected
<1>4. ASSUME op = FP8ScaledMMAttention(h, q)
      PROVE  op.name = "fp8-scaled-mm" /\ (~ op.runs => OpRaises(h, q, op.name))
  BY <1>4 DEF FP8ScaledMMAttention, Op, OpRaises, Rejected, Fp8Ops
<1>5. ASSUME NEW name \in AmxOps, NEW flag, NEW dtype, op = Amx(h, q, name, flag, dtype)
      PROVE  /\ op.name = name /\ {flag, "amx_native"} \subseteq h.has
             /\ ~ op.runs => OpRaises(h, q, op.name)
  <2>1. AmxSays(h, q, name, flag, op)
    BY <1>5, AmxRuns
  <2>2. QED  BY <2>1 DEF AmxSays
<1>6. {"amx-bf16-flash", "amx-fp16-flash", "amx-int8-flash"} \subseteq AmxOps
  BY DEF AmxOps
<1>7. op = AMXFlashAttention(h, q) =>
         /\ op.name = "amx-bf16-flash" /\ {"amx_bf16", "amx_native"} \subseteq h.has
         /\ ~ op.runs => OpRaises(h, q, op.name)
  BY <1>5, <1>6 DEF AMXFlashAttention
<1>8. op = AMXFP16FlashAttention(h, q) =>
         /\ op.name = "amx-fp16-flash" /\ {"amx_fp16", "amx_native"} \subseteq h.has
         /\ ~ op.runs => OpRaises(h, q, op.name)
  BY <1>5, <1>6 DEF AMXFP16FlashAttention
<1>9. op = AMXInt8FlashAttention(h, q) =>
         /\ op.name = "amx-int8-flash" /\ {"amx_int8", "amx_native"} \subseteq h.has
         /\ ~ op.runs => OpRaises(h, q, op.name)
  BY <1>5, <1>6 DEF AMXInt8FlashAttention
<1>10. QED  BY <1>1, <1>2, <1>3, <1>4, <1>7, <1>8, <1>9

\* supports() asks of the kind, but for the naive op.
LEMMA SupportedSuits ==
    ASSUME NEW h, NEW q, NEW op, op.supports,
           \/ op \in {NaiveAttention(h, q), ROCmFlashAttention(h, q), HopperFlashAttention(h, q),
                     FP8TritonAttention(h, q), FP8HopperTritonAttention(h, q),
                     FP8AdaTritonAttention(h, q), FP8ScaledMMAttention(h, q)}
           \/ op \in {TransformerEngineAttention(h, q), AMXSDPAAttention(h, q),
                     IPEXFlashAttention(h, q)}
           \/ op \in {AMXFlashAttention(h, q), AMXFP16FlashAttention(h, q),
                     AMXInt8FlashAttention(h, q)}
    PROVE  Suits(q, op)
<1>1. CASE op = NaiveAttention(h, q)
  BY <1>1 DEF NaiveAttention, Op, Suits
<1>2. CASE op \in {ROCmFlashAttention(h, q), HopperFlashAttention(h, q)}
  <2>1. CASE op = ROCmFlashAttention(h, q)
    BY <2>1 DEF ROCmFlashAttention, Flash, Op, Suits, AmxOps
  <2>2. CASE op = HopperFlashAttention(h, q)
    BY <2>2 DEF HopperFlashAttention, Flash, Op, Suits, AmxOps
  <2>3. QED  BY <1>2, <2>1, <2>2
<1>3. ASSUME NEW name \in TritonOps, NEW there, op = Triton(h, q, name, there)
      PROVE  Suits(q, op)
  BY <1>3 DEF Triton, Op, Suits, TritonOps, AmxOps
<1>4. CASE op \in {FP8TritonAttention(h, q), FP8HopperTritonAttention(h, q),
                   FP8AdaTritonAttention(h, q)}
  <2>1. {"fp8-triton-flash", "fp8-hopper-triton-flash", "fp8-ada-triton-flash"} \subseteq TritonOps
    BY DEF TritonOps
  <2>2. QED  BY <1>3, <1>4, <2>1
             DEF FP8TritonAttention, FP8HopperTritonAttention, FP8AdaTritonAttention
<1>5. CASE op = FP8ScaledMMAttention(h, q)
  BY <1>5 DEF FP8ScaledMMAttention, Op, Suits, AmxOps
<1>6. CASE op \in {TransformerEngineAttention(h, q), AMXSDPAAttention(h, q), IPEXFlashAttention(h, q)}
  <2>1. CASE op = TransformerEngineAttention(h, q)
    BY <2>1 DEF TransformerEngineAttention, Op, Suits, AmxOps
  <2>2. CASE op = AMXSDPAAttention(h, q)
    BY <2>2 DEF AMXSDPAAttention, Op, Suits, AmxOps
  <2>3. CASE op = IPEXFlashAttention(h, q)
    BY <2>3 DEF IPEXFlashAttention, Op, Suits, AmxOps
  <2>4. QED  BY <1>6, <2>1, <2>2, <2>3
<1>7. ASSUME NEW name \in AmxOps, NEW flag, NEW dtype, op = Amx(h, q, name, flag, dtype)
      PROVE  Suits(q, op)
  <2>1. AmxSays(h, q, name, flag, op)
    BY <1>7, AmxRuns
  <2>2. name \notin {"none", "sdpa"}
    BY DEF AmxOps
  <2>3. QED  BY <2>1, <2>2 DEF AmxSays, Suits
<1>8. CASE op \in {AMXFlashAttention(h, q), AMXFP16FlashAttention(h, q), AMXInt8FlashAttention(h, q)}
  <2>1. {"amx-bf16-flash", "amx-fp16-flash", "amx-int8-flash"} \subseteq AmxOps
    BY DEF AmxOps
  <2>2. QED  BY <1>7, <1>8, <2>1
             DEF AMXFlashAttention, AMXFP16FlashAttention, AMXInt8FlashAttention
<1>9. QED  BY <1>1, <1>2, <1>4, <1>5, <1>6, <1>8

LEMMA AmdServes ==
    ASSUME NEW h, NEW q, NEW op, op = select_attention_op("amd", h, q)
    PROVE  Served("amd", h, q, op)
<1>1. PICK a, b, c, n : /\ a = FP8TritonAttention(h, q) /\ b = FP8ScaledMMAttention(h, q)
                        /\ c = ROCmFlashAttention(h, q) /\ n = NaiveAttention(h, q)
  OBVIOUS
<1>2. PICK S : S = {o \in {a, b, c, n} : o \in {c, n} \/ _FP8_ENABLED(h)}
  OBVIOUS
<1>3. AmdCandidates(h, q) \in Seq(S)
  <2>1. (_FP8_ENABLED(h) /\ h.fp8 \notin Te \cup {"scaled_mm"}) => a \in S
    BY <1>2
  <2>2. When(_FP8_ENABLED(h) /\ h.fp8 \notin Te \cup {"scaled_mm"}, a) \in Seq(S)
    BY <2>1, WhenIsSeq, Zenon
  <2>3. (_FP8_ENABLED(h) /\ h.fp8 \notin Te \cup {"triton"}) => b \in S
    BY <1>2
  <2>4. When(_FP8_ENABLED(h) /\ h.fp8 \notin Te \cup {"triton"}, b) \in Seq(S)
    BY <2>3, WhenIsSeq, Zenon
  <2>5. <<c>> \in Seq(S)
    BY <1>2, OneIsSeq
  <2>6. QED  BY <1>1, <2>2, <2>4, <2>5, ConcatProperties DEF AmdCandidates
<1>4. op \in S /\ op.supports
  <2>1. op = FirstSupporting(AmdCandidates(h, q) \o <<NaiveAttention(h, q)>>)
    BY DEF select_attention_op
  <2>2. NaiveAttention(h, q) \in S
    BY <1>1, <1>2
  <2>3. PICK c1 : c1 = AmdCandidates(h, q)
    OBVIOUS
  <2>4. QED  BY <1>3, <2>1, <2>2, <2>3, NaiveServes
<1>5. op \in {c, n} \/ (op \in {a, b} /\ _FP8_ENABLED(h))
  BY <1>2, <1>4
<1>6. Suits(q, op)
  BY <1>1, <1>2, <1>4, SupportedSuits
<1>7. CASE op \in {c, n}
  BY <1>1, <1>4, <1>6, <1>7, OpFacts
     DEF Served, Declared, capabilities, rocm_capabilities, Fp8Ops, TritonOps
<1>8. CASE op \in {a, b} /\ _FP8_ENABLED(h)
  BY <1>1, <1>4, <1>6, <1>8, OpFacts, VendorOpFacts
     DEF Served, Declared, Fp8Ops, TritonOps
<1>9. QED  BY <1>5, <1>7, <1>8

LEMMA NvidiaServes ==
    ASSUME NEW h, NEW q, NEW op, op = select_attention_op("nvidia", h, q)
    PROVE  Served("nvidia", h, q, op)
<1>1. PICK a, b, c, n : /\ a = FP8HopperTritonAttention(h, q)
                        /\ b = TransformerEngineAttention(h, q)
                        /\ c = HopperFlashAttention(h, q) /\ n = NaiveAttention(h, q)
  OBVIOUS
<1>2. PICK S : S = {o \in {a, b, c, n} : o \in {c, n} \/ _FP8_ENABLED(h)}
  OBVIOUS
<1>3. NvidiaCandidates(h, q) \in Seq(S)
  <2>1. (_FP8_ENABLED(h) /\ h.fp8 \notin Te \cup {"scaled_mm"}) => a \in S
    BY <1>2
  <2>2. When(_FP8_ENABLED(h) /\ h.fp8 \notin Te \cup {"scaled_mm"}, a) \in Seq(S)
    BY <2>1, WhenIsSeq, Zenon
  <2>3. (_FP8_ENABLED(h) /\ h.fp8 \in On \cup Te) => b \in S
    BY <1>2
  <2>4. When(_FP8_ENABLED(h) /\ h.fp8 \in On \cup Te, b) \in Seq(S)
    BY <2>3, WhenIsSeq, Zenon
  <2>5. <<c>> \in Seq(S)
    BY <1>2, OneIsSeq
  <2>6. QED  BY <1>1, <2>2, <2>4, <2>5, ConcatProperties DEF NvidiaCandidates
<1>4. op \in S /\ op.supports
  <2>1. op = FirstSupporting(NvidiaCandidates(h, q) \o <<NaiveAttention(h, q)>>)
    BY DEF select_attention_op
  <2>2. NaiveAttention(h, q) \in S
    BY <1>1, <1>2
  <2>3. QED  BY <1>3, <2>1, <2>2, NaiveServes
<1>5. op \in {c, n} \/ (op \in {a, b} /\ _FP8_ENABLED(h))
  BY <1>2, <1>4
<1>6. Suits(q, op)
  BY <1>1, <1>2, <1>4, SupportedSuits
<1>7. CASE op \in {c, n}
  BY <1>1, <1>4, <1>6, <1>7, OpFacts
     DEF Served, Declared, capabilities, cuda_capabilities, Fp8Ops, TritonOps
<1>8. CASE op \in {a, b} /\ _FP8_ENABLED(h)
  BY <1>1, <1>4, <1>6, <1>8, OpFacts, VendorOpFacts
     DEF Served, Declared, capabilities, cuda_capabilities, Fp8Ops, TritonOps
<1>9. QED  BY <1>5, <1>7, <1>8

LEMMA IntelServes ==
    ASSUME NEW h, NEW q, NEW op, op = select_attention_op("intel", h, q)
    PROVE  Served("intel", h, q, op)
<1>1. PICK a, b, c, d, e, n :
         /\ a = AMXInt8FlashAttention(h, q) /\ b = AMXFP16FlashAttention(h, q)
         /\ c = AMXFlashAttention(h, q) /\ d = IPEXFlashAttention(h, q)
         /\ e = AMXSDPAAttention(h, q) /\ n = NaiveAttention(h, q)
  OBVIOUS
<1>2. PICK S : S = {o \in {a, b, c, d, e, n} : o \in {a, b, c, e, n} \/ _AMX_ENABLED(h)}
  OBVIOUS
<1>3. IntelCandidates(h, q) \in Seq(S)
  <2>1. When(h.amx = "int8", a) \in Seq(S)
    <3>1. (h.amx = "int8") => a \in S
      BY <1>2
    <3>2. QED  BY <3>1, WhenIsSeq, Zenon
  <2>2. When(h.amx \in On \cup {"fp16"}, b) \in Seq(S)
    <3>1. (h.amx \in On \cup {"fp16"}) => b \in S
      BY <1>2
    <3>2. QED  BY <3>1, WhenIsSeq, Zenon
  <2>3. When(_AMX_ENABLED(h) /\ h.amx \notin {"ipex", "int8", "fp16"}, c) \in Seq(S)
    <3>1. (_AMX_ENABLED(h) /\ h.amx \notin {"ipex", "int8", "fp16"}) => c \in S
      BY <1>2
    <3>2. QED  BY <3>1, WhenIsSeq, Zenon
  <2>4. When(_AMX_ENABLED(h) /\ h.amx \notin {"amx", "int8", "fp16"}, d) \in Seq(S)
    <3>1. (_AMX_ENABLED(h) /\ h.amx \notin {"amx", "int8", "fp16"}) => d \in S
      BY <1>2
    <3>2. QED  BY <3>1, WhenIsSeq, Zenon
  <2>5. <<e>> \in Seq(S)
    BY <1>2, OneIsSeq
  <2>6. QED  BY <1>1, <2>1, <2>2, <2>3, <2>4, <2>5, ConcatProperties DEF IntelCandidates
<1>4. op \in S /\ op.supports
  <2>1. op = FirstSupporting(IntelCandidates(h, q) \o <<NaiveAttention(h, q)>>)
    BY DEF select_attention_op
  <2>2. NaiveAttention(h, q) \in S
    BY <1>1, <1>2
  <2>3. QED  BY <1>3, <2>1, <2>2, NaiveServes
<1>5. op \in {e, n} \/ op \in {a, b, c} \/ (op = d /\ _AMX_ENABLED(h))
  BY <1>2, <1>4
<1>6. Suits(q, op)
  BY <1>1, <1>2, <1>4, SupportedSuits
<1>7. CASE op \in {e, n}
  BY <1>1, <1>4, <1>6, <1>7, OpFacts, VendorOpFacts
     DEF Served, Declared, capabilities, cpu_capabilities, Fp8Ops, TritonOps
<1>8. CASE op \in {a, b, c}
  BY <1>1, <1>4, <1>6, <1>8, VendorOpFacts
     DEF Served, Declared, capabilities, cpu_capabilities, features, Fp8Ops, TritonOps
<1>9. CASE op = d /\ _AMX_ENABLED(h)
  BY <1>1, <1>4, <1>6, <1>9, VendorOpFacts
     DEF Served, Declared, capabilities, cpu_capabilities, Fp8Ops, TritonOps
<1>10. QED  BY <1>5, <1>7, <1>8, <1>9

\* The vendors.
LEMMA VendorFacts ==
    ASSUME NEW h, NEW prefer, NEW v, v = select_backend(h, prefer)
    PROVE  v \in {NoBackend, "amd", "nvidia", "intel"}
<1>1. PICK b : b = _ALL_BACKENDS(h)
  OBVIOUS
<1>2. b = <<ROCmBackend(h), CUDABackend(h), CPUBackend(h)>>
  BY <1>1 DEF _ALL_BACKENDS
<1>3. /\ b[1] = ROCmBackend(h) /\ b[2] = CUDABackend(h) /\ b[3] = CPUBackend(h)
      /\ Len(b) = 3
  BY <1>2
<1>4. PICK I : I = {j \in 1 .. Len(b) : b[j].is_available /\ prefer \in {"any", b[j].name}}
  OBVIOUS
<1>5. CASE I = {}
  <2>1. v = NoBackend
    BY <1>1, <1>4, <1>5 DEF select_backend, SelectInSeq
  <2>2. QED  BY <2>1 DEF NoBackend
<1>6. CASE I # {}
  <2>1. I \in SUBSET Nat
    BY <1>3, <1>4
  <2>2. PICK m \in I : m = Min(I)
    BY <1>6, <2>1, MinIsMember
  <2>3. m \in 1 .. 3 /\ b[m].is_available
    BY <1>3, <1>4
  <2>4. v = b[m].vendor
    BY <1>1, <1>4, <1>6, <2>2, <2>3 DEF select_backend, SelectInSeq
  <2>5. b[1].vendor = "amd" /\ b[2].vendor = "nvidia" /\ b[3].vendor = "intel"
    BY <1>3 DEF ROCmBackend, CUDABackend, CPUBackend
  <2>6. m = 1 \/ m = 2 \/ m = 3
    BY <2>3
  <2>7. QED  BY <2>3, <2>4, <2>5, <2>6
<1>7. QED  BY <1>5, <1>6

\* Whatever the vendor, the registry's op serves as declared.
LEMMA RegistryServes ==
    ASSUME NEW v \in {"amd", "nvidia", "intel"}, NEW h, NEW q, NEW op,
           op = select_attention_op(v, h, q)
    PROVE  Served(v, h, q, op)
BY AmdServes, NvidiaServes, IntelServes

(***************************************************************************)
(* The inductive invariant of the attention calls                          *)
(***************************************************************************)
\* An op that may serve: on request when it is an FP8 op, and declared when it
\* comes through a backend.
Allowed(h, route, op) ==
    /\ op \in Fp8Ops /\ route # "ada" => _FP8_ENABLED(h)
    /\ route = "backend" => Declared(select_backend(h, h.prefer), h, op)

\* A call that may raise; torn: two saves have overlapped.
MayRaise(h, route, q, name, torn) ==
    \/ name = "none" /\ route = "backend" /\ select_backend(h, h.prefer) = NoBackend
    \/ name = "none" /\ route \in Bridges /\ q.lse
    \/ OpRaises(h, q, name)
    \/ SaveRaises(h, name, torn)

\* The backends a process has activated are those its environment asks for.
BridgesOK(h, a, w) ==
    /\ a = "repercep_fp8" \/ w = "repercep_fp8" => h.fp8 \in FP8_ENV_VALUES
    /\ a = "repercep_amx" => h.amx \in AMX_ENV_VALUES
    /\ w \in {"unset", "repercep_fp8"}

CallFieldNames == {"pc", "calls", "route", "q", "op", "cfg", "out", "cache", "fd"}
SavePcs == {"open", "write", "replace"}

\* a, w: the active backend and the Wan processors' one; c: the call, of a
\* Triton kernel; l: what the last call came to.
ProcOK(h, a, w, c, l, torn) ==
    /\ BridgesOK(h, a, w)
    /\ DOMAIN c = CallFieldNames
    /\ c.pc # "idle" => Allowed(h, c.route, c.op) /\ c.op \in TritonOps
    /\ c.pc \in {"tune", "load"} \cup SavePcs => ~ h.notune
    /\ c.pc \in {"load"} \cup SavePcs => "best_config" \in h.has
    /\ l.outcome = "ok" => Allowed(h, l.route, l.op)
    /\ l.outcome = "raised" => MayRaise(h, l.route, l.q, l.op, torn)

\* A process that saves is alone, and what it saves or has saved so far holds
\* every shape on file.
OnFile(f, content) == IF f = NoFile THEN NoEntries ELSE content[f].entries
SaveOK(p, calls, f, t, content) ==
    /\ \A r \in Procs : calls[r].pc \in SavePcs => r = p
    /\ DOMAIN OnFile(f, content) \subseteq DOMAIN calls[p].cache
    /\ calls[p].pc = "write" => t # NoFile /\ calls[p].fd = t /\ content[t] = Empty
    /\ calls[p].pc = "replace" => t # NoFile /\ content[t] = Json(calls[p].cache)

FilesOK ==
    /\ path \in Inodes \cup {NoFile} /\ tmp \in Inodes \cup {NoFile}
    /\ tmp # NoFile => tmp # path
    /\ DOMAIN disk = Inodes
    /\ ~clash => \A p \in Procs : call[p].pc \in SavePcs =>
                     SaveOK(p, call, path, tmp, disk)

AttentionInv ==
    /\ host \in Hosts /\ clash \in BOOLEAN
    /\ active = [p \in Procs |-> active[p]] /\ wan = [p \in Procs |-> wan[p]]
    /\ call = [p \in Procs |-> call[p]] /\ last = [p \in Procs |-> last[p]]
    /\ \A p \in Procs : ProcOK(host, active[p], wan[p], call[p], last[p], clash)
    /\ FilesOK

\* A bridge's fallback is never an FP8 op.
Fallbacks == {"sdpa", "nvidia-flash"}
LEMMA SdpaFacts ==
    ASSUME NEW h, NEW q, NEW op, op = Sdpa(h, q)
    PROVE  op.name = "sdpa" /\ (~ op.runs => OpRaises(h, q, op.name))
BY DEF Sdpa, Op, OpRaises, Rejected

LEMMA FallbackFacts ==
    ASSUME NEW h, NEW q, NEW op, op = _native_fallback(h, q)
    PROVE  op.name \in Fallbacks /\ (~ op.runs => OpRaises(h, q, op.name))
<1>1. PICK fa, sd : fa = HopperFlashAttention(h, q) /\ sd = Sdpa(h, q)
  OBVIOUS
<1>2. fa.name = "nvidia-flash"
  BY <1>1 DEF HopperFlashAttention, Flash, Op
<1>3. (op = fa /\ op.runs) \/ op = sd
  BY <1>1 DEF _native_fallback
<1>4. QED  BY <1>1, <1>2, <1>3, SdpaFacts DEF Fallbacks

\* The kernel a bridge keeps, once the route is taken.
LEMMA BridgeOpFacts ==
    ASSUME NEW h, NEW q, NEW op, op = BridgeOp(h, q), _route_should_use_fp8(q), "triton" \in h.has
    PROVE  op.name \in TritonOps /\ (~ op.runs => OpRaises(h, q, op.name))
<1>1. q.D \in TritonDims /\ SelfAttention(q)
  BY DEF _route_should_use_fp8
<1>2. {"fp8-triton-flash", "fp8-hopper-triton-flash"} \subseteq TritonOps
  BY DEF TritonOps
<1>3. PICK name \in TritonOps : op = Triton(h, q, name, "triton" \in h.has)
  BY <1>2 DEF BridgeOp, FP8TritonAttention, FP8HopperTritonAttention
<1>4. TritonSays(h, q, name, "triton" \in h.has, op)
  BY <1>3, TritonRuns
<1>5. QED  BY <1>1, <1>3, <1>4 DEF TritonSays

\* Where a call goes: an op that may serve, or an exception that may be raised.
TargetOK(h, route, q, op) ==
    /\ op.runs => Allowed(h, route, op.name)
    /\ ~ op.runs => MayRaise(h, route, q, op.name, FALSE)

LEMMA TargetFacts ==
    ASSUME NEW p, BridgesOK(host, active[p], wan[p]), NEW q,
           NEW route \in {"backend", "ada", "dispatcher", "wan"},
           route = "ada" => FP8AdaTritonAttention(host, q).supports,
           NEW op, op = Target(p, route, q)
    PROVE  TargetOK(host, route, q, op)
<1>1. CASE route = "backend"
  <2>1. PICK v : v = select_backend(host, host.prefer)
    OBVIOUS
  <2>2. CASE v = NoBackend
    <3>1. op.name = "none" /\ op.runs = FALSE
      BY <1>1, <2>1, <2>2 DEF Target, Bridges, Refused
    <3>2. QED  BY <1>1, <2>1, <2>2, <3>1 DEF TargetOK, MayRaise
  <2>3. CASE v # NoBackend
    <3>1. op = select_attention_op(v, host, q)
      BY <1>1, <2>1, <2>3 DEF Target, Bridges
    <3>2. v \in {"amd", "nvidia", "intel"}
      BY <2>1, <2>3, VendorFacts
    <3>3. Served(v, host, q, op)
      BY <3>1, <3>2, RegistryServes
    <3>4. QED  BY <1>1, <2>1, <3>3 DEF Served, Allowed, TargetOK, MayRaise
  <2>4. QED  BY <2>2, <2>3
<1>2. CASE route = "ada"
  <2>1. op = FP8AdaTritonAttention(host, q) /\ op.supports
    BY <1>2 DEF Target, Bridges
  <2>2. op.name = "fp8-ada-triton-flash" /\ (~ op.runs => OpRaises(host, q, op.name))
    BY <2>1, OpFacts
  <2>3. QED  BY <1>2, <2>2 DEF Allowed, TargetOK, MayRaise
<1>3. CASE route \in Bridges
  <2>1. PICK backend : backend = IF route = "wan" /\ wan[p] # "unset" THEN wan[p] ELSE active[p]
    OBVIOUS
  <2>2. op = CASE backend = "repercep_fp8" -> _repercep_fp8_attention(host, q)
               [] backend = "repercep_amx" -> _repercep_amx_attention(host, q)
               [] OTHER -> Sdpa(host, q)
    BY <1>3, <2>1 DEF Target, dispatch_attention_fn, Bridges
  <2>3. ASSUME op.name \in Fallbacks \cup {"amx-bf16-flash"}, ~ op.runs => OpRaises(host, q, op.name)
        PROVE  TargetOK(host, route, q, op)
    BY <1>3, <2>3 DEF TargetOK, Allowed, MayRaise, Fallbacks, Fp8Ops, TritonOps, Bridges
  <2>4. ASSUME q.lse, op = Refused
        PROVE  TargetOK(host, route, q, op)
    <3>1. op.name = "none" /\ op.runs = FALSE
      BY <2>4 DEF Refused
    <3>2. QED  BY <1>3, <2>4, <3>1 DEF TargetOK, MayRaise
  <2>5. CASE backend = "repercep_fp8"
    <3>1. op = _repercep_fp8_attention(host, q)
      BY <2>2, <2>5
    <3>2. host.fp8 \in FP8_ENV_VALUES
      BY <2>1, <2>5 DEF BridgesOK
    <3>3. CASE q.lse
      <4>1. op = Refused
        BY <3>1, <3>3 DEF _repercep_fp8_attention
      <4>2. QED  BY <2>4, <3>3, <4>1
    <3>4. CASE ~ q.lse
      <4>1. \/ op = _native_fallback(host, q)
            \/ /\ op = BridgeOp(host, q) /\ host.fp8 \notin {"fa", "flash"}
               /\ _route_should_use_fp8(q) /\ "triton" \in host.has
        BY <3>1, <3>4 DEF _repercep_fp8_attention
      <4>2. CASE op = _native_fallback(host, q)
        BY <2>3, <4>2, FallbackFacts
      <4>3. CASE /\ op = BridgeOp(host, q) /\ host.fp8 \notin {"fa", "flash"}
                 /\ _route_should_use_fp8(q) /\ "triton" \in host.has
        <5>1. op.name \in TritonOps /\ (~ op.runs => OpRaises(host, q, op.name))
          BY <4>3, BridgeOpFacts
        <5>2. _FP8_ENABLED(host)
          BY <3>2, <4>3 DEF FP8_ENV_VALUES, _FP8_ENABLED
        <5>3. QED  BY <1>3, <5>1, <5>2 DEF Allowed, TargetOK, MayRaise, Bridges
      <4>4. QED  BY <4>1, <4>2, <4>3
    <3>5. QED  BY <3>3, <3>4
  <2>6. CASE backend = "repercep_amx"
    <3>1. op = _repercep_amx_attention(host, q)
      BY <2>2, <2>6
    <3>2. CASE q.lse
      <4>1. op = Refused
        BY <3>1, <3>2 DEF _repercep_amx_attention
      <4>2. QED  BY <2>4, <3>2, <4>1
    <3>3. CASE ~ q.lse
      <4>1. \/ op = Sdpa(host, q)
            \/ op = AMXFlashAttention(host, q) /\ {"amx_bf16", "amx_native"} \subseteq host.has
        BY <3>1, <3>3 DEF _repercep_amx_attention
      <4>2. CASE op = Sdpa(host, q)
        BY <2>3, <4>2, SdpaFacts DEF Fallbacks
      <4>3. CASE op = AMXFlashAttention(host, q) /\ {"amx_bf16", "amx_native"} \subseteq host.has
        <5>1. "amx-bf16-flash" \in AmxOps
          BY DEF AmxOps
        <5>2. op.name = "amx-bf16-flash" /\ (~ op.runs => OpRaises(host, q, op.name))
          <6>1. AmxSays(host, q, "amx-bf16-flash", "amx_bf16", op)
            BY <4>3, <5>1, AmxRuns DEF AMXFlashAttention
          <6>2. QED  BY <4>3, <6>1 DEF AmxSays
        <5>3. QED  BY <2>3, <5>2
      <4>4. QED  BY <4>1, <4>2, <4>3
    <3>4. QED  BY <3>2, <3>3
  <2>7. CASE backend \notin {"repercep_fp8", "repercep_amx"}
    <3>1. op = Sdpa(host, q)
      BY <2>2, <2>7
    <3>2. QED  BY <2>3, <3>1, SdpaFacts DEF Fallbacks
  <2>8. QED  BY <2>5, <2>6, <2>7
<1>4. QED  BY <1>1, <1>2, <1>3 DEF Bridges

(***************************************************************************)
(* Every step keeps the invariant                                          *)
(***************************************************************************)
\* What the updates of a call build.
LEMMA IdleFields ==
    ASSUME NEW n, NEW d, d = Idle(n)
    PROVE  DOMAIN d = CallFieldNames /\ d.pc = "idle" /\ d.fd = NoFile
BY DEF Idle, CallFieldNames

\* What a process knows it still knows when saves have overlapped since.
LEMMA StillKnown ==
    ASSUME NEW h, NEW a, NEW w, NEW c, NEW l, NEW torn, NEW now, torn => now,
           ProcOK(h, a, w, c, l, torn)
    PROVE  ProcOK(h, a, w, c, l, now)
<1>1. ASSUME l.outcome = "raised"
      PROVE  MayRaise(h, l.route, l.q, l.op, now)
  <2>1. MayRaise(h, l.route, l.q, l.op, torn)
    BY <1>1 DEF ProcOK
  <2>2. SaveRaises(h, l.op, torn) => SaveRaises(h, l.op, now)
    BY DEF SaveRaises
  <2>3. QED  BY <2>1, <2>2 DEF MayRaise
<1>2. QED  BY <1>1 DEF ProcOK

\* What one process knows after a step of it.
LEMMA OneProcess ==
    ASSUME AttentionInv, NEW p \in Procs, host' = host, clash' \in BOOLEAN, clash => clash',
           NEW a, NEW w, NEW c, NEW l,
           active' = [active EXCEPT ![p] = a], wan' = [wan EXCEPT ![p] = w],
           call' = [call EXCEPT ![p] = c], last' = [last EXCEPT ![p] = l],
           ProcOK(host, a, w, c, l, clash'), FilesOK'
    PROVE  AttentionInv'
<1>1. ASSUME NEW r \in Procs
      PROVE  ProcOK(host, active'[r], wan'[r], call'[r], last'[r], clash')
  <2>1. CASE r = p
    <3>1. active'[r] = a /\ wan'[r] = w /\ call'[r] = c /\ last'[r] = l
      BY <2>1 DEF AttentionInv
    <3>2. QED  BY <3>1
  <2>2. CASE r # p
    <3>1. /\ active'[r] = active[r] /\ wan'[r] = wan[r] /\ call'[r] = call[r]
          /\ last'[r] = last[r]
      BY <2>2 DEF AttentionInv
    <3>2. ProcOK(host, active[r], wan[r], call[r], last[r], clash)
      BY DEF AttentionInv
    <3>3. ProcOK(host, active[r], wan[r], call[r], last[r], clash')
      BY <3>2, StillKnown
    <3>4. QED  BY <3>1, <3>3
  <2>3. QED  BY <2>1, <2>2
<1>2. /\ active' = [r \in Procs |-> active'[r]] /\ wan' = [r \in Procs |-> wan'[r]]
      /\ call' = [r \in Procs |-> call'[r]] /\ last' = [r \in Procs |-> last'[r]]
  BY DEF AttentionInv
<1>3. host' \in Hosts
  BY DEF AttentionInv
<1>4. QED  BY <1>1, <1>2, <1>3 DEF AttentionInv

\* The parts of a process that a step of it leaves alone.
LEMMA ProcessParts ==
    ASSUME AttentionInv, NEW p \in Procs
    PROVE  /\ active = [active EXCEPT ![p] = active[p]] /\ wan = [wan EXCEPT ![p] = wan[p]]
           /\ call = [call EXCEPT ![p] = call[p]] /\ last = [last EXCEPT ![p] = last[p]]
           /\ ProcOK(host, active[p], wan[p], call[p], last[p], clash)
           /\ clash \in BOOLEAN
BY DEF AttentionInv

\* Files stay as they are, and the process does not save.
LEMMA FilesStay ==
    ASSUME AttentionInv, NEW p \in Procs, NEW c, c.pc \notin SavePcs,
           call' = [call EXCEPT ![p] = c], UNCHANGED fileVars
    PROVE  FilesOK'
<1>1. path' = path /\ tmp' = tmp /\ disk' = disk /\ clash' = clash
  BY DEF fileVars
<1>2. call'[p] = c /\ \A r \in Procs : r # p => call'[r] = call[r]
  BY DEF AttentionInv
<1>3. ASSUME ~ clash', NEW r \in Procs, call'[r].pc \in SavePcs
      PROVE  SaveOK(r, call', path', tmp', disk')
  <2>1. r # p /\ call'[r] = call[r]
    BY <1>2, <1>3
  <2>2. SaveOK(r, call, path, tmp, disk)
    BY <1>1, <1>3, <2>1 DEF AttentionInv, FilesOK
  <2>3. OnFile(path', disk') = OnFile(path, disk)
    BY <1>1
  <2>4. \A i \in Procs : call'[i].pc \in SavePcs => i = r
    <3>1. ASSUME NEW i \in Procs, call'[i].pc \in SavePcs
          PROVE  i = r
      <4>1. i # p /\ call'[i] = call[i]
        BY <1>2, <3>1
      <4>2. QED  BY <2>2, <3>1, <4>1 DEF SaveOK
    <3>2. QED  BY <3>1
  <2>5. DOMAIN OnFile(path, disk) \subseteq DOMAIN call'[r].cache
    BY <2>1, <2>2 DEF SaveOK
  <2>6. /\ call'[r].pc = "write" => tmp' # NoFile /\ call'[r].fd = tmp' /\ disk'[tmp'] = Empty
        /\ call'[r].pc = "replace" => tmp' # NoFile /\ disk'[tmp'] = Json(call'[r].cache)
    BY <1>1, <2>1, <2>2 DEF SaveOK
  <2>7. QED  BY <2>3, <2>4, <2>5, <2>6 DEF SaveOK
<1>4. /\ path' \in Inodes \cup {NoFile} /\ tmp' \in Inodes \cup {NoFile}
      /\ tmp' # NoFile => tmp' # path'
      /\ DOMAIN disk' = Inodes
  BY <1>1 DEF AttentionInv, FilesOK
<1>5. QED  BY <1>3, <1>4 DEF FilesOK

\* A step outside the save.
LEMMA OwnStep ==
    ASSUME AttentionInv, NEW p \in Procs, host' = host, NEW a, NEW w, NEW c, NEW l,
           active' = [active EXCEPT ![p] = a], wan' = [wan EXCEPT ![p] = w],
           call' = [call EXCEPT ![p] = c], last' = [last EXCEPT ![p] = l],
           ProcOK(host, a, w, c, l, clash), c.pc \notin SavePcs, UNCHANGED fileVars
    PROVE  AttentionInv'
<1>1. FilesOK'
  BY FilesStay
<1>2. clash' = clash /\ clash' \in BOOLEAN
  BY DEF fileVars, AttentionInv
<1>3. QED  BY <1>1, <1>2, OneProcess

\* The bridges' activations.
LEMMA ActivationKeeps ==
    ASSUME AttentionInv, NEW p \in Procs,
           \/ maybe_activate_from_env(p) \/ amx_maybe_activate_from_env(p)
           \/ maybe_install_repercep_wan_attention(p)
    PROVE  AttentionInv'
<1>1. PICK c, l : c = call[p] /\ l = last[p]
  OBVIOUS
<1>2. /\ ProcOK(host, active[p], wan[p], c, l, clash) /\ c.pc = "idle"
      /\ host' = host /\ UNCHANGED fileVars
      /\ call' = [call EXCEPT ![p] = c] /\ last' = [last EXCEPT ![p] = l]
  BY <1>1, ProcessParts DEF maybe_activate_from_env, amx_maybe_activate_from_env,
                            maybe_install_repercep_wan_attention, Loading, At
<1>3. c.pc \notin SavePcs
  BY <1>2 DEF SavePcs
<1>4. CASE maybe_activate_from_env(p)
  <2>1. PICK a, w : a = "repercep_fp8" /\ w = wan[p]
    OBVIOUS
  <2>2. /\ active' = [active EXCEPT ![p] = a] /\ wan' = [wan EXCEPT ![p] = w]
        /\ host.fp8 \in FP8_ENV_VALUES
    BY <1>4, <2>1, ProcessParts DEF maybe_activate_from_env
  <2>3. ProcOK(host, a, w, c, l, clash)
    BY <1>2, <2>1, <2>2 DEF ProcOK, BridgesOK
  <2>4. QED  BY <1>2, <1>3, <2>2, <2>3, OwnStep
<1>5. CASE amx_maybe_activate_from_env(p)
  <2>1. PICK a, w : a = "repercep_amx" /\ w = wan[p]
    OBVIOUS
  <2>2. /\ active' = [active EXCEPT ![p] = a] /\ wan' = [wan EXCEPT ![p] = w]
        /\ host.amx \in AMX_ENV_VALUES
    BY <1>5, <2>1, ProcessParts DEF amx_maybe_activate_from_env
  <2>3. ProcOK(host, a, w, c, l, clash)
    BY <1>2, <2>1, <2>2 DEF ProcOK, BridgesOK
  <2>4. QED  BY <1>2, <1>3, <2>2, <2>3, OwnStep
<1>6. CASE maybe_install_repercep_wan_attention(p)
  <2>1. PICK a, w : a = active[p] /\ w = "repercep_fp8"
    OBVIOUS
  <2>2. /\ active' = [active EXCEPT ![p] = a] /\ wan' = [wan EXCEPT ![p] = w]
        /\ host.fp8 \in FP8_ENV_VALUES
    BY <1>6, <2>1, ProcessParts DEF maybe_install_repercep_wan_attention
  <2>3. ProcOK(host, a, w, c, l, clash)
    BY <1>2, <2>1, <2>2 DEF ProcOK, BridgesOK
  <2>4. QED  BY <1>2, <1>3, <2>2, <2>3, OwnStep
<1>7. QED  BY <1>4, <1>5, <1>6

\* What Return leaves of a call that is allowed, or known to raise.
LastOK(h, l, torn) ==
    /\ l.outcome = "ok" => Allowed(h, l.route, l.op)
    /\ l.outcome = "raised" => MayRaise(h, l.route, l.q, l.op, torn)
LEMMA ReturnOK ==
    ASSUME NEW p, NEW outcome, NEW route, NEW q, NEW op, NEW result,
           Return(p, outcome, route, q, op, result),
           outcome = "ok" => Allowed(host, route, op),
           outcome = "raised" => MayRaise(host, route, q, op, clash)
    PROVE  \E l : last' = [last EXCEPT ![p] = l] /\ LastOK(host, l, clash)
<1>1. PICK l : l = [outcome |-> outcome, route |-> route, q |-> q, op |-> op, result |-> result]
  OBVIOUS
<1>2. l.outcome = outcome /\ l.route = route /\ l.q = q /\ l.op = op
  BY <1>1
<1>3. last' = [last EXCEPT ![p] = l]
  BY <1>1 DEF Return
<1>4. QED  BY <1>2, <1>3 DEF LastOK

\* A raise that is known of, of whatever op.
LEMMA RaiseOK ==
    ASSUME NEW p, NEW route, NEW q, NEW name, Raise(p, route, q, name),
           NEW torn, torn => clash, MayRaise(host, route, q, name, torn)
    PROVE  \E l : last' = [last EXCEPT ![p] = l] /\ LastOK(host, l, clash)
<1>1. PICK nothing, raised : nothing = <<>> /\ raised = "raised"
  OBVIOUS
<1>2. Return(p, raised, route, q, name, nothing)
  BY <1>1 DEF Raise
<1>3. MayRaise(host, route, q, name, clash)
  BY DEF MayRaise, SaveRaises
<1>4. raised # "ok"
  BY <1>1
<1>5. QED  BY <1>2, <1>3, <1>4, ReturnOK

\* A result that is delivered, or served again by a fallback.
LEMMA DeliverOK ==
    ASSUME NEW p, NEW route, NEW q, NEW name, NEW out, Deliver(p, route, q, name, out),
           Allowed(host, route, name)
    PROVE  \E l : last' = [last EXCEPT ![p] = l] /\ LastOK(host, l, clash)
<1>1. PICK ok : ok = "ok"
  OBVIOUS
<1>2. CASE Return(p, "ok", route, q, name, out)
  <2>1. Return(p, ok, route, q, name, out) /\ ok # "raised"
    BY <1>1, <1>2
  <2>2. QED  BY <2>1, ReturnOK
<1>3. CASE route \in Bridges /\ \E op \in {_native_fallback(host, q), Sdpa(host, q)} :
                                    Serve(p, route, q, op)
  <2>1. PICK op \in {_native_fallback(host, q), Sdpa(host, q)} : Serve(p, route, q, op)
    BY <1>3
  <2>2. op.name \in Fallbacks /\ (~ op.runs => OpRaises(host, q, op.name))
    BY <2>1, FallbackFacts, SdpaFacts DEF Fallbacks
  <2>3. PICK n, result : n = op.name /\ result = Result(op.name, q)
    OBVIOUS
  <2>4. CASE op.runs
    <3>1. Return(p, ok, route, q, n, result) /\ ok # "raised"
      BY <1>1, <2>1, <2>3, <2>4 DEF Serve
    <3>2. Allowed(host, route, n)
      BY <1>3, <2>2, <2>3 DEF Allowed, Fallbacks, Fp8Ops, TritonOps, Bridges
    <3>3. QED  BY <3>1, <3>2, ReturnOK
  <2>5. CASE ~ op.runs
    <3>1. Raise(p, route, q, n)
      BY <2>1, <2>3, <2>5 DEF Serve
    <3>2. PICK torn : torn = FALSE
      OBVIOUS
    <3>3. MayRaise(host, route, q, n, torn) /\ (torn => clash)
      BY <2>2, <2>3, <2>5, <3>2 DEF MayRaise
    <3>4. QED  BY <3>1, <3>3, RaiseOK
  <2>6. QED  BY <2>4, <2>5
<1>4. QED  BY <1>2, <1>3 DEF Deliver

\* A call begins, and unless a Triton kernel serves it ends.
LEMMA CallKeeps ==
    ASSUME AttentionInv, NEW p \in Procs, NEW route \in host.routes, NEW q, Call(p, route, q)
    PROVE  AttentionInv'
<1>1. PICK op, t : op = Target(p, route, q) /\ t = op.name
  OBVIOUS
<1>2. PICK a, w, n : a = active[p] /\ w = wan[p] /\ n = call[p].calls + 1
  OBVIOUS
<1>3. /\ ProcOK(host, a, w, call[p], last[p], clash)
      /\ active' = [active EXCEPT ![p] = a] /\ wan' = [wan EXCEPT ![p] = w]
      /\ host' = host /\ UNCHANGED fileVars
  BY <1>2, ProcessParts DEF Call
<1>4. route \in {"backend", "ada", "dispatcher", "wan"}
  BY AttentionAssumption DEF AttentionInv
<1>5. TargetOK(host, route, q, op)
  <2>1. route = "ada" => FP8AdaTritonAttention(host, q).supports
    BY DEF Call
  <2>2. BridgesOK(host, active[p], wan[p])
    BY <1>2, <1>3 DEF ProcOK
  <2>3. QED  BY <1>1, <1>4, <2>1, <2>2, TargetFacts
<1>6. CASE op.runs /\ t \in TritonOps
  <2>1. PICK c, i : i = Idle(n) /\
          c = [i EXCEPT !.pc = "resolve", !.route = route, !.q = q, !.op = t]
    OBVIOUS
  <2>2. /\ call' = [call EXCEPT ![p] = c] /\ last' = last
    BY <1>1, <1>2, <1>6, <2>1 DEF Call
  <2>3. DOMAIN i = CallFieldNames
    BY <2>1, IdleFields
  <2>4. DOMAIN c = CallFieldNames /\ c.pc = "resolve" /\ c.route = route /\ c.op = t
    BY <2>1, <2>3 DEF CallFieldNames
  <2>5. PICK l : l = last[p] /\ last' = [last EXCEPT ![p] = l]
    BY <2>2, ProcessParts
  <2>6. Allowed(host, route, t)
    BY <1>1, <1>5, <1>6 DEF TargetOK
  <2>7. ProcOK(host, a, w, c, l, clash) /\ c.pc \notin SavePcs
    BY <1>3, <1>6, <2>4, <2>5, <2>6 DEF ProcOK, SavePcs
  <2>8. QED  BY <1>3, <2>2, <2>5, <2>7, OwnStep
<1>7. CASE ~ (op.runs /\ t \in TritonOps)
  <2>1. PICK c : c = Idle(n)
    OBVIOUS
  <2>2. call' = [call EXCEPT ![p] = c]
    BY <1>1, <1>2, <1>7, <2>1 DEF Call
  <2>3. DOMAIN c = CallFieldNames /\ c.pc = "idle"
    BY <2>1, IdleFields
  <2>4. PICK l : last' = [last EXCEPT ![p] = l] /\ LastOK(host, l, clash)
    <3>1. CASE op.runs
      <4>1. PICK out : out = Result(t, q)
        OBVIOUS
      <4>2. Deliver(p, route, q, t, out)
        BY <1>1, <1>7, <3>1, <4>1 DEF Call
      <4>3. Allowed(host, route, t)
        BY <1>1, <1>5, <3>1 DEF TargetOK
      <4>4. QED  BY <4>2, <4>3, DeliverOK
    <3>2. CASE ~ op.runs
      <4>1. PICK torn : torn = FALSE
        OBVIOUS
      <4>2. Raise(p, route, q, t)
        BY <1>1, <1>7, <3>2 DEF Call
      <4>3. MayRaise(host, route, q, t, torn) /\ (torn => clash)
        BY <1>1, <1>5, <3>2, <4>1 DEF TargetOK
      <4>4. QED  BY <4>2, <4>3, RaiseOK
    <3>3. QED  BY <3>1, <3>2
  <2>5. ProcOK(host, a, w, c, l, clash) /\ c.pc \notin SavePcs
    BY <1>3, <2>3, <2>4 DEF ProcOK, LastOK, SavePcs
  <2>6. QED  BY <1>3, <2>2, <2>4, <2>5, OwnStep
<1>8. QED  BY <1>6, <1>7

\* The kernel's configuration, launches and tuning.
LEMMA KernelKeeps ==
    ASSUME AttentionInv, NEW p \in Procs,
           Resolve(p) \/ Launch(p) \/ \E winner \in Fastest : Tune(p, winner)
    PROVE  AttentionInv'
<1>1. PICK a, w, c, l : a = active[p] /\ w = wan[p] /\ c = call[p] /\ l = last[p]
  OBVIOUS
<1>2. /\ ProcOK(host, a, w, c, l, clash) /\ c.pc # "idle"
      /\ host' = host /\ UNCHANGED fileVars
      /\ active' = [active EXCEPT ![p] = a] /\ wan' = [wan EXCEPT ![p] = w]
      /\ last' = [last EXCEPT ![p] = l]
  BY <1>1, ProcessParts DEF Resolve, Launch, Tune, At
<1>3. DOMAIN c = CallFieldNames
  BY <1>2 DEF ProcOK
<1>4. \E d : /\ call' = [call EXCEPT ![p] = d] /\ DOMAIN d = CallFieldNames
             /\ d.pc \in {"tune", "launch", "finish", "load"}
             /\ d.pc \in {"tune", "load"} => ~ host.notune
             /\ d.pc = "load" => "best_config" \in host.has
             /\ d.route = c.route /\ d.op = c.op
  <2>1. CASE Resolve(p)
    <3>1. PICK found : found = IF host.notune THEN {Fallback(call[p].op)}
                               ELSE _resolve_config(call[p].q)
      OBVIOUS
    <3>2. PICK y : y = CHOOSE f \in found : TRUE
      OBVIOUS
    <3>3. PICK d, e : d = [c EXCEPT !.pc = "tune"] /\ e = [c EXCEPT !.pc = "launch", !.cfg = y]
      OBVIOUS
    <3>4. /\ DOMAIN d = CallFieldNames /\ d.pc = "tune" /\ d.route = c.route /\ d.op = c.op
          /\ DOMAIN e = CallFieldNames /\ e.pc = "launch" /\ e.route = c.route /\ e.op = c.op
      BY <1>3, <3>3 DEF CallFieldNames
    <3>5. call' = [call EXCEPT ![p] = IF found = {} THEN d ELSE e]
      BY <1>1, <2>1, <3>1, <3>2, <3>3 DEF Resolve
    <3>6. \/ call' = [call EXCEPT ![p] = d] /\ ~ host.notune
          \/ call' = [call EXCEPT ![p] = e]
      BY <3>1, <3>5
    <3>7. QED  BY <3>4, <3>6
  <2>2. CASE Launch(p)
    <3>1. PICK y : y = KernelResult(call[p].op, call[p].q, call[p].cfg)
      OBVIOUS
    <3>2. PICK d : d = [c EXCEPT !.pc = "finish", !.out = y]
      OBVIOUS
    <3>3. call' = [call EXCEPT ![p] = d]
      BY <1>1, <2>2, <3>1, <3>2 DEF Launch
    <3>4. DOMAIN d = CallFieldNames /\ d.pc = "finish" /\ d.route = c.route /\ d.op = c.op
      BY <1>3, <3>2 DEF CallFieldNames
    <3>5. QED  BY <3>3, <3>4
  <2>3. CASE \E winner \in Fastest : Tune(p, winner)
    <3>1. PICK winner \in Fastest : Tune(p, winner)
      BY <2>3
    <3>2. PICK x, z : /\ x = IF "best_config" \in host.has THEN "load" ELSE "finish"
                      /\ z = KernelResult(call[p].op, call[p].q, winner)
      OBVIOUS
    <3>3. PICK d : d = [c EXCEPT !.pc = x, !.cfg = winner, !.out = z]
      OBVIOUS
    <3>4. call' = [call EXCEPT ![p] = d]
      BY <1>1, <3>1, <3>2, <3>3 DEF Tune
    <3>5. DOMAIN d = CallFieldNames /\ d.pc = x /\ d.route = c.route /\ d.op = c.op
      BY <1>3, <3>3 DEF CallFieldNames
    <3>6. d.pc \in {"load", "finish"} /\ (d.pc = "load" => "best_config" \in host.has)
      BY <3>2, <3>5
    <3>7. ~ host.notune
      BY <1>1, <1>2, <3>1 DEF Tune, At, ProcOK
    <3>8. QED  BY <3>4, <3>5, <3>6, <3>7
  <2>4. QED  BY <2>1, <2>2, <2>3
<1>5. PICK d : /\ call' = [call EXCEPT ![p] = d] /\ DOMAIN d = CallFieldNames
               /\ d.pc \in {"tune", "launch", "finish", "load"}
               /\ d.pc \in {"tune", "load"} => ~ host.notune
               /\ d.pc = "load" => "best_config" \in host.has
               /\ d.route = c.route /\ d.op = c.op
  BY <1>4
<1>6. ProcOK(host, a, w, d, l, clash) /\ d.pc \notin SavePcs
  BY <1>2, <1>5 DEF ProcOK, SavePcs
<1>7. QED  BY <1>2, <1>5, <1>6, OwnStep

\* The end of a kernel's call.
LEMMA FinishKeeps ==
    ASSUME AttentionInv, NEW p \in Procs, Finish(p)
    PROVE  AttentionInv'
<1>1. PICK a, w, c, i : a = active[p] /\ w = wan[p] /\ c = call[p] /\ i = Idle(c.calls)
  OBVIOUS
<1>2. /\ ProcOK(host, a, w, c, last[p], clash) /\ c.pc = "finish"
      /\ host' = host /\ UNCHANGED fileVars
      /\ active' = [active EXCEPT ![p] = a] /\ wan' = [wan EXCEPT ![p] = w]
  BY <1>1, ProcessParts DEF Finish, At
<1>3. call' = [call EXCEPT ![p] = i]
  BY <1>1 DEF Finish
<1>4. DOMAIN i = CallFieldNames /\ i.pc = "idle"
  BY <1>1, IdleFields
<1>5. PICK l : last' = [last EXCEPT ![p] = l] /\ LastOK(host, l, clash)
  <2>1. PICK r, q, o, out : r = c.route /\ q = c.q /\ o = c.op /\ out = c.out
    OBVIOUS
  <2>2. Deliver(p, r, q, o, out)
    BY <1>1, <2>1 DEF Finish
  <2>3. Allowed(host, r, o)
    BY <1>2, <2>1 DEF ProcOK
  <2>4. QED  BY <2>2, <2>3, DeliverOK
<1>6. ProcOK(host, a, w, i, l, clash) /\ i.pc \notin SavePcs
  BY <1>2, <1>4, <1>5 DEF ProcOK, LastOK, SavePcs
<1>7. QED  BY <1>2, <1>3, <1>5, <1>6, OwnStep

\* The process dies; the files stay.
LEMMA CrashKeeps ==
    ASSUME AttentionInv, NEW p \in Procs, Crash(p)
    PROVE  AttentionInv'
<1>1. PICK i : i = Idle(call[p].calls)
  OBVIOUS
<1>2. call' = [call EXCEPT ![p] = i] /\ host' = host /\ UNCHANGED fileVars
  BY <1>1 DEF Crash
<1>3. PICK a, w, l : a = "native" /\ w = "unset" /\ l = [outcome |-> "none"]
  OBVIOUS
<1>4. DOMAIN i = CallFieldNames /\ i.pc = "idle"
  BY <1>1, IdleFields
<1>5. l.outcome = "none"
  BY <1>3
<1>6. ProcOK(host, a, w, i, l, clash) /\ i.pc \notin SavePcs
  BY <1>3, <1>4, <1>5 DEF ProcOK, BridgesOK, SavePcs
<1>7. /\ active' = [active EXCEPT ![p] = a] /\ wan' = [wan EXCEPT ![p] = w]
      /\ last' = [last EXCEPT ![p] = l]
  BY <1>3 DEF Crash
<1>8. QED  BY <1>2, <1>6, <1>7, OwnStep

(***************************************************************************)
(* The save of a tuning                                                    *)
(***************************************************************************)
\* A process that saves, or has just renamed its file.
LEMMA SaverStep ==
    ASSUME AttentionInv, NEW p \in Procs, NEW c, call' = [call EXCEPT ![p] = c],
           NEW f, NEW t, NEW content, f = path', t = tmp', content = disk',
           f \in Inodes \cup {NoFile}, t \in Inodes \cup {NoFile}, t # NoFile => t # f,
           DOMAIN content = Inodes,
           ~clash' => \A r \in Procs : call[r].pc \in SavePcs => r = p,
           ~clash' /\ c.pc \in SavePcs =>
               /\ DOMAIN OnFile(f, content) \subseteq DOMAIN c.cache
               /\ c.pc = "write" => t # NoFile /\ c.fd = t /\ content[t] = Empty
               /\ c.pc = "replace" => t # NoFile /\ content[t] = Json(c.cache)
    PROVE  FilesOK'
<1>1. call'[p] = c /\ \A r \in Procs : r # p => call'[r] = call[r]
  BY DEF AttentionInv
<1>2. ASSUME ~ clash', NEW r \in Procs, call'[r].pc \in SavePcs
      PROVE  SaveOK(r, call', path', tmp', disk')
  <2>1. r = p
    BY <1>1, <1>2
  <2>2. \A i \in Procs : call'[i].pc \in SavePcs => i = r
    BY <1>1, <1>2, <2>1
  <2>3. call'[r] = c
    BY <1>1, <2>1
  <2>4. SaveOK(r, call', f, t, content)
    BY <1>2, <2>2, <2>3 DEF SaveOK
  <2>5. QED  BY <2>4
<1>3. QED  BY <1>2 DEF FilesOK

\* What a saving process knows as long as no two saves overlap.
LEMMA SavesAlone ==
    ASSUME AttentionInv, NEW p \in Procs, call[p].pc \in SavePcs, ~ clash
    PROVE  SaveOK(p, call, path, tmp, disk)
BY DEF AttentionInv, FilesOK

\* A recorded tuning keeps what was on file.
LEMMA RecordedKeeps ==
    ASSUME NEW entries, NEW c
    PROVE  DOMAIN entries \subseteq DOMAIN Recorded(entries, c)
BY DEF Recorded

LEMMA RecordLoadKeeps ==
    ASSUME AttentionInv, NEW p \in Procs, RecordLoad(p)
    PROVE  AttentionInv'
<1>1. PICK a, w, c, l : a = active[p] /\ w = wan[p] /\ c = call[p] /\ l = last[p]
  OBVIOUS
<1>2. PICK entries : entries = Recorded(OnFile(path, disk), c)
  OBVIOUS
<1>3. PICK d : d = [c EXCEPT !.pc = "open", !.cache = entries]
  OBVIOUS
<1>4. /\ ProcOK(host, a, w, c, l, clash) /\ c.pc = "load"
      /\ host' = host /\ active' = [active EXCEPT ![p] = a] /\ wan' = [wan EXCEPT ![p] = w]
      /\ last' = [last EXCEPT ![p] = l]
  BY <1>1, ProcessParts DEF RecordLoad, At
<1>5. call' = [call EXCEPT ![p] = d]
  <2>1. entries = Recorded(_cache_load, call[p])
    BY <1>1, <1>2 DEF _cache_load, OnFile
  <2>2. QED  BY <1>1, <1>3, <2>1 DEF RecordLoad
<1>6. DOMAIN c = CallFieldNames
  BY <1>4 DEF ProcOK
<1>7. /\ DOMAIN d = CallFieldNames /\ d.pc = "open" /\ d.route = c.route /\ d.op = c.op
      /\ d.cache = entries
  BY <1>3, <1>6 DEF CallFieldNames
<1>8. clash' = (clash \/ Saving # {}) /\ path' = path /\ tmp' = tmp /\ disk' = disk
  BY DEF RecordLoad
<1>9. clash' \in BOOLEAN /\ (clash => clash')
  BY <1>8 DEF AttentionInv
<1>10. ProcOK(host, a, w, d, l, clash')
  <2>1. ProcOK(host, a, w, d, l, clash)
    BY <1>4, <1>7 DEF ProcOK, SavePcs
  <2>2. QED  BY <1>9, <2>1, StillKnown
<1>11. PICK f, t, content : f = path /\ t = tmp /\ content = disk
  OBVIOUS
<1>12. /\ f \in Inodes \cup {NoFile} /\ t \in Inodes \cup {NoFile} /\ (t # NoFile => t # f)
       /\ DOMAIN content = Inodes
  BY <1>11 DEF AttentionInv, FilesOK
<1>13. ~ clash' => \A r \in Procs : call[r].pc \in SavePcs => r = p
  BY <1>8 DEF Saving, SavePcs
<1>14. DOMAIN OnFile(f, content) \subseteq DOMAIN d.cache
  BY <1>2, <1>7, <1>11, RecordedKeeps
<1>15. f = path' /\ t = tmp' /\ content = disk'
  BY <1>8, <1>11
<1>16. FilesOK'
  BY <1>5, <1>7, <1>12, <1>13, <1>14, <1>15, SaverStep
<1>17. QED  BY <1>4, <1>5, <1>9, <1>10, <1>16, OneProcess

LEMMA RecordOpenKeeps ==
    ASSUME AttentionInv, NEW p \in Procs, RecordOpen(p)
    PROVE  AttentionInv'
<1>1. PICK a, w, c, l : a = active[p] /\ w = wan[p] /\ c = call[p] /\ l = last[p]
  OBVIOUS
<1>2. PICK fd : fd = IF tmp # NoFile THEN tmp ELSE Min(Unused)
  OBVIOUS
<1>3. PICK d : d = [c EXCEPT !.pc = "write", !.fd = fd]
  OBVIOUS
<1>4. /\ ProcOK(host, a, w, c, l, clash) /\ c.pc = "open"
      /\ host' = host /\ active' = [active EXCEPT ![p] = a] /\ wan' = [wan EXCEPT ![p] = w]
      /\ last' = [last EXCEPT ![p] = l]
  BY <1>1, ProcessParts DEF RecordOpen, At
<1>5. /\ call' = [call EXCEPT ![p] = d] /\ path' = path /\ clash' = clash
      /\ tmp' = fd /\ disk' = [disk EXCEPT ![fd] = Empty]
  BY <1>1, <1>2, <1>3 DEF RecordOpen
<1>6. DOMAIN c = CallFieldNames
  BY <1>4 DEF ProcOK
<1>7. /\ DOMAIN d = CallFieldNames /\ d.pc = "write" /\ d.route = c.route /\ d.op = c.op
      /\ d.cache = c.cache /\ d.fd = fd
  BY <1>3, <1>6 DEF CallFieldNames
<1>8. PICK f, t, content : f = path /\ t = tmp /\ content = disk
  OBVIOUS
<1>9. /\ f \in Inodes \cup {NoFile} /\ t \in Inodes \cup {NoFile} /\ (t # NoFile => t # f)
      /\ DOMAIN content = Inodes
  BY <1>8 DEF AttentionInv, FilesOK
<1>10. fd \in Inodes /\ fd # f /\ fd # NoFile
  <2>1. CASE t # NoFile
    BY <1>2, <1>8, <1>9, <2>1
  <2>2. CASE t = NoFile
    <3>1. Unused # {}
      BY <1>8, <2>2 DEF RecordOpen
    <3>2. Unused \subseteq Inodes /\ f \notin Unused
      BY <1>8 DEF Unused
    <3>3. Unused \in SUBSET Nat /\ NoFile \notin Unused
      BY <3>2, AttentionAssumption DEF NoFile
    <3>4. Min(Unused) \in Unused
      BY <3>1, <3>3, MinIsMember
    <3>5. fd = Min(Unused)
      BY <1>2, <1>8, <2>2
    <3>6. QED  BY <3>2, <3>3, <3>4, <3>5
  <2>3. QED  BY <2>1, <2>2
<1>11. clash' \in BOOLEAN /\ (clash => clash') /\ (clash' => clash)
  BY <1>5 DEF AttentionInv
<1>12. ProcOK(host, a, w, d, l, clash')
  <2>1. ProcOK(host, a, w, d, l, clash)
    BY <1>4, <1>7 DEF ProcOK, SavePcs
  <2>2. QED  BY <1>11, <2>1, StillKnown
<1>13. PICK new : new = [content EXCEPT ![fd] = Empty]
  OBVIOUS
<1>14. DOMAIN new = Inodes /\ new[fd] = Empty /\ OnFile(f, new) = OnFile(f, content)
  BY <1>9, <1>10, <1>13 DEF OnFile
<1>15. f = path' /\ fd = tmp' /\ new = disk'
  BY <1>5, <1>8, <1>13
<1>16. ASSUME ~ clash'
       PROVE  /\ \A r \in Procs : call[r].pc \in SavePcs => r = p
              /\ DOMAIN OnFile(f, new) \subseteq DOMAIN d.cache
  <2>1. SaveOK(p, call, path, tmp, disk)
    BY <1>1, <1>4, <1>11, <1>16, SavesAlone DEF SavePcs
  <2>2. DOMAIN OnFile(f, content) \subseteq DOMAIN c.cache
    BY <1>1, <1>8, <2>1 DEF SaveOK
  <2>3. QED  BY <1>7, <1>14, <2>1, <2>2 DEF SaveOK
<1>17. FilesOK'
  <2>1. ~clash' /\ d.pc \in SavePcs =>
            /\ DOMAIN OnFile(f, new) \subseteq DOMAIN d.cache
            /\ d.pc = "write" => fd # NoFile /\ d.fd = fd /\ new[fd] = Empty
            /\ d.pc = "replace" => fd # NoFile /\ new[fd] = Json(d.cache)
    BY <1>7, <1>10, <1>14, <1>16
  <2>2. fd \in Inodes \cup {NoFile} /\ fd # f
    BY <1>10
  <2>3. ~clash' => \A r \in Procs : call[r].pc \in SavePcs => r = p
    BY <1>16
  <2>4. QED  BY <1>5, <1>9, <1>14, <1>15, <2>1, <2>2, <2>3, SaverStep
<1>18. QED  BY <1>4, <1>5, <1>11, <1>12, <1>17, OneProcess

LEMMA RecordWriteKeeps ==
    ASSUME AttentionInv, NEW p \in Procs, RecordWrite(p)
    PROVE  AttentionInv'
<1>1. PICK a, w, c, l : a = active[p] /\ w = wan[p] /\ c = call[p] /\ l = last[p]
  OBVIOUS
<1>2. PICK d : d = [c EXCEPT !.pc = "replace"]
  OBVIOUS
<1>3. /\ ProcOK(host, a, w, c, l, clash) /\ c.pc = "write"
      /\ host' = host /\ active' = [active EXCEPT ![p] = a] /\ wan' = [wan EXCEPT ![p] = w]
      /\ last' = [last EXCEPT ![p] = l]
  BY <1>1, ProcessParts DEF RecordWrite, At
<1>4. PICK new \in Overwrites(disk[c.fd], Json(c.cache)) : disk' = [disk EXCEPT ![c.fd] = new]
  BY <1>1 DEF RecordWrite
<1>5. call' = [call EXCEPT ![p] = d] /\ path' = path /\ tmp' = tmp /\ clash' = clash
  BY <1>1, <1>2 DEF RecordWrite
<1>6. DOMAIN c = CallFieldNames
  BY <1>3 DEF ProcOK
<1>7. /\ DOMAIN d = CallFieldNames /\ d.pc = "replace" /\ d.route = c.route /\ d.op = c.op
      /\ d.cache = c.cache /\ d.fd = c.fd
  BY <1>2, <1>6 DEF CallFieldNames
<1>8. PICK f, t, content, fd : f = path /\ t = tmp /\ content = disk /\ fd = c.fd
  OBVIOUS
<1>9. /\ f \in Inodes \cup {NoFile} /\ t \in Inodes \cup {NoFile} /\ (t # NoFile => t # f)
      /\ DOMAIN content = Inodes
  BY <1>8 DEF AttentionInv, FilesOK
<1>10. clash' \in BOOLEAN /\ (clash => clash') /\ (clash' => clash)
  BY <1>5 DEF AttentionInv
<1>11. ProcOK(host, a, w, d, l, clash')
  <2>1. ProcOK(host, a, w, d, l, clash)
    BY <1>3, <1>7 DEF ProcOK, SavePcs
  <2>2. QED  BY <1>10, <2>1, StillKnown
<1>12. PICK after : after = [content EXCEPT ![fd] = new]
  OBVIOUS
<1>13. f = path' /\ t = tmp' /\ after = disk' /\ DOMAIN after = Inodes
  BY <1>4, <1>5, <1>8, <1>9, <1>12
<1>14. ASSUME ~ clash'
       PROVE  /\ \A r \in Procs : call[r].pc \in SavePcs => r = p
              /\ DOMAIN OnFile(f, after) \subseteq DOMAIN d.cache
              /\ t # NoFile /\ after[t] = Json(d.cache)
  <2>1. SaveOK(p, call, path, tmp, disk)
    BY <1>1, <1>3, <1>10, <1>14, SavesAlone DEF SavePcs
  <2>2. /\ DOMAIN OnFile(f, content) \subseteq DOMAIN c.cache
        /\ t # NoFile /\ fd = t /\ content[t] = Empty
    BY <1>1, <1>3, <1>8, <2>1 DEF SaveOK
  <2>3. t \in Inodes /\ t # f
    BY <1>9, <2>2
  <2>4. new = Json(c.cache)
    <3>1. new \in Overwrites(Empty, Json(c.cache))
      BY <1>4, <1>8, <2>2
    <3>2. Empty.kind = "empty"
      BY DEF Empty
    <3>3. QED  BY <3>1, <3>2 DEF Overwrites
  <2>5. after[t] = new /\ OnFile(f, after) = OnFile(f, content)
    BY <1>9, <1>12, <2>2, <2>3 DEF OnFile
  <2>6. QED  BY <1>7, <2>1, <2>2, <2>4, <2>5 DEF SaveOK
<1>15. FilesOK'
  BY <1>5, <1>7, <1>9, <1>13, <1>14, SaverStep
<1>16. QED  BY <1>3, <1>5, <1>10, <1>11, <1>15, OneProcess

LEMMA RecordReplaceKeeps ==
    ASSUME AttentionInv, NEW p \in Procs, RecordReplace(p)
    PROVE  AttentionInv'
<1>1. PICK a, w, c : a = active[p] /\ w = wan[p] /\ c = call[p]
  OBVIOUS
<1>2. /\ ProcOK(host, a, w, c, last[p], clash) /\ c.pc = "replace"
      /\ host' = host /\ active' = [active EXCEPT ![p] = a] /\ wan' = [wan EXCEPT ![p] = w]
      /\ disk' = disk /\ clash' = clash
  BY <1>1, ProcessParts DEF RecordReplace, At
<1>3. PICK f, t, content : f = path /\ t = tmp /\ content = disk
  OBVIOUS
<1>4. /\ f \in Inodes \cup {NoFile} /\ t \in Inodes \cup {NoFile} /\ (t # NoFile => t # f)
      /\ DOMAIN content = Inodes
  BY <1>3 DEF AttentionInv, FilesOK
<1>5. clash' \in BOOLEAN /\ (clash => clash') /\ (clash' => clash)
  BY <1>2 DEF AttentionInv
<1>6. ASSUME ~ clash'
      PROVE  t # NoFile /\ \A r \in Procs : call[r].pc \in SavePcs => r = p
  <2>1. SaveOK(p, call, path, tmp, disk)
    BY <1>1, <1>2, <1>5, <1>6, SavesAlone DEF SavePcs
  <2>2. QED  BY <1>1, <1>2, <1>3, <2>1 DEF SaveOK
<1>7. CASE t # NoFile
  <2>1. PICK d, n, l : d = [c EXCEPT !.pc = "finish", !.fd = NoFile] /\ n = NoFile /\ l = last[p]
    OBVIOUS
  <2>2. /\ call' = [call EXCEPT ![p] = d] /\ path' = t /\ tmp' = n
        /\ last' = [last EXCEPT ![p] = l]
    BY <1>1, <1>3, <1>7, <2>1, ProcessParts DEF RecordReplace
  <2>3. DOMAIN c = CallFieldNames
    BY <1>2 DEF ProcOK
  <2>4. DOMAIN d = CallFieldNames /\ d.pc = "finish" /\ d.route = c.route /\ d.op = c.op
    BY <2>1, <2>3 DEF CallFieldNames
  <2>5. ProcOK(host, a, w, d, l, clash') /\ d.pc \notin SavePcs
    BY <1>2, <2>1, <2>4 DEF ProcOK, SavePcs
  <2>6. t = path' /\ n = tmp' /\ content = disk' /\ n \in Inodes \cup {NoFile} /\ n = NoFile
    BY <1>2, <1>3, <2>1, <2>2
  <2>7. FilesOK'
    BY <1>4, <1>6, <2>2, <2>5, <2>6, SaverStep
  <2>8. QED  BY <1>2, <1>5, <2>2, <2>5, <2>7, OneProcess
<1>8. CASE t = NoFile
  <2>1. PICK i, r, q, o : i = Idle(c.calls) /\ r = c.route /\ q = c.q /\ o = c.op
    OBVIOUS
  <2>2. /\ call' = [call EXCEPT ![p] = i] /\ path' = path /\ tmp' = tmp
        /\ Raise(p, r, q, o)
    BY <1>1, <1>3, <1>8, <2>1 DEF RecordReplace
  <2>3. clash
    BY <1>5, <1>6, <1>8
  <2>4. PICK l : last' = [last EXCEPT ![p] = l] /\ LastOK(host, l, clash)
    <3>1. MayRaise(host, r, q, o, clash)
      BY <1>2, <2>1, <2>3 DEF ProcOK, SavePcs, MayRaise, SaveRaises
    <3>2. QED  BY <2>2, <3>1, RaiseOK
  <2>5. DOMAIN i = CallFieldNames /\ i.pc = "idle"
    BY <2>1, IdleFields
  <2>6. ProcOK(host, a, w, i, l, clash) /\ i.pc \notin SavePcs
    BY <1>2, <2>4, <2>5 DEF ProcOK, LastOK, SavePcs
  <2>7. UNCHANGED fileVars
    BY <1>2, <2>2 DEF fileVars
  <2>8. QED  BY <1>2, <2>2, <2>4, <2>6, <2>7, OwnStep
<1>9. QED  BY <1>7, <1>8

\* The save raises over the disk: the file that is being written may be torn,
\* and no process that saves alone is left.
LEMMA RecordRaisesKeeps ==
    ASSUME AttentionInv, NEW p \in Procs, RecordRaises(p)
    PROVE  AttentionInv'
<1>1. PICK a, w, c, i : a = active[p] /\ w = wan[p] /\ c = call[p] /\ i = Idle(c.calls)
  OBVIOUS
<1>2. /\ ProcOK(host, a, w, c, last[p], clash) /\ c.pc \in SavePcs
      /\ host' = host /\ active' = [active EXCEPT ![p] = a] /\ wan' = [wan EXCEPT ![p] = w]
      /\ host.faulty /\ call' = [call EXCEPT ![p] = i]
      /\ path' = path /\ tmp' = tmp /\ clash' = clash
  BY <1>1, ProcessParts DEF RecordRaises, At, SavePcs
<1>3. PICK f, t, content, after : f = path /\ t = tmp /\ content = disk /\ after = disk'
  OBVIOUS
<1>4. /\ f \in Inodes \cup {NoFile} /\ t \in Inodes \cup {NoFile} /\ (t # NoFile => t # f)
      /\ DOMAIN content = Inodes
  BY <1>3 DEF AttentionInv, FilesOK
<1>5. DOMAIN after = Inodes
  BY <1>3, <1>4 DEF RecordRaises
<1>6. DOMAIN i = CallFieldNames /\ i.pc = "idle"
  BY <1>1, IdleFields
<1>7. PICK l : last' = [last EXCEPT ![p] = l] /\ LastOK(host, l, clash)
  <2>1. PICK r, q, o : r = c.route /\ q = c.q /\ o = c.op
    OBVIOUS
  <2>2. Raise(p, r, q, o)
    BY <1>1, <2>1 DEF RecordRaises
  <2>3. MayRaise(host, r, q, o, clash)
    BY <1>2, <2>1 DEF ProcOK, SavePcs, MayRaise, SaveRaises
  <2>4. QED  BY <2>2, <2>3, RaiseOK
<1>8. ProcOK(host, a, w, i, l, clash') /\ i.pc \notin SavePcs
  BY <1>2, <1>6, <1>7 DEF ProcOK, LastOK, SavePcs
<1>9. ASSUME ~ clash'
      PROVE  \A r \in Procs : call[r].pc \in SavePcs => r = p
  <2>1. SaveOK(p, call, path, tmp, disk)
    BY <1>1, <1>2, <1>9, SavesAlone
  <2>2. QED  BY <2>1 DEF SaveOK
<1>10. f = path' /\ t = tmp' /\ after = disk'
  BY <1>2, <1>3
<1>11. FilesOK'
  BY <1>2, <1>4, <1>5, <1>8, <1>9, <1>10, SaverStep
<1>12. clash' \in BOOLEAN /\ (clash => clash')
  BY <1>2 DEF AttentionInv
<1>13. QED  BY <1>2, <1>7, <1>8, <1>11, <1>12, OneProcess

(***************************************************************************)
(* The attention calls' theorems                                           *)
(***************************************************************************)
LEMMA AttentionStarts ==
    ASSUME AttentionInit
    PROVE  AttentionInv
<1>1. PICK i, l : i = Idle(0) /\ l = [outcome |-> "none"]
  OBVIOUS
<1>2. DOMAIN i = CallFieldNames /\ i.pc = "idle"
  BY <1>1, IdleFields
<1>3. l.outcome = "none"
  BY <1>1
<1>4. ASSUME NEW p \in Procs
      PROVE  ProcOK(host, active[p], wan[p], call[p], last[p], clash)
  <2>1. active[p] = "native" /\ wan[p] = "unset" /\ call[p] = i /\ last[p] = l
    BY <1>1 DEF AttentionInit
  <2>2. QED  BY <1>2, <1>3, <2>1 DEF ProcOK, BridgesOK, SavePcs
<1>5. ASSUME NEW p \in Procs
      PROVE  call[p].pc = "idle"
  BY <1>1, <1>2 DEF AttentionInit
<1>6. FilesOK
  BY <1>5 DEF AttentionInit, FilesOK, SavePcs
<1>7. QED  BY <1>4, <1>6 DEF AttentionInit, AttentionInv

LEMMA AttentionStep ==
    ASSUME AttentionInv, [AttentionNext]_attentionVars
    PROVE  AttentionInv'
<1>1. CASE AttentionNext
  <2>1. PICK p \in Procs :
           \/ maybe_activate_from_env(p) \/ amx_maybe_activate_from_env(p)
           \/ maybe_install_repercep_wan_attention(p)
           \/ \E route \in host.routes, q \in host.problems : Call(p, route, q)
           \/ Resolve(p) \/ Launch(p)
           \/ \E winner \in Fastest : Tune(p, winner)
           \/ RecordLoad(p) \/ RecordOpen(p) \/ RecordWrite(p) \/ RecordReplace(p)
           \/ RecordRaises(p) \/ Finish(p) \/ Crash(p)
    BY <1>1 DEF AttentionNext
  <2>2. CASE \/ maybe_activate_from_env(p) \/ amx_maybe_activate_from_env(p)
             \/ maybe_install_repercep_wan_attention(p)
    BY <2>2, ActivationKeeps
  <2>3. CASE \E route \in host.routes, q \in host.problems : Call(p, route, q)
    BY <2>3, CallKeeps
  <2>4. CASE Resolve(p) \/ Launch(p) \/ \E winner \in Fastest : Tune(p, winner)
    BY <2>4, KernelKeeps
  <2>5. CASE RecordLoad(p)
    BY <2>5, RecordLoadKeeps
  <2>6. CASE RecordOpen(p)
    BY <2>6, RecordOpenKeeps
  <2>7. CASE RecordWrite(p)
    BY <2>7, RecordWriteKeeps
  <2>8. CASE RecordReplace(p)
    BY <2>8, RecordReplaceKeeps
  <2>9. CASE Finish(p)
    BY <2>9, FinishKeeps
  <2>10. CASE Crash(p)
    BY <2>10, CrashKeeps
  <2>11. CASE RecordRaises(p)
    BY <2>11, RecordRaisesKeeps
  <2>12. QED  BY <2>1, <2>2, <2>3, <2>4, <2>5, <2>6, <2>7, <2>8, <2>9, <2>10, <2>11
<1>2. CASE UNCHANGED attentionVars
  BY <1>2 DEF attentionVars, AttentionInv, ProcOK, BridgesOK, FilesOK, SaveOK
<1>3. QED  BY <1>1, <1>2

\* Every state of the calls and of the cache file satisfies the invariant.
THEOREM AttentionInvariant == AttentionSpec => []AttentionInv
BY AttentionStarts, AttentionStep, PTL DEF AttentionSpec

\* FP8 is opt-in, whatever the host, the route and the bridges' interleaving:
\* REPERCEP_FP8_ATTENTION is read where an op is listed and where a bridge is
\* activated, and _native_fallback never goes back to an FP8 op.
THEOREM Fp8IsAlwaysOptIn == AttentionSpec => []Fp8IsOptIn
<1>1. AttentionInv => Fp8IsOptIn
  BY DEF AttentionInv, ProcOK, Allowed, Fp8IsOptIn, _FP8_ENABLED
<1>2. QED  BY <1>1, AttentionInvariant, PTL

\* What serves a backend's call is what capabilities() declares, up to the two
\* opt-ins, on every host: the registry's candidates and the backends'
\* declarations are written in two places and agree.
THEOREM ServedOpIsAlwaysDeclared == AttentionSpec => []ServedOpIsDeclared
<1>1. AttentionInv => ServedOpIsDeclared
  BY DEF AttentionInv, ProcOK, Allowed, Declared, ServedOpIsDeclared
<1>2. QED  BY <1>1, AttentionInvariant, PTL

\* No call raises but for the reasons known: the registry and the bridges never
\* give an op a shape it rejects but the AMX ones; beyond that it is a device,
\* an architecture or a library that refuses; and a save raises only when the
\* disk does or another save has taken its temporary file.
THEOREM RaisedCallsAreAlwaysKnown == AttentionSpec => []RaisedCallsAreKnown
<1>1. AttentionInv => RaisedCallsAreKnown
  <2>1. ASSUME NEW route, NEW q, NEW op, MayRaise(host, route, q, op, clash)
        PROVE  KnownToRaise(route, q, op)
    BY <2>1 DEF MayRaise, OpRaises, Rejected, SaveRaises, KnownToRaise
  <2>2. QED  BY <2>1 DEF AttentionInv, ProcOK, RaisedCallsAreKnown
<1>2. QED  BY <1>1, AttentionInvariant, PTL

\* A step leaves the shapes on file there while no two saves have overlapped.
LEMMA FileKeepsShapes ==
    ASSUME AttentionInv, [AttentionNext]_attentionVars, ~ clash'
    PROVE  DOMAIN _cache_load \subseteq DOMAIN _cache_load'
<1>1. PICK f, t, content : f = path /\ t = tmp /\ content = disk
  OBVIOUS
<1>2. _cache_load = OnFile(f, content)
  BY <1>1 DEF _cache_load, OnFile
<1>3. /\ f \in Inodes \cup {NoFile} /\ t \in Inodes \cup {NoFile} /\ (t # NoFile => t # f)
      /\ DOMAIN content = Inodes
  BY <1>1 DEF AttentionInv, FilesOK
<1>4. SUFFICES DOMAIN OnFile(f, content) \subseteq DOMAIN OnFile(path', disk')
  BY <1>2 DEF _cache_load, OnFile
<1>5. CASE path' = path /\ disk' = disk
  BY <1>1, <1>5
<1>6. ASSUME NEW p \in Procs, RecordOpen(p)
      PROVE  DOMAIN OnFile(f, content) \subseteq DOMAIN OnFile(path', disk')
  <2>1. PICK fd : fd = IF tmp # NoFile THEN tmp ELSE Min(Unused)
    OBVIOUS
  <2>2. path' = f /\ disk' = [content EXCEPT ![fd] = Empty]
    BY <1>1, <1>6, <2>1 DEF RecordOpen
  <2>3. fd # f
    <3>1. CASE t # NoFile
      BY <1>1, <1>3, <2>1, <3>1
    <3>2. CASE t = NoFile
      <4>1. Unused # {}
        BY <1>1, <1>6, <3>2 DEF RecordOpen
      <4>2. Unused \subseteq Inodes /\ f \notin Unused
        BY <1>1 DEF Unused
      <4>3. Unused \in SUBSET Nat
        BY <4>2, AttentionAssumption
      <4>4. Min(Unused) \in Unused
        BY <4>1, <4>3, MinIsMember
      <4>5. QED  BY <1>1, <2>1, <3>2, <4>2, <4>4
    <3>3. QED  BY <3>1, <3>2
  <2>4. OnFile(path', disk') = OnFile(f, content)
    BY <1>3, <2>2, <2>3 DEF OnFile
  <2>5. QED  BY <2>4
<1>7. ASSUME NEW p \in Procs, RecordWrite(p)
      PROVE  DOMAIN OnFile(f, content) \subseteq DOMAIN OnFile(path', disk')
  <2>1. PICK new : disk' = [disk EXCEPT ![call[p].fd] = new]
    BY <1>7 DEF RecordWrite
  <2>2. path' = f /\ call[p].pc = "write" /\ ~ clash
    BY <1>1, <1>7 DEF RecordWrite, At
  <2>3. SaveOK(p, call, path, tmp, disk)
    BY <2>2, SavesAlone DEF SavePcs
  <2>4. t # NoFile /\ call[p].fd = t
    BY <1>1, <2>2, <2>3 DEF SaveOK
  <2>5. disk' = [content EXCEPT ![t] = new] /\ t # f
    BY <1>1, <1>3, <2>1, <2>4
  <2>6. OnFile(path', disk') = OnFile(f, content)
    BY <1>3, <2>2, <2>5 DEF OnFile
  <2>7. QED  BY <2>6
<1>8. ASSUME NEW p \in Procs, RecordReplace(p)
      PROVE  DOMAIN OnFile(f, content) \subseteq DOMAIN OnFile(path', disk')
  <2>1. call[p].pc = "replace" /\ ~ clash /\ disk' = content
    BY <1>1, <1>8 DEF RecordReplace, At
  <2>2. SaveOK(p, call, path, tmp, disk)
    BY <2>1, SavesAlone DEF SavePcs
  <2>3. /\ t # NoFile /\ content[t] = Json(call[p].cache)
        /\ DOMAIN OnFile(f, content) \subseteq DOMAIN call[p].cache
    BY <1>1, <2>1, <2>2 DEF SaveOK
  <2>4. path' = t
    BY <1>1, <1>8, <2>3 DEF RecordReplace
  <2>5. OnFile(path', disk') = call[p].cache
    BY <2>1, <2>3, <2>4 DEF OnFile, Json
  <2>6. QED  BY <2>3, <2>5
<1>9. ASSUME NEW p \in Procs, RecordRaises(p)
      PROVE  DOMAIN OnFile(f, content) \subseteq DOMAIN OnFile(path', disk')
  <2>1. path' = f /\ ~ clash
    BY <1>1, <1>9 DEF RecordRaises
  <2>2. CASE disk' = disk
    BY <1>1, <2>1, <2>2
  <2>3. CASE call[p].pc = "write" /\ disk' = [disk EXCEPT ![call[p].fd] = Torn]
    <3>1. SaveOK(p, call, path, tmp, disk)
      BY <2>1, <2>3, SavesAlone DEF SavePcs
    <3>2. t # NoFile /\ call[p].fd = t
      BY <1>1, <2>3, <3>1 DEF SaveOK
    <3>3. disk' = [content EXCEPT ![t] = Torn] /\ t # f
      BY <1>1, <1>3, <2>3, <3>2
    <3>4. OnFile(path', disk') = OnFile(f, content)
      BY <1>3, <2>1, <3>3 DEF OnFile
    <3>5. QED  BY <3>4
  <2>4. QED  BY <1>9, <2>2, <2>3 DEF RecordRaises, At
<1>10. CASE AttentionNext
  <2>1. PICK p \in Procs :
           \/ maybe_activate_from_env(p) \/ amx_maybe_activate_from_env(p)
           \/ maybe_install_repercep_wan_attention(p)
           \/ \E route \in host.routes, q \in host.problems : Call(p, route, q)
           \/ Resolve(p) \/ Launch(p)
           \/ \E winner \in Fastest : Tune(p, winner)
           \/ RecordLoad(p) \/ RecordOpen(p) \/ RecordWrite(p) \/ RecordReplace(p)
           \/ RecordRaises(p) \/ Finish(p) \/ Crash(p)
    BY <1>10 DEF AttentionNext
  <2>2. CASE \/ maybe_activate_from_env(p) \/ amx_maybe_activate_from_env(p)
             \/ maybe_install_repercep_wan_attention(p)
    BY <1>5, <2>2 DEF maybe_activate_from_env, amx_maybe_activate_from_env,
                      maybe_install_repercep_wan_attention, fileVars
  <2>3. CASE \E route \in host.routes, q \in host.problems : Call(p, route, q)
    BY <1>5, <2>3 DEF Call, fileVars
  <2>4. CASE Resolve(p) \/ Launch(p) \/ \E winner \in Fastest : Tune(p, winner)
    BY <1>5, <2>4 DEF Resolve, Launch, Tune, fileVars
  <2>5. CASE RecordLoad(p) \/ Finish(p) \/ Crash(p)
    BY <1>5, <2>5 DEF RecordLoad, Finish, Crash, fileVars
  <2>6. CASE RecordOpen(p) \/ RecordWrite(p) \/ RecordReplace(p) \/ RecordRaises(p)
    BY <1>6, <1>7, <1>8, <1>9, <2>6
  <2>7. QED  BY <2>1, <2>2, <2>3, <2>4, <2>5, <2>6
<1>11. QED  BY <1>5, <1>10 DEF attentionVars

\* A shape once in the cache file of a host stays there, for any number of
\* processes that tune, save and crash, as long as no two saves overlap:
\* os.replace puts a file in place that its one writer has completed, and that
\* holds what it read.
THEOREM TunedShapesAlwaysStayTuned == AttentionSpec => TunedShapesStayTuned
<1>1. ASSUME AttentionInv, [AttentionNext]_attentionVars
      PROVE  [~clash' => DOMAIN _cache_load \subseteq DOMAIN _cache_load']_attentionVars
  BY <1>1, FileKeepsShapes
<1>2. QED  BY <1>1, AttentionInvariant, PTL DEF AttentionSpec, TunedShapesStayTuned

(***************************************************************************)
(* Sums.  Total() folds a set by a recursive function on its subsets; that *)
(* function exists and is the only one, and the sum it gives does not      *)
(* depend on the order in which it takes the elements.                     *)
(***************************************************************************)
\* The element the fold takes first, the equation of its function, its result.
Some(s) == CHOOSE x \in s : TRUE
Adds(it, f, S) == it = [s \in SUBSET S |-> IF s = {} THEN 0 ELSE f[Some(s)] + it[s \ {Some(s)}]]
SumBy(f, S) == (CHOOSE it : Adds(it, f, S))[S]

\* The choice is one of the set.
LEMMA SomeIsOne ==
    ASSUME NEW s, s # {}
    PROVE  Some(s) \in s
BY DEF Some

\* Induction on finite sets: some set of a family has no proper subset in it.
LEMMA SmallestSet ==
    ASSUME NEW S, IsFiniteSet(S), NEW Bad \in SUBSET (SUBSET S), Bad # {}
    PROVE  \E s \in Bad : \A r \in SUBSET s : r # s => r \notin Bad
<1>1. \A s \in SUBSET S : IsFiniteSet(s) /\ Cardinality(s) \in Nat
  BY FS_Subset, FS_CardinalityType
<1>2. PICK T : T = {Cardinality(s) : s \in Bad}
  OBVIOUS
<1>3. T \in SUBSET Nat /\ T # {}
  BY <1>1, <1>2
<1>4. PICK n \in T : \A m \in T : n <= m
  BY <1>3, LeastNumber
<1>5. PICK s \in Bad : Cardinality(s) = n
  BY <1>2, <1>4
<1>6. ASSUME NEW r \in SUBSET s, r # s, r \in Bad
      PROVE  FALSE
  <2>1. s \in SUBSET S /\ r \in SUBSET S /\ IsFiniteSet(s)
    <3>1. s \in SUBSET S
      OBVIOUS
    <3>2. \A x \in r : x \in S
      BY <1>6, <3>1
    <3>3. QED  BY <1>1, <3>1, <3>2
  <2>2. Cardinality(r) < Cardinality(s)
    <3>1. Cardinality(r) <= Cardinality(s) /\ (Cardinality(r) = Cardinality(s) => s = r)
      BY <1>6, <2>1, FS_Subset
    <3>2. QED  BY <1>1, <1>6, <2>1, <3>1
  <2>3. n <= Cardinality(r)
    <3>1. Cardinality(r) \in T
      BY <1>2, <1>6
    <3>2. QED  BY <1>4, <3>1
  <2>4. QED  BY <1>1, <1>5, <2>1, <2>2, <2>3
<1>7. QED  BY <1>6

\* Only the values at the set's elements count.
LEMMA SumSame ==
    ASSUME NEW S, NEW f, NEW g, \A x \in S : f[x] = g[x]
    PROVE  SumBy(f, S) = SumBy(g, S)
<1>1. ASSUME NEW it
      PROVE  Adds(it, f, S) <=> Adds(it, g, S)
  <2>1. \A s \in SUBSET S : s # {} => f[Some(s)] = g[Some(s)]
    BY SomeIsOne
  <2>2. [s \in SUBSET S |-> IF s = {} THEN 0 ELSE f[Some(s)] + it[s \ {Some(s)}]]
           = [s \in SUBSET S |-> IF s = {} THEN 0 ELSE g[Some(s)] + it[s \ {Some(s)}]]
    BY <2>1
  <2>3. QED  BY <2>2 DEF Adds
<1>2. (CHOOSE it : Adds(it, f, S)) = (CHOOSE it : Adds(it, g, S))
  BY <1>1
<1>3. QED  BY <1>2 DEF SumBy

\* The equation has at most one solution.
LEMMA OneFold ==
    ASSUME NEW S, IsFiniteSet(S), NEW f, NEW it, NEW jt, Adds(it, f, S), Adds(jt, f, S),
           NEW r \in SUBSET S
    PROVE  it[r] = jt[r]
<1> SUFFICES ASSUME it[r] # jt[r]
             PROVE  FALSE
  OBVIOUS
<1>1. PICK Bad : Bad = {s \in SUBSET S : it[s] # jt[s]}
  OBVIOUS
<1>2. Bad \in SUBSET (SUBSET S) /\ Bad # {}
  BY <1>1
<1>3. PICK s \in Bad : \A q \in SUBSET s : q # s => q \notin Bad
  BY <1>2, SmallestSet
<1>4. s \in SUBSET S /\ it[s] # jt[s]
  BY <1>1
<1>5. /\ it[s] = IF s = {} THEN 0 ELSE f[Some(s)] + it[s \ {Some(s)}]
      /\ jt[s] = IF s = {} THEN 0 ELSE f[Some(s)] + jt[s \ {Some(s)}]
  BY <1>4 DEF Adds
<1>6. s # {}
  BY <1>4, <1>5
<1>7. s \ {Some(s)} \in SUBSET s /\ s \ {Some(s)} # s
  BY <1>6, SomeIsOne
<1>8. it[s \ {Some(s)}] = jt[s \ {Some(s)}]
  BY <1>1, <1>3, <1>4, <1>7
<1>9. QED  BY <1>4, <1>5, <1>8

\* The sum of s is a number and the recursion's.
SumFits(f, s) ==
    /\ SumBy(f, s) \in Nat
    /\ s = {} => SumBy(f, s) = 0
    /\ s # {} => SumBy(f, s) = f[Some(s)] + SumBy(f, s \ {Some(s)})

\* The sum is what the recursion says, and a number.
LEMMA SumStep ==
    ASSUME NEW S, IsFiniteSet(S), NEW f, \A x \in S : f[x] \in Nat
    PROVE  SumFits(f, S)
<1> SUFFICES ASSUME ~ SumFits(f, S)
             PROVE  FALSE
  OBVIOUS
<1>1. PICK Bad : Bad = {s \in SUBSET S : ~ SumFits(f, s)}
  OBVIOUS
<1>2. Bad \in SUBSET (SUBSET S) /\ Bad # {}
  BY <1>1
<1>3. PICK s \in Bad : \A r \in SUBSET s : r # s => r \notin Bad
  BY <1>2, SmallestSet
<1>4. s \in SUBSET S /\ ~ SumFits(f, s) /\ IsFiniteSet(s)
  BY <1>1, FS_Subset
<1>5. \A r \in SUBSET s : r # s => SumFits(f, r)
  BY <1>1, <1>3, <1>4
<1>6. PICK it : it = [r \in SUBSET s |-> IF r = s /\ s # {} THEN f[Some(s)] + SumBy(f, s \ {Some(s)})
                                         ELSE IF r = {} THEN 0 ELSE SumBy(f, r)]
  OBVIOUS
<1>7. \A r \in SUBSET s : r # s => it[r] = SumBy(f, r)
  BY <1>5, <1>6 DEF SumFits
<1>8. ASSUME NEW r \in SUBSET s, r # {}
      PROVE  it[r] = f[Some(r)] + it[r \ {Some(r)}]
  <2>1. r \ {Some(r)} \in SUBSET s /\ r \ {Some(r)} # s
    BY <1>8, SomeIsOne
  <2>2. it[r \ {Some(r)}] = SumBy(f, r \ {Some(r)})
    BY <1>7, <2>1
  <2>3. CASE r = s
    BY <1>6, <1>8, <2>2, <2>3
  <2>4. CASE r # s
    BY <1>5, <1>7, <1>8, <2>2, <2>4 DEF SumFits
  <2>5. QED  BY <2>3, <2>4
<1>9. it[{}] = 0 /\ DOMAIN it = SUBSET s
  BY <1>6
<1>10. Adds(it, f, s)
  <2>1. \A r \in SUBSET s : it[r] = IF r = {} THEN 0 ELSE f[Some(r)] + it[r \ {Some(r)}]
    BY <1>8, <1>9
  <2>2. it = [r \in SUBSET s |-> it[r]]
    BY <1>6
  <2>3. QED  BY <2>1, <2>2 DEF Adds
<1>11. SumBy(f, s) = it[s]
  <2>1. PICK jt : jt = (CHOOSE any : Adds(any, f, s)) /\ Adds(jt, f, s)
    BY <1>10
  <2>2. s \in SUBSET s
    OBVIOUS
  <2>3. it[s] = jt[s]
    BY <1>4, <1>10, <2>1, <2>2, OneFold
  <2>4. QED  BY <2>1, <2>3 DEF SumBy
<1>12. CASE s = {}
  BY <1>4, <1>9, <1>11, <1>12 DEF SumFits
<1>13. CASE s # {}
  <2>1. Some(s) \in S /\ s \ {Some(s)} \in SUBSET s /\ s \ {Some(s)} # s
    BY <1>4, <1>13, SomeIsOne
  <2>2. f[Some(s)] \in Nat /\ SumBy(f, s \ {Some(s)}) \in Nat
    BY <1>5, <2>1 DEF SumFits
  <2>3. SumBy(f, s) = f[Some(s)] + SumBy(f, s \ {Some(s)})
    BY <1>6, <1>11, <1>13
  <2>4. QED  BY <1>4, <1>13, <2>2, <2>3 DEF SumFits
<1>14. QED  BY <1>12, <1>13

\* Whichever element is taken out, its value is what it adds.
LEMMA SumWithout ==
    ASSUME NEW S, IsFiniteSet(S), NEW f, \A x \in S : f[x] \in Nat, NEW x \in S
    PROVE  SumBy(f, S) = f[x] + SumBy(f, S \ {x}) /\ SumBy(f, S) \in Nat /\ SumBy(f, S \ {x}) \in Nat
<1>1. \A s \in SUBSET S : IsFiniteSet(s) /\ SumFits(f, s)
  <2> SUFFICES ASSUME NEW s \in SUBSET S
               PROVE  IsFiniteSet(s) /\ SumFits(f, s)
    OBVIOUS
  <2>1. IsFiniteSet(s) /\ \A y \in s : f[y] \in Nat
    BY FS_Subset
  <2>2. QED  BY <2>1, SumStep
<1>2. PICK Bad : Bad = {s \in SUBSET S : \E y \in s : SumBy(f, s) # f[y] + SumBy(f, s \ {y})}
  OBVIOUS
<1>3. ASSUME Bad # {}
      PROVE  FALSE
  <2>1. Bad \in SUBSET (SUBSET S)
    BY <1>2
  <2>2. PICK s \in Bad : \A r \in SUBSET s : r # s => r \notin Bad
    BY <1>3, <2>1, SmallestSet
  <2>3. s \in SUBSET S
    BY <2>1
  <2>4. PICK y \in s : SumBy(f, s) # f[y] + SumBy(f, s \ {y})
    BY <1>2
  <2>5. PICK z \in s : z = Some(s)
    BY <2>4, SomeIsOne
  <2>6. SumBy(f, s) = f[z] + SumBy(f, s \ {z}) /\ y # z
    BY <1>1, <2>3, <2>4, <2>5 DEF SumFits
  <2>7. PICK rest : rest = s \ {y, z}
    OBVIOUS
  <2>8. /\ rest = (s \ {z}) \ {y} /\ rest = (s \ {y}) \ {z} /\ y \in s \ {z} /\ z \in s \ {y}
        /\ s \ {z} \in SUBSET S /\ s \ {y} \in SUBSET S /\ rest \in SUBSET S
        /\ s \ {z} \in SUBSET s /\ s \ {z} # s /\ s \ {y} \in SUBSET s /\ s \ {y} # s
    BY <2>3, <2>6, <2>7
  <2>9. SumBy(f, s \ {z}) = f[y] + SumBy(f, rest)
    <3>1. s \ {z} \notin Bad
      BY <2>2, <2>8
    <3>2. SumBy(f, s \ {z}) = f[y] + SumBy(f, (s \ {z}) \ {y})
      BY <1>2, <2>8, <3>1
    <3>3. QED  BY <2>8, <3>2
  <2>10. SumBy(f, s \ {y}) = f[z] + SumBy(f, rest)
    <3>1. s \ {y} \notin Bad
      BY <2>2, <2>8
    <3>2. SumBy(f, s \ {y}) = f[z] + SumBy(f, (s \ {y}) \ {z})
      BY <1>2, <2>8, <3>1
    <3>3. QED  BY <2>8, <3>2
  <2>11. SumBy(f, rest) \in Nat /\ f[y] \in Nat /\ f[z] \in Nat
    BY <1>1, <2>3, <2>8 DEF SumFits
  <2>12. QED  BY <2>4, <2>6, <2>9, <2>10, <2>11
<1>4. S \in SUBSET S /\ S \ {x} \in SUBSET S
  OBVIOUS
<1>5. SumBy(f, S) = f[x] + SumBy(f, S \ {x})
  BY <1>2, <1>3, <1>4
<1>6. QED  BY <1>1, <1>4, <1>5 DEF SumFits

\* Values k times as large have a sum k times as large.
TimesAsLarge(k, f, g, S) == \A x \in S : f[x] \in Nat /\ g[x] \in Nat /\ f[x] = k * g[x]

LEMMA SumScaled ==
    ASSUME NEW S, IsFiniteSet(S), NEW f, NEW g, NEW k \in Nat, TimesAsLarge(k, f, g, S)
    PROVE  SumBy(f, S) = k * SumBy(g, S) /\ SumBy(f, S) \in Nat /\ SumBy(g, S) \in Nat
<1>1. PICK Bad : Bad = {s \in SUBSET S : SumBy(f, s) # k * SumBy(g, s)}
  OBVIOUS
<1>2. ASSUME Bad # {}
      PROVE  FALSE
  <2>1. Bad \in SUBSET (SUBSET S)
    BY <1>1
  <2>2. PICK s \in Bad : \A r \in SUBSET s : r # s => r \notin Bad
    BY <1>2, <2>1, SmallestSet
  <2>3. s \in SUBSET S /\ SumBy(f, s) # k * SumBy(g, s) /\ IsFiniteSet(s)
    BY <1>1, FS_Subset
  <2>4. \A x \in s : f[x] \in Nat /\ g[x] \in Nat /\ f[x] = k * g[x]
    BY <2>3 DEF TimesAsLarge
  <2>5. SumFits(f, s) /\ SumFits(g, s)
    BY <2>3, <2>4, SumStep
  <2>6. s # {}
    BY <2>3, <2>5 DEF SumFits
  <2>7. PICK x \in s : TRUE
    BY <2>6
  <2>8. s \ {x} \in SUBSET s /\ s \ {x} # s /\ s \ {x} \in SUBSET S
    BY <2>3, <2>7
  <2>9. SumBy(f, s \ {x}) = k * SumBy(g, s \ {x})
    BY <1>1, <2>2, <2>8
  <2>10. /\ SumBy(f, s) = f[x] + SumBy(f, s \ {x}) /\ SumBy(f, s \ {x}) \in Nat
         /\ SumBy(g, s) = g[x] + SumBy(g, s \ {x}) /\ SumBy(g, s \ {x}) \in Nat
    BY <2>3, <2>4, SumWithout
  <2>11. PICK a, b : a = g[x] /\ b = SumBy(g, s \ {x})
    OBVIOUS
  <2>12. a \in Nat /\ b \in Nat /\ SumBy(f, s) = k * a + k * b /\ SumBy(g, s) = a + b
    BY <2>4, <2>9, <2>10, <2>11
  <2>13. k * a + k * b = k * (a + b)
    BY <2>12
  <2>14. QED  BY <2>3, <2>12, <2>13
<1>3. S \in SUBSET S
  OBVIOUS
<1>4. SumFits(f, S) /\ SumFits(g, S)
  BY SumStep DEF TimesAsLarge
<1>5. QED  BY <1>1, <1>2, <1>3, <1>4 DEF SumFits

\* The sum over two sets that share nothing is that of their sums.
LEMMA SumOfTwo ==
    ASSUME NEW A, NEW B, IsFiniteSet(A), IsFiniteSet(B), A \cap B = {}, NEW f,
           \A x \in A \cup B : f[x] \in Nat
    PROVE  /\ SumBy(f, A \cup B) = SumBy(f, A) + SumBy(f, B)
           /\ SumBy(f, A) \in Nat /\ SumBy(f, B) \in Nat
<1>1. PICK Bad : Bad = {s \in SUBSET B : SumBy(f, A \cup s) # SumBy(f, A) + SumBy(f, s)}
  OBVIOUS
<1>2. SumFits(f, A) /\ SumFits(f, B)
  BY SumStep
<1>3. ASSUME Bad # {}
      PROVE  FALSE
  <2>1. Bad \in SUBSET (SUBSET B)
    BY <1>1
  <2>2. PICK s \in Bad : \A r \in SUBSET s : r # s => r \notin Bad
    BY <1>3, <2>1, SmallestSet
  <2>3. s \in SUBSET B /\ SumBy(f, A \cup s) # SumBy(f, A) + SumBy(f, s) /\ IsFiniteSet(s)
    BY <1>1, FS_Subset
  <2>4. SumFits(f, s) /\ \A x \in s : f[x] \in Nat
    BY <2>3, SumStep
  <2>5. s # {}
    <3> SUFFICES ASSUME s = {}
                 PROVE  FALSE
      OBVIOUS
    <3>1. PICK T : T = A \cup s
      OBVIOUS
    <3>2. T = A /\ SumBy(f, T) # SumBy(f, A) + SumBy(f, s)
      BY <2>3, <3>1
    <3>3. SumBy(f, s) = 0 /\ SumBy(f, A) \in Nat
      BY <1>2, <2>4 DEF SumFits
    <3>4. QED  BY <3>2, <3>3
  <2>6. PICK x \in s : TRUE
    BY <2>5
  <2>7. PICK r, T : r = s \ {x} /\ T = A \cup s
    OBVIOUS
  <2>8. r \in SUBSET s /\ r # s /\ r \in SUBSET B /\ T \ {x} = A \cup r /\ x \in T
    BY <2>3, <2>6, <2>7
  <2>9. SumBy(f, A \cup r) = SumBy(f, A) + SumBy(f, r)
    BY <1>1, <2>2, <2>8
  <2>10. IsFiniteSet(T) /\ \A y \in T : f[y] \in Nat
    BY <2>3, <2>7, FS_Union
  <2>11. SumBy(f, T) = f[x] + SumBy(f, A \cup r)
    BY <2>8, <2>10, SumWithout
  <2>12. SumBy(f, s) = f[x] + SumBy(f, r) /\ SumBy(f, r) \in Nat
    BY <2>3, <2>4, <2>7, SumWithout
  <2>13. f[x] \in Nat /\ SumBy(f, A) \in Nat
    BY <1>2, <2>4 DEF SumFits
  <2>14. QED  BY <2>3, <2>7, <2>9, <2>11, <2>12, <2>13
<1>4. B \in SUBSET B
  OBVIOUS
<1>5. QED  BY <1>1, <1>2, <1>3, <1>4 DEF SumFits

\* What weighs nothing may be left out.
LEMMA SumLeavesZeros ==
    ASSUME NEW S, IsFiniteSet(S), NEW R \in SUBSET S, NEW f, \A x \in S : f[x] \in Nat,
           \A x \in S \ R : f[x] = 0
    PROVE  SumBy(f, S) = SumBy(f, R)
<1>1. PICK B : B = S \ R
  OBVIOUS
<1>2. IsFiniteSet(R) /\ IsFiniteSet(B) /\ R \cap B = {} /\ S = R \cup B
  <2>1. B \in SUBSET S /\ R \in SUBSET S
    BY <1>1
  <2>2. QED  BY <1>1, <2>1, FS_Subset
<1>3. SumBy(f, S) = SumBy(f, R) + SumBy(f, B) /\ SumBy(f, R) \in Nat
  BY <1>2, SumOfTwo
<1>4. TimesAsLarge(0, f, f, B)
  BY <1>1 DEF TimesAsLarge
<1>5. SumBy(f, B) = 0 * SumBy(f, B) /\ SumBy(f, B) \in Nat
  BY <1>2, <1>4, SumScaled
<1>6. QED  BY <1>3, <1>5

\* Total() is that sum.
LEMMA TotalIs ==
    ASSUME NEW S, NEW w, DOMAIN w = S
    PROVE  Total(w) = SumBy(w, S)
<1> DEFINE A(it) == it = [s \in SUBSET S |-> IF s = {} THEN 0 ELSE w[Some(s)] + it[s \ {Some(s)}]]
<1>1. Total(w) = (CHOOSE it : A(it))[S]
  BY DEF Total, MapThenSumSet, MapThenFoldSet, Some
<1>2. QED  BY <1>1 DEF SumBy, Adds

(***************************************************************************)
(* Powers of two                                                           *)
(***************************************************************************)
\* The equation of Power, as far as n.
Doubles(f, n) == f = [i \in 0 .. n |-> IF i = 0 THEN 1 ELSE 2 * f[i - 1]]

LEMMA DoublesExist ==
    ASSUME NEW n \in Nat
    PROVE  \E f : Doubles(f, n)
<1>1. PICK Bad : Bad = {j \in Nat : ~ \E f : Doubles(f, j)}
  OBVIOUS
<1>2. SUFFICES ASSUME Bad # {}
               PROVE  FALSE
  BY <1>1
<1>3. PICK j \in Bad : \A i \in Bad : j <= i
  BY <1>1, <1>2, LeastNumber
<1>4. j \in Nat /\ ~ \E f : Doubles(f, j)
  BY <1>1
<1>5. CASE j = 0
  <2>1. PICK e : e = [i \in 0 .. 0 |-> 1]
    OBVIOUS
  <2>2. Doubles(e, 0)
    BY <2>1 DEF Doubles
  <2>3. QED  BY <1>4, <1>5, <2>2
<1>6. CASE j # 0
  <2>1. j - 1 \in Nat /\ ~ (j <= j - 1)
    BY <1>4, <1>6
  <2>2. PICK f : Doubles(f, j - 1)
    <3>1. j - 1 \notin Bad
      BY <1>3, <2>1
    <3>2. QED  BY <1>1, <2>1, <3>1
  <2>3. PICK g : g = [i \in 0 .. j |-> IF i = j THEN 2 * f[j - 1] ELSE f[i]]
    OBVIOUS
  <2>4. ASSUME NEW i \in 0 .. j
        PROVE  g[i] = IF i = 0 THEN 1 ELSE 2 * g[i - 1]
    <3>1. i = 0 \/ g[i - 1] = f[i - 1]
      BY <1>4, <2>3
    <3>2. CASE i = j
      BY <1>6, <2>3, <3>1, <3>2
    <3>3. CASE i # j
      <4>1. i \in 0 .. j - 1
        BY <1>4, <3>3
      <4>2. f[i] = IF i = 0 THEN 1 ELSE 2 * f[i - 1]
        BY <2>2, <4>1 DEF Doubles
      <4>3. QED  BY <2>3, <3>1, <3>3, <4>2
    <3>4. QED  BY <3>2, <3>3
  <2>5. g = [i \in 0 .. j |-> g[i]]
    BY <2>3
  <2>6. Doubles(g, j)
    BY <2>4, <2>5 DEF Doubles
  <2>7. QED  BY <1>4, <2>6
<1>7. QED  BY <1>5, <1>6

\* Power[n] is twice Power[n - 1].
LEMMA PowerStep ==
    ASSUME NEW n \in 0 .. MaxScore
    PROVE  Power[n] = IF n = 0 THEN 1 ELSE 2 * Power[n - 1]
<1>1. MaxScore \in Nat
  BY KernelAssumption
<1>2. \E f : Doubles(f, MaxScore)
  BY <1>1, DoublesExist
<1>3. Power = CHOOSE f : Doubles(f, MaxScore)
  BY DEF Power, Doubles
<1>4. Doubles(Power, MaxScore)
  BY <1>2, <1>3
<1>5. QED  BY <1>4 DEF Doubles

LEMMA PowerType ==
    ASSUME NEW n \in 0 .. MaxScore
    PROVE  Power[n] \in Nat \ {0}
<1>1. PICK Bad : Bad = {i \in 0 .. MaxScore : Power[i] \notin Nat \ {0}}
  OBVIOUS
<1>2. SUFFICES ASSUME Bad # {}
               PROVE  FALSE
  BY <1>1
<1>3. MaxScore \in Nat /\ Bad \in SUBSET Nat
  BY <1>1, KernelAssumption
<1>4. PICK j \in Bad : \A i \in Bad : j <= i
  BY <1>2, <1>3, LeastNumber
<1>5. j \in 0 .. MaxScore /\ Power[j] \notin Nat \ {0}
  BY <1>1
<1>6. Power[j] = IF j = 0 THEN 1 ELSE 2 * Power[j - 1]
  BY <1>5, PowerStep
<1>7. j # 0
  BY <1>5, <1>6
<1>8. j - 1 \in 0 .. MaxScore /\ ~ (j <= j - 1)
  BY <1>3, <1>5, <1>7
<1>9. Power[j - 1] \in Nat \ {0}
  BY <1>1, <1>4, <1>8
<1>10. QED  BY <1>5, <1>6, <1>7, <1>9

\* Exponents add.
LEMMA PowerOfSum ==
    ASSUME NEW a \in Nat, NEW b \in Nat, a + b <= MaxScore
    PROVE  Power[a + b] = Power[a] * Power[b]
<1>1. MaxScore \in Nat
  BY KernelAssumption
<1>2. PICK Bad : Bad = {i \in Nat : a + i <= MaxScore /\ Power[a + i] # Power[a] * Power[i]}
  OBVIOUS
<1>3. SUFFICES ASSUME Bad # {}
               PROVE  FALSE
  BY <1>2
<1>4. PICK j \in Bad : \A i \in Bad : j <= i
  BY <1>2, <1>3, LeastNumber
<1>5. j \in Nat /\ a + j <= MaxScore /\ Power[a + j] # Power[a] * Power[j]
  BY <1>2
<1>6. Power[a] \in Nat
  BY <1>1, <1>5, PowerType
<1>7. CASE j = 0
  <2>1. Power[j] = 1
    BY <1>1, <1>7, PowerStep
  <2>2. a + j = a
    BY <1>7
  <2>3. QED  BY <1>5, <1>6, <2>1, <2>2
<1>8. CASE j # 0
  <2>1. PICK i : i = j - 1
    OBVIOUS
  <2>2. i \in Nat /\ ~ (j <= i) /\ a + i <= MaxScore /\ a + j \in 0 .. MaxScore /\ (a + j) - 1 = a + i
        /\ j \in 0 .. MaxScore /\ a + j # 0 /\ i \in 0 .. MaxScore /\ a + i \in 0 .. MaxScore
    BY <1>1, <1>5, <1>8, <2>1
  <2>3. Power[a + i] = Power[a] * Power[i]
    BY <1>2, <1>4, <2>2
  <2>4. Power[a + j] = 2 * Power[a + i] /\ Power[j] = 2 * Power[i]
    BY <1>8, <2>1, <2>2, PowerStep
  <2>5. Power[i] \in Nat
    BY <2>2, PowerType
  <2>6. 2 * (Power[a] * Power[i]) = Power[a] * (2 * Power[i])
    BY <1>6, <2>5
  <2>7. QED  BY <1>5, <2>3, <2>4, <2>6
<1>9. QED  BY <1>7, <1>8

\* A score, or the mask's.
Scores == 0 .. MaxScore \cup {NegInf}

LEMMA ExpType ==
    ASSUME NEW x \in Scores, NEW m \in 0 .. MaxScore, x <= m
    PROVE  Exp(x, m) \in Nat
<1>1. x = NegInf => Exp(x, m) = 0
  BY DEF Exp
<1>2. MaxScore \in Nat
  BY KernelAssumption
<1>3. x # NegInf => MaxScore + x - m \in 0 .. MaxScore
  BY <1>2 DEF Scores, NegInf
<1>4. x # NegInf => Exp(x, m) = Power[MaxScore + x - m]
  BY DEF Exp
<1>5. QED  BY <1>1, <1>3, <1>4, PowerType

\* A weight under the older maximum is the one under the newer, times a power.
LEMMA ExpUnderOlder ==
    ASSUME NEW x \in Scores, NEW old \in 0 .. MaxScore, NEW new \in 0 .. MaxScore,
           x <= old, old <= new
    PROVE  /\ new - old \in 0 .. MaxScore /\ Power[new - old] \in Nat \ {0}
           /\ Exp(x, old) = Power[new - old] * Exp(x, new)
           /\ Exp(x, old) \in Nat /\ Exp(x, new) \in Nat
<1>1. MaxScore \in Nat
  BY KernelAssumption
<1>2. new - old \in 0 .. MaxScore
  BY <1>1
<1>3. Power[new - old] \in Nat \ {0}
  BY <1>2, PowerType
<1>4. x <= new
  BY <1>1 DEF Scores, NegInf
<1>5. Exp(x, old) \in Nat /\ Exp(x, new) \in Nat
  BY <1>4, ExpType
<1>6. CASE x = NegInf
  <2>1. Exp(x, old) = 0 /\ Exp(x, new) = 0
    BY <1>6 DEF Exp
  <2>2. QED  BY <1>2, <1>3, <1>5, <2>1
<1>7. CASE x # NegInf
  <2>1. PICK a, b : a = new - old /\ b = MaxScore + x - new
    OBVIOUS
  <2>2. a \in Nat /\ b \in Nat /\ a + b <= MaxScore /\ a + b = MaxScore + x - old
    BY <1>1, <1>7, <2>1 DEF Scores, NegInf
  <2>3. Power[a + b] = Power[a] * Power[b]
    BY <2>2, PowerOfSum
  <2>4. Exp(x, old) = Power[a + b] /\ Exp(x, new) = Power[b]
    BY <1>7, <2>1, <2>2 DEF Exp
  <2>5. QED  BY <1>2, <1>3, <1>5, <2>1, <2>3, <2>4
<1>8. QED  BY <1>6, <1>7

\* Division undoes a multiplication.
LEMMA Divides ==
    ASSUME NEW k \in Nat \ {0}, NEW n \in Nat
    PROVE  (k * n) \div k = n
OBVIOUS

(***************************************************************************)
(* Maxima                                                                  *)
(***************************************************************************)
\* A set of scores has one maximum.
LEMMA MaxIs ==
    ASSUME NEW T \in SUBSET Scores, NEW m \in T, \A x \in T : x <= m
    PROVE  Max(T) = m
<1>1. T \in SUBSET Int
  BY KernelAssumption DEF Scores, NegInf
<1>2. \A n \in T : (\A x \in T : n >= x) <=> n = m
  BY <1>1
<1>3. PICK n : n = CHOOSE x \in T : \A y \in T : x >= y
  OBVIOUS
<1>4. n \in T /\ \A y \in T : n >= y
  BY <1>1, <1>3
<1>5. Max(T) = n
  BY <1>3 DEF Max
<1>6. QED  BY <1>2, <1>4, <1>5

LEMMA MaxExists ==
    ASSUME NEW T \in SUBSET Scores, T # {}
    PROVE  Max(T) \in T /\ \A x \in T : x <= Max(T)
<1>1. MaxScore \in Nat /\ T \in SUBSET Int
  BY KernelAssumption DEF Scores, NegInf
<1>2. PICK D : D = {MaxScore - x : x \in T}
  OBVIOUS
<1>3. D \in SUBSET Nat /\ D # {}
  <2>1. \A x \in T : x \in Int /\ x <= MaxScore
    BY <1>1 DEF Scores, NegInf
  <2>2. \A x \in T : MaxScore - x \in Nat
    BY <1>1, <2>1
  <2>3. QED  BY <1>2, <2>2
<1>4. PICK d \in D : \A e \in D : d <= e
  BY <1>3, LeastNumber
<1>5. PICK m \in T : d = MaxScore - m
  BY <1>2
<1>6. ASSUME NEW x \in T
      PROVE  x <= m
  <2>1. MaxScore - x \in D
    BY <1>2
  <2>2. d <= MaxScore - x /\ x \in Int /\ m \in Int
    BY <1>1, <1>4, <2>1
  <2>3. QED  BY <1>1, <1>5, <2>2
<1>7. Max(T) = m
  BY <1>6, MaxIs
<1>8. QED  BY <1>6, <1>7

(***************************************************************************)
(* The online softmax.  After n tiles a row holds what the softmax over    *)
(* the keys of those tiles would: their maximum, the weights relative to   *)
(* it and their sum.                                                       *)
(***************************************************************************)
\* The keys of the first n tiles, and the places past the last key that the
\* partial tile adds; their scores, maximum and weights.
Met(n, size) == 0 .. n * size - 1
Largest(q, r, T) == Max({NegInf} \cup {QK(q, r, c) : c \in T})
Weights(q, r, T, m) == [c \in T |-> Exp(QK(q, r, c), m)]
RowAfter(q, r, T) ==
    LET m == Largest(q, r, T)
    IN [m |-> m, nan |-> FALSE, l |-> SumBy(Weights(q, r, T, m), T),
        acc |-> [c \in Keys(q) |-> IF c \in T THEN Exp(QK(q, r, c), m) ELSE 0]]

LEMMA QKType ==
    ASSUME NEW q, IsProblem(q), NEW r \in Rows(q), NEW c \in Nat
    PROVE  /\ QK(q, r, c) \in Scores
           /\ c = 0 => QK(q, r, c) \in 0 .. MaxScore
<1>1. q.Sq \in Nat \ {0} /\ q.Skv \in Nat \ {0} /\ q.causal \in BOOLEAN
      /\ \A k \in Keys(q) : Scaled(q, k) \in 0 .. MaxScore
  BY DEF IsProblem
<1>2. r \in Nat /\ (c = 0 => ~ (r < c))
  BY <1>1 DEF Rows
<1>3. ~ (c >= q.Skv) => Scaled(q, c) \in 0 .. MaxScore
  BY <1>1 DEF Keys
<1>4. c = 0 => ~ (c >= q.Skv)
  BY <1>1
<1>5. QED  BY <1>1, <1>2, <1>3, <1>4 DEF QK, Scores

LEMMA LargestIs ==
    ASSUME NEW q, IsProblem(q), NEW r \in Rows(q), NEW T \in SUBSET Nat
    PROVE  /\ Largest(q, r, T) \in Scores /\ NegInf <= Largest(q, r, T)
           /\ \A c \in T : QK(q, r, c) <= Largest(q, r, T)
           /\ Largest(q, r, T) = NegInf \/ \E c \in T : Largest(q, r, T) = QK(q, r, c)
           /\ 0 \in T => Largest(q, r, T) \in 0 .. MaxScore
           /\ T = {} => Largest(q, r, T) = NegInf
<1>1. PICK V : V = {NegInf} \cup {QK(q, r, c) : c \in T}
  OBVIOUS
<1>2. V \in SUBSET Scores /\ V # {} /\ NegInf \in V
  <2>1. \A c \in T : QK(q, r, c) \in Scores
    BY QKType
  <2>2. NegInf \in Scores
    BY DEF Scores
  <2>3. QED  BY <1>1, <2>1, <2>2
<1>3. PICK m : m = Max(V)
  OBVIOUS
<1>4. m \in V /\ \A x \in V : x <= m
  BY <1>2, <1>3, MaxExists
<1>5. Largest(q, r, T) = m
  BY <1>1, <1>3 DEF Largest
<1>6. /\ m \in Scores /\ NegInf <= m
      /\ \A c \in T : QK(q, r, c) <= m
      /\ m = NegInf \/ \E c \in T : m = QK(q, r, c)
  BY <1>1, <1>2, <1>4
<1>7. 0 \in T => m \in 0 .. MaxScore
  <2>1. 0 \in T => QK(q, r, 0) \in 0 .. MaxScore /\ QK(q, r, 0) <= m
    BY <1>6, QKType
  <2>2. QED  BY <1>6, <2>1, KernelAssumption DEF Scores, NegInf
<1>8. T = {} => m = NegInf
  BY <1>6
<1>9. QED  BY <1>5, <1>6, <1>7, <1>8

\* The maximum of a part and of the rest is that of the whole.
LEMMA LargestOfBoth ==
    ASSUME NEW q, IsProblem(q), NEW r \in Rows(q), NEW T \in SUBSET Nat, NEW U \in SUBSET Nat,
           NEW m, m = Max({Largest(q, r, T)} \cup {QK(q, r, c) : c \in U})
    PROVE  m = Largest(q, r, T \cup U) /\ Largest(q, r, T) <= m
<1>1. PICK a : a = Largest(q, r, T)
  OBVIOUS
<1>2. PICK V : V = {a} \cup {QK(q, r, c) : c \in U}
  OBVIOUS
<1>3. V \in SUBSET Scores /\ V # {}
  <2>1. \A c \in U : QK(q, r, c) \in Scores
    BY QKType
  <2>2. a \in Scores
    BY <1>1, LargestIs
  <2>3. QED  BY <1>2, <2>1, <2>2
<1>4. m \in V /\ \A x \in V : x <= m
  BY <1>1, <1>2, <1>3, MaxExists
<1>5. PICK W : W = {NegInf} \cup {QK(q, r, c) : c \in T \cup U}
  OBVIOUS
<1>6. W \in SUBSET Scores
  <2>1. \A c \in T \cup U : QK(q, r, c) \in Scores
    BY QKType
  <2>2. NegInf \in Scores
    BY DEF Scores
  <2>3. QED  BY <1>5, <2>1, <2>2
<1>7. /\ a \in Scores /\ NegInf <= a /\ \A c \in T : QK(q, r, c) <= a
      /\ a = NegInf \/ \E c \in T : a = QK(q, r, c)
  BY <1>1, LargestIs
<1>8. a <= m /\ m \in Scores /\ \A c \in U : QK(q, r, c) <= m
  BY <1>2, <1>3, <1>4
<1>9. m \in W
  BY <1>2, <1>4, <1>5, <1>7
<1>10. ASSUME NEW x \in W
       PROVE  x <= m
  <2>1. a \in Int /\ m \in Int /\ NegInf \in Int /\ x \in Int
    BY <1>6, <1>7, <1>8, KernelAssumption DEF Scores, NegInf
  <2>2. x = NegInf \/ (\E c \in T : x = QK(q, r, c)) \/ (\E c \in U : x = QK(q, r, c))
    BY <1>5
  <2>3. x <= a \/ x <= m
    BY <1>7, <1>8, <2>2
  <2>4. QED  BY <1>8, <2>1, <2>3
<1>11. m = Largest(q, r, T \cup U)
  <2>1. Max(W) = m
    BY <1>6, <1>9, <1>10, MaxIs
  <2>2. QED  BY <1>5, <2>1 DEF Largest
<1>12. QED  BY <1>1, <1>8, <1>11

\* What was summed under the older maximum is rescaled to the newer.
LEMMA RescaleWeights ==
    ASSUME NEW q, IsProblem(q), NEW r \in Rows(q), NEW T \in SUBSET Nat, IsFiniteSet(T),
           T = {} \/ 0 \in T, NEW old, old = Largest(q, r, T),
           NEW m \in 0 .. MaxScore, old <= m
    PROVE  /\ Rescale(SumBy(Weights(q, r, T, old), T), old, m) = SumBy(Weights(q, r, T, m), T)
           /\ SumBy(Weights(q, r, T, m), T) \in Nat
           /\ \A c \in T : Rescale(Exp(QK(q, r, c), old), old, m) = Exp(QK(q, r, c), m)
           /\ Rescale(0, old, m) = 0
<1>1. PICK f, g : f = Weights(q, r, T, old) /\ g = Weights(q, r, T, m)
  OBVIOUS
<1>2. \A c \in T : f[c] = Exp(QK(q, r, c), old) /\ g[c] = Exp(QK(q, r, c), m)
  BY <1>1 DEF Weights
<1>3. CASE T = {}
  <2>1. old = NegInf
    BY <1>3, LargestIs
  <2>2. SumFits(g, T)
    BY <1>3, SumStep
  <2>3. SumBy(g, T) = 0
    BY <1>3, <2>2 DEF SumFits
  <2>4. Rescale(SumBy(f, T), old, m) = 0 /\ Rescale(0, old, m) = 0
    BY <2>1 DEF Rescale
  <2>5. QED  BY <1>1, <1>3, <2>3, <2>4
<1>4. CASE T # {}
  <2>1. old \in 0 .. MaxScore /\ old # NegInf
    <3>1. 0 \in T
      BY <1>4
    <3>2. Largest(q, r, T) \in 0 .. MaxScore
      BY <3>1, LargestIs
    <3>3. QED  BY <3>2, KernelAssumption DEF NegInf
  <2>2. PICK k : k = Power[m - old]
    OBVIOUS
  <2>3. ASSUME NEW c \in T
        PROVE  f[c] \in Nat /\ g[c] \in Nat /\ f[c] = k * g[c]
    <3>1. PICK x : x = QK(q, r, c)
      OBVIOUS
    <3>2. x \in Scores /\ x <= old
      BY <3>1, QKType, LargestIs
    <3>3. Exp(x, old) = k * Exp(x, m) /\ Exp(x, old) \in Nat /\ Exp(x, m) \in Nat
      BY <2>1, <2>2, <3>2, ExpUnderOlder
    <3>4. QED  BY <1>2, <3>1, <3>3
  <2>4. k \in Nat \ {0}
    <3>1. m - old \in 0 .. MaxScore
      BY <2>1, KernelAssumption
    <3>2. QED  BY <2>2, <3>1, PowerType
  <2>5. SumBy(f, T) = k * SumBy(g, T) /\ SumBy(g, T) \in Nat
    <3>1. k \in Nat /\ TimesAsLarge(k, f, g, T)
      BY <2>3, <2>4 DEF TimesAsLarge
    <3>2. QED  BY <3>1, SumScaled
  <2>6. \A n \in Nat : Rescale(k * n, old, m) = n
    <3>1. ASSUME NEW n \in Nat
          PROVE  Rescale(k * n, old, m) = n
      <4>1. (k * n) \div k = n
        BY <2>4, Divides
      <4>2. QED  BY <2>1, <2>2, <4>1 DEF Rescale
    <3>2. QED  BY <3>1
  <2>7. Rescale(SumBy(f, T), old, m) = SumBy(g, T)
    BY <2>5, <2>6
  <2>8. \A c \in T : Rescale(f[c], old, m) = g[c]
    BY <2>3, <2>6
  <2>9. Rescale(0, old, m) = 0
    <3>1. k * 0 = 0
      BY <2>4
    <3>2. QED  BY <2>6, <3>1
  <2>10. QED  BY <1>1, <1>2, <2>5, <2>7, <2>8, <2>9
<1>5. QED  BY <1>3, <1>4

\* One tile more.
LEMMA TileStep ==
    ASSUME NEW q, IsProblem(q), NEW r \in Rows(q), NEW T \in SUBSET Nat, IsFiniteSet(T),
           NEW tile \in SUBSET Nat, IsFiniteSet(tile), T \cap tile = {},
           T = {} \/ 0 \in T, 0 \in T \cup tile
    PROVE  OnlineSoftmax(q, r, RowAfter(q, r, T), tile) = RowAfter(q, r, T \cup tile)
<1>1. PICK row : row = RowAfter(q, r, T)
  OBVIOUS
<1>2. PICK old, f : old = Largest(q, r, T) /\ f = Weights(q, r, T, old)
  OBVIOUS
<1>3. /\ row.m = old /\ row.nan = FALSE /\ row.l = SumBy(f, T)
      /\ row.acc = [c \in Keys(q) |-> IF c \in T THEN Exp(QK(q, r, c), old) ELSE 0]
  BY <1>1, <1>2 DEF RowAfter
<1>4. PICK U : U = T \cup tile
  OBVIOUS
<1>5. U \in SUBSET Nat /\ 0 \in U
  BY <1>4
<1>6. PICK m : m = Max({old} \cup {QK(q, r, c) : c \in tile})
  OBVIOUS
<1>7. m = Largest(q, r, U) /\ old <= m
  BY <1>2, <1>4, <1>6, LargestOfBoth
<1>8. m \in 0 .. MaxScore /\ m # NegInf
  BY <1>5, <1>7, LargestIs, KernelAssumption DEF NegInf
<1>9. /\ Rescale(SumBy(f, T), old, m) = SumBy(Weights(q, r, T, m), T)
      /\ SumBy(Weights(q, r, T, m), T) \in Nat
      /\ \A c \in T : Rescale(Exp(QK(q, r, c), old), old, m) = Exp(QK(q, r, c), m)
      /\ Rescale(0, old, m) = 0
  BY <1>2, <1>7, <1>8, RescaleWeights
<1>10. PICK p, w : p = [c \in tile |-> Exp(QK(q, r, c), m)] /\ w = Weights(q, r, U, m)
  OBVIOUS
<1>11. \A c \in U : w[c] = Exp(QK(q, r, c), m) /\ w[c] \in Nat
  <2>1. \A c \in U : w[c] = Exp(QK(q, r, c), m)
    BY <1>10 DEF Weights
  <2>2. \A c \in U : QK(q, r, c) \in Scores /\ QK(q, r, c) <= m
    BY <1>5, <1>7, QKType, LargestIs
  <2>3. \A c \in U : Exp(QK(q, r, c), m) \in Nat
    BY <1>8, <2>2, ExpType
  <2>4. QED  BY <2>1, <2>3
<1>12. SumBy(w, U) = SumBy(w, T) + SumBy(w, tile)
  BY <1>4, <1>11, SumOfTwo
<1>13. SumBy(w, T) = SumBy(Weights(q, r, T, m), T)
  <2>1. PICK v : v = Weights(q, r, T, m)
    OBVIOUS
  <2>2. \A c \in T : w[c] = v[c]
    BY <1>4, <1>11, <2>1 DEF Weights
  <2>3. QED  BY <2>1, <2>2, SumSame
<1>14. SumBy(w, tile) = Total(p)
  <2>1. \A c \in tile : w[c] = p[c]
    BY <1>4, <1>10, <1>11
  <2>2. SumBy(w, tile) = SumBy(p, tile)
    BY <2>1, SumSame
  <2>3. DOMAIN p = tile
    BY <1>10
  <2>4. QED  BY <2>2, <2>3, TotalIs
<1>15. Rescale(row.l, row.m, m) + Total(p) = SumBy(w, U)
  BY <1>3, <1>9, <1>12, <1>13, <1>14
<1>16. ASSUME NEW c \in Keys(q)
       PROVE  Rescale(row.acc[c], row.m, m) + (IF c \in tile THEN p[c] ELSE 0)
                = IF c \in U THEN Exp(QK(q, r, c), m) ELSE 0
  <2>1. row.m = old /\ row.acc[c] = IF c \in T THEN Exp(QK(q, r, c), old) ELSE 0
    BY <1>3
  <2>2. CASE c \in T
    <3>1. Rescale(row.acc[c], row.m, m) = Exp(QK(q, r, c), m)
      BY <1>9, <2>1, <2>2
    <3>2. c \notin tile /\ c \in U /\ Exp(QK(q, r, c), m) \in Nat
      BY <1>4, <1>11, <2>2
    <3>3. QED  BY <3>1, <3>2
  <2>3. CASE c \notin T
    <3>1. Rescale(row.acc[c], row.m, m) = 0
      BY <1>9, <2>1, <2>3
    <3>2. c \in tile <=> c \in U
      BY <1>4, <2>3
    <3>3. c \in tile => p[c] = Exp(QK(q, r, c), m) /\ Exp(QK(q, r, c), m) \in Nat
      BY <1>4, <1>10, <1>11
    <3>4. QED  BY <3>1, <3>2, <3>3
  <2>4. QED  BY <2>2, <2>3
<1>17. OnlineSoftmax(q, r, row, tile)
         = [m |-> m, nan |-> FALSE, l |-> SumBy(w, U),
            acc |-> [c \in Keys(q) |-> IF c \in U THEN Exp(QK(q, r, c), m) ELSE 0]]
  <2>1. OnlineSoftmax(q, r, row, tile)
          = [m |-> m, nan |-> row.nan \/ m = NegInf,
             l |-> Rescale(row.l, row.m, m) + Total(p),
             acc |-> [c \in Keys(q) |-> Rescale(row.acc[c], row.m, m)
                                         + (IF c \in tile THEN p[c] ELSE 0)]]
    BY <1>3, <1>6, <1>10 DEF OnlineSoftmax
  <2>2. (row.nan \/ m = NegInf) = FALSE
    BY <1>3, <1>8
  <2>3. [c \in Keys(q) |-> Rescale(row.acc[c], row.m, m) + (IF c \in tile THEN p[c] ELSE 0)]
          = [c \in Keys(q) |-> IF c \in U THEN Exp(QK(q, r, c), m) ELSE 0]
    BY <1>16
  <2>4. QED  BY <1>15, <2>1, <2>2, <2>3
<1>18. QED  BY <1>1, <1>4, <1>7, <1>10, <1>17 DEF RowAfter

\* The tile loop: A is what its rows are after each tile.
Tile(n, size) == (n - 1) * size .. n * size - 1
FirstRow(q) == [m |-> NegInf, nan |-> FALSE, l |-> 0, acc |-> [c \in Keys(q) |-> 0]]
Loops(A, q, r, size, tiles) ==
    A = [n \in 0 .. tiles |-> IF n = 0 THEN FirstRow(q)
                              ELSE OnlineSoftmax(q, r, A[n - 1], Tile(n, size))]

LEMMA MetGrows ==
    ASSUME NEW size \in {1, 2, 4}, NEW n \in Nat \ {0}
    PROVE  /\ Met(n - 1, size) \in SUBSET Nat /\ IsFiniteSet(Met(n - 1, size))
           /\ Tile(n, size) \in SUBSET Nat /\ IsFiniteSet(Tile(n, size))
           /\ Met(n - 1, size) \cap Tile(n, size) = {}
           /\ Met(n - 1, size) \cup Tile(n, size) = Met(n, size)
           /\ Met(n - 1, size) = {} \/ 0 \in Met(n - 1, size)
           /\ 0 \in Met(n, size)
<1>1. PICK a, b : a = (n - 1) * size /\ b = n * size
  OBVIOUS
<1>2. a \in Nat /\ b \in Nat /\ a < b
  BY <1>1
<1>3. Met(n - 1, size) = 0 .. a - 1 /\ Met(n, size) = 0 .. b - 1 /\ Tile(n, size) = a .. b - 1
  BY <1>1 DEF Met, Tile
<1>4. IsFiniteSet(0 .. a - 1) /\ IsFiniteSet(a .. b - 1)
  BY <1>2, FS_Interval
<1>5. /\ (0 .. a - 1) \in SUBSET Nat /\ (a .. b - 1) \in SUBSET Nat
      /\ (0 .. a - 1) \cap (a .. b - 1) = {}
      /\ 0 .. a - 1 = {} \/ 0 \in 0 .. a - 1
      /\ 0 \in 0 .. b - 1
  BY <1>2
<1>6. (0 .. a - 1) \cup (a .. b - 1) = 0 .. b - 1
  BY <1>2
<1>7. QED  BY <1>3, <1>4, <1>5, <1>6

LEMMA NoKeyMet ==
    ASSUME NEW q, IsProblem(q), NEW r \in Rows(q), NEW size \in {1, 2, 4}
    PROVE  RowAfter(q, r, Met(0, size)) = FirstRow(q)
<1>1. PICK T : T = Met(0, size)
  OBVIOUS
<1>2. T = {}
  BY <1>1 DEF Met
<1>3. Largest(q, r, T) = NegInf
  BY <1>2, LargestIs
<1>4. PICK w : w = Weights(q, r, T, NegInf)
  OBVIOUS
<1>5. IsFiniteSet(T)
  BY <1>2, FS_EmptySet
<1>6. SumFits(w, T)
  BY <1>2, <1>5, SumStep
<1>7. SumBy(w, T) = 0
  BY <1>2, <1>6 DEF SumFits
<1>8. [c \in Keys(q) |-> IF c \in T THEN Exp(QK(q, r, c), NegInf) ELSE 0] = [c \in Keys(q) |-> 0]
  BY <1>2
<1>9. QED  BY <1>1, <1>3, <1>4, <1>7, <1>8 DEF RowAfter, FirstRow

\* A tile more of the loop.
LEMMA LoopStep ==
    ASSUME NEW q, IsProblem(q), NEW r \in Rows(q), NEW size \in {1, 2, 4}, NEW n \in Nat \ {0}
    PROVE  OnlineSoftmax(q, r, RowAfter(q, r, Met(n - 1, size)), Tile(n, size))
             = RowAfter(q, r, Met(n, size))
<1>1. PICK T, tile : T = Met(n - 1, size) /\ tile = Tile(n, size)
  OBVIOUS
<1>2. /\ T \in SUBSET Nat /\ IsFiniteSet(T) /\ tile \in SUBSET Nat /\ IsFiniteSet(tile)
      /\ T \cap tile = {} /\ T \cup tile = Met(n, size) /\ (T = {} \/ 0 \in T) /\ 0 \in T \cup tile
  BY <1>1, MetGrows
<1>3. OnlineSoftmax(q, r, RowAfter(q, r, T), tile) = RowAfter(q, r, T \cup tile)
  BY <1>2, TileStep
<1>4. QED  BY <1>1, <1>2, <1>3

\* The loop runs, and one way only.
LEMMA LoopRuns ==
    ASSUME NEW q, IsProblem(q), NEW r \in Rows(q), NEW size \in {1, 2, 4}, NEW tiles \in Nat,
           NEW A, A = CHOOSE any : Loops(any, q, r, size, tiles)
    PROVE  A[tiles] = RowAfter(q, r, Met(tiles, size))
<1>1. PICK F : F = [n \in 0 .. tiles |-> RowAfter(q, r, Met(n, size))]
  OBVIOUS
<1>2. Loops(F, q, r, size, tiles)
  <2>1. ASSUME NEW n \in 0 .. tiles
        PROVE  F[n] = IF n = 0 THEN FirstRow(q)
                      ELSE OnlineSoftmax(q, r, F[n - 1], Tile(n, size))
    <3>1. CASE n = 0
      BY <1>1, <3>1, NoKeyMet
    <3>2. CASE n # 0
      <4>1. n \in Nat \ {0} /\ n - 1 \in 0 .. tiles
        BY <3>2
      <4>2. F[n - 1] = RowAfter(q, r, Met(n - 1, size)) /\ F[n] = RowAfter(q, r, Met(n, size))
        BY <1>1, <4>1
      <4>3. QED  BY <3>2, <4>1, <4>2, LoopStep
    <3>3. QED  BY <3>1, <3>2
  <2>2. F = [n \in 0 .. tiles |-> F[n]]
    BY <1>1
  <2>3. QED  BY <2>1, <2>2 DEF Loops
<1>3. Loops(A, q, r, size, tiles)
  BY <1>2
<1>4. PICK Bad : Bad = {n \in 0 .. tiles : A[n] # RowAfter(q, r, Met(n, size))}
  OBVIOUS
<1>5. SUFFICES ASSUME Bad # {}
               PROVE  FALSE
  BY <1>4
<1>6. PICK n \in Bad : \A i \in Bad : n <= i
  <2>1. Bad \in SUBSET Nat
    BY <1>4
  <2>2. QED  BY <1>5, <2>1, LeastNumber
<1>7. n \in 0 .. tiles /\ A[n] # RowAfter(q, r, Met(n, size))
  BY <1>4
<1>8. A[n] = IF n = 0 THEN FirstRow(q)
             ELSE OnlineSoftmax(q, r, A[n - 1], Tile(n, size))
  BY <1>3, <1>7 DEF Loops
<1>9. CASE n = 0
  BY <1>7, <1>8, <1>9, NoKeyMet
<1>10. CASE n # 0
  <2>1. n \in Nat \ {0} /\ n - 1 \in 0 .. tiles /\ ~ (n <= n - 1)
    BY <1>7, <1>10
  <2>2. A[n - 1] = RowAfter(q, r, Met(n - 1, size))
    BY <1>4, <1>6, <2>1
  <2>3. QED  BY <1>7, <1>8, <1>10, <2>1, <2>2, LoopStep
<1>11. QED  BY <1>9, <1>10

\* All keys in whole tiles.
LEMMA TilesCover ==
    ASSUME NEW length \in Nat, NEW size \in {1, 2, 4}
    PROVE  Cdiv(length, size) \in Nat /\ length <= Cdiv(length, size) * size
BY DEF Cdiv

\* A row that has met all keys that the causal mask leaves is the softmax of
\* the row.
LEMMA SoftmaxAfterAll ==
    ASSUME NEW q, IsProblem(q), ~ q.mask, q.kind # "neighborhood", NEW r \in Rows(q),
           NEW T \in SUBSET Nat, IsFiniteSet(T), 0 \in T,
           \A c \in Keys(q) \ T : q.causal /\ r < c,
           NEW row, row = RowAfter(q, r, T)
    PROVE  [acc |-> row.acc, l |-> row.l, nan |-> row.nan] = Softmax(q, r)
<1>1. PICK m, w : m = Largest(q, r, T) /\ w = Weights(q, r, T, m)
  OBVIOUS
<1>2. /\ row.nan = FALSE /\ row.l = SumBy(w, T)
      /\ row.acc = [c \in Keys(q) |-> IF c \in T THEN Exp(QK(q, r, c), m) ELSE 0]
  BY <1>1 DEF RowAfter
<1>3. /\ q.Skv \in Nat \ {0} /\ q.causal \in BOOLEAN /\ r \in Nat
      /\ \A c \in Keys(q) : Scaled(q, c) \in 0 .. MaxScore
  BY DEF IsProblem, Rows
<1>4. 0 \in Keys(q) /\ \A c \in Nat : c \in Keys(q) <=> ~ (c >= q.Skv)
  BY <1>3 DEF Keys
<1>5. /\ m \in 0 .. MaxScore /\ \A c \in T : QK(q, r, c) <= m
      /\ \E c \in T : m = QK(q, r, c)
  <2>1. m \in 0 .. MaxScore
    BY <1>1, LargestIs
  <2>2. m # NegInf
    BY <2>1, KernelAssumption DEF NegInf
  <2>3. QED  BY <1>1, <2>1, <2>2, LargestIs
<1>6. PICK S : S = Attended(q, r)
  OBVIOUS
<1>7. \A c \in Nat : c \in S <=> c \in Keys(q) /\ (q.causal => c <= r)
  BY <1>6 DEF Attended, Keys
<1>8. \A c \in T : QK(q, r, c) = IF c \in S THEN Scaled(q, c) ELSE NegInf
  <2>1. \A c \in Nat : ~ (r < c) <=> c <= r
    BY <1>3
  <2>2. QED  BY <1>3, <1>4, <1>7, <2>1 DEF QK
<1>9. S \in SUBSET Keys(q) /\ S \in SUBSET T
  <2>1. S \in SUBSET Keys(q) /\ Keys(q) \in SUBSET Nat
    BY <1>3, <1>6 DEF Attended, Keys
  <2>2. \A c \in Nat : r < c => ~ (c <= r)
    BY <1>3
  <2>3. QED  BY <1>7, <2>1, <2>2
<1>10. PICK V : V = {Scaled(q, c) : c \in S}
  OBVIOUS
<1>11. Max(V) = m
  <2>1. V \in SUBSET Scores
    BY <1>3, <1>9, <1>10 DEF Scores
  <2>2. m \in V
    <3>1. PICK c \in T : m = QK(q, r, c)
      BY <1>5
    <3>2. m # NegInf
      BY <1>5, KernelAssumption DEF NegInf
    <3>3. QED  BY <1>8, <1>10, <3>1, <3>2
  <2>3. \A x \in V : x <= m
    BY <1>5, <1>8, <1>9, <1>10
  <2>4. QED  BY <2>1, <2>2, <2>3, MaxIs
<1>12. PICK v : v = [c \in Keys(q) |-> IF c \in S THEN Exp(Scaled(q, c), m) ELSE 0]
  OBVIOUS
<1>13. \A c \in T : w[c] = (IF c \in S THEN Exp(Scaled(q, c), m) ELSE 0) /\ w[c] = Exp(QK(q, r, c), m)
  <2>1. \A c \in T : w[c] = Exp(QK(q, r, c), m)
    BY <1>1 DEF Weights
  <2>2. Exp(NegInf, m) = 0
    BY DEF Exp
  <2>3. QED  BY <1>8, <2>1, <2>2
<1>14. row.acc = v
  <2>1. \A c \in Keys(q) : (IF c \in T THEN Exp(QK(q, r, c), m) ELSE 0)
                             = IF c \in S THEN Exp(Scaled(q, c), m) ELSE 0
    BY <1>9, <1>13
  <2>2. QED  BY <1>2, <1>12, <2>1
<1>15. row.l = Total(v)
  <2>1. \A c \in T : w[c] \in Nat
    <3>1. \A c \in T : QK(q, r, c) \in Scores /\ QK(q, r, c) <= m
      BY <1>5, QKType
    <3>2. QED  BY <1>5, <1>13, <3>1, ExpType
  <2>2. \A c \in T \ S : w[c] = 0
    BY <1>13
  <2>3. SumBy(w, T) = SumBy(w, S)
    BY <1>9, <2>1, <2>2, SumLeavesZeros
  <2>4. \A c \in S : w[c] = v[c]
    BY <1>9, <1>12, <1>13
  <2>5. SumBy(w, S) = SumBy(v, S)
    BY <2>4, SumSame
  <2>6. SumBy(v, Keys(q)) = SumBy(v, S)
    <3>1. \A c \in Keys(q) : v[c] \in Nat
      <4>1. \A c \in S : v[c] \in Nat
        BY <1>9, <2>1, <2>4
      <4>2. QED  BY <1>12, <4>1
    <3>2. \A c \in Keys(q) \ S : v[c] = 0
      BY <1>12
    <3>3. PICK top : top = q.Skv - 1
      OBVIOUS
    <3>4. 0 \in Int /\ top \in Int
      BY <1>3, <3>3
    <3>5. IsFiniteSet(0 .. top)
      BY <3>4, FS_Interval
    <3>6. IsFiniteSet(Keys(q))
      BY <3>3, <3>5 DEF Keys
    <3>7. QED  BY <1>9, <3>1, <3>2, <3>6, SumLeavesZeros
  <2>7. DOMAIN v = Keys(q)
    BY <1>12
  <2>8. Total(v) = SumBy(v, Keys(q))
    BY <2>7, TotalIs
  <2>9. QED  BY <1>2, <2>3, <2>5, <2>6, <2>8
<1>16. Softmax(q, r) = [acc |-> v, l |-> Total(v), nan |-> FALSE]
  BY <1>6, <1>10, <1>11, <1>12 DEF Softmax, SoftmaxOver
<1>17. QED  BY <1>2, <1>14, <1>15, <1>16

\* The tile loop over enough tiles is the softmax of the row.
LEMMA LoopedIs ==
    ASSUME NEW q, IsProblem(q), ~ q.mask, q.kind # "neighborhood", NEW r \in Rows(q),
           NEW size \in {1, 2, 4}, NEW tiles \in Nat \ {0},
           q.Skv <= tiles * size \/ (q.causal /\ r < tiles * size)
    PROVE  Looped(q, r, size, tiles) = Softmax(q, r)
<1>1. PICK A : A = CHOOSE any : Loops(any, q, r, size, tiles)
  OBVIOUS
<1>2. PICK T, k : T = Met(tiles, size) /\ k = tiles * size
  OBVIOUS
<1>3. A[tiles] = RowAfter(q, r, T)
  BY <1>1, <1>2, LoopRuns
<1>4. k \in Nat \ {0}
  BY <1>2
<1>5. T = 0 .. k - 1
  BY <1>2 DEF Met
<1>6. IsFiniteSet(0 .. k - 1)
  BY <1>4, FS_Interval
<1>7. T \in SUBSET Nat /\ IsFiniteSet(T) /\ 0 \in T
  BY <1>4, <1>5, <1>6
<1>8. \A c \in Keys(q) \ T : q.causal /\ r < c
  <2>1. q.Skv \in Nat /\ r \in Nat
    BY DEF IsProblem, Rows
  <2>2. \A c \in Keys(q) : c \in Nat /\ c < q.Skv
    BY <2>1 DEF Keys
  <2>3. \A c \in Nat : c \notin T => k <= c
    BY <1>4, <1>5
  <2>4. q.Skv <= k \/ (q.causal /\ r < k)
    BY <1>2
  <2>5. QED  BY <1>4, <2>1, <2>2, <2>3, <2>4
<1>9. [acc |-> A[tiles].acc, l |-> A[tiles].l, nan |-> A[tiles].nan] = Softmax(q, r)
  BY <1>3, <1>7, <1>8, SoftmaxAfterAll
<1>10. Looped(q, r, size, tiles) = [acc |-> A[tiles].acc, l |-> A[tiles].l, nan |-> A[tiles].nan]
  BY <1>1 DEF Looped, Loops, FirstRow, Tile
<1>11. QED  BY <1>9, <1>10

(***************************************************************************)
(* The kernels and the unfused op                                          *)
(***************************************************************************)
\* The sides of a configuration's tiles.
TilesOK(cfg) == cfg.BLOCK_M \in {1, 2, 4} /\ cfg.BLOCK_N \in {1, 2, 4}

LEMMA ConfigsOK ==
    /\ \A c \in gfx942_configs \cup hopper_configs \cup ada_configs : TilesOK(c)
    /\ TilesOK(gfx942_fallback) /\ TilesOK(hopper_fallback) /\ TilesOK(ada_fallback)
<1>1. \A t \in TileShapes : t[1] \in {1, 2, 4} /\ t[2] \in {1, 2, 4}
  BY DEF TileShapes
<1>2. ASSUME NEW t \in TileShapes, NEW nw, NEW ns
      PROVE  TilesOK(Config(t, nw, ns))
  BY <1>1 DEF TilesOK, Config
<1>3. {<<2, 1>>, <<4, 2>>, <<2, 2>>} \subseteq TileShapes
  BY DEF TileShapes
<1>4. \A c \in gfx942_configs : TilesOK(c)
  BY <1>2, <1>3 DEF gfx942_configs
<1>5. \A c \in hopper_configs : TilesOK(c)
  BY <1>2 DEF hopper_configs
<1>6. \A c \in ada_configs : TilesOK(c)
  BY <1>2 DEF ada_configs
<1>7. TilesOK(gfx942_fallback) /\ TilesOK(hopper_fallback) /\ TilesOK(ada_fallback)
  BY <1>2, <1>3 DEF gfx942_fallback, hopper_fallback, ada_fallback
<1>8. QED  BY <1>4, <1>5, <1>6, <1>7

\* A row of the program that stores it.
LEMMA ProgramRow ==
    ASSUME NEW q, IsProblem(q), ~ q.mask, q.kind # "neighborhood", NEW cfg, TilesOK(cfg),
           NEW pid \in Nat, NEW r \in Rows(q),
           pid * cfg.BLOCK_M <= r, r <= (pid + 1) * cfg.BLOCK_M - 1
    PROVE  _fp8_flash_attn_fwd_impl(q, pid, cfg)[r] = Softmax(q, r)
<1>1. PICK size, tiles : size = cfg.BLOCK_N /\ tiles = Cdiv(q.Skv, size)
  OBVIOUS
<1>2. size \in {1, 2, 4} /\ cfg.BLOCK_M \in {1, 2, 4}
  BY <1>1 DEF TilesOK
<1>3. q.Skv \in Nat \ {0}
  BY DEF IsProblem
<1>4. tiles \in Nat /\ q.Skv <= tiles * size
  BY <1>1, <1>2, <1>3, TilesCover
<1>5. tiles # 0
  BY <1>2, <1>3, <1>4
<1>6. Looped(q, r, size, tiles) = Softmax(q, r)
  BY <1>2, <1>4, <1>5, LoopedIs
<1>7. r \in pid * cfg.BLOCK_M .. (pid + 1) * cfg.BLOCK_M - 1 \cap Rows(q)
  <2>1. r \in Nat
    BY DEF IsProblem, Rows
  <2>2. pid * cfg.BLOCK_M \in Nat /\ (pid + 1) * cfg.BLOCK_M \in Nat
    BY <1>2
  <2>3. QED  BY <2>1, <2>2
<1>8. _fp8_flash_attn_fwd_impl(q, pid, cfg)[r] = Looped(q, r, size, tiles)
  BY <1>1, <1>7 DEF _fp8_flash_attn_fwd_impl
<1>9. QED  BY <1>6, <1>8

\* Every row is stored by one of the programs.
LEMMA RowIsStored ==
    ASSUME NEW q, IsProblem(q), NEW size \in {1, 2, 4}, NEW r \in Rows(q), NEW pid, pid = r \div size
    PROVE  /\ pid \in Nat /\ pid < Cdiv(q.Sq, size)
           /\ pid * size <= r /\ r <= (pid + 1) * size - 1
<1>1. q.Sq \in Nat /\ r \in Nat /\ r <= q.Sq - 1
  BY DEF IsProblem, Rows
<1>2. QED  BY <1>1 DEF Cdiv

SoftmaxRows(q) == [r \in Rows(q) |-> Softmax(q, r)]
LEMMA AllRows ==
    ASSUME NEW q, IsProblem(q), ~ q.mask, q.kind # "neighborhood", NEW cfg, TilesOK(cfg)
    PROVE  /\ Launched(_fp8_flash_attn_fwd_impl, q, cfg) = SoftmaxRows(q)
           /\ Launched(hopper_fwd_impl, q, cfg) = SoftmaxRows(q)
           /\ Launched(ada_fwd_impl, q, cfg) = SoftmaxRows(q)
<1>1. ASSUME NEW r \in Rows(q)
      PROVE  /\ r \div cfg.BLOCK_M < Cdiv(q.Sq, cfg.BLOCK_M)
             /\ _fp8_flash_attn_fwd_impl(q, r \div cfg.BLOCK_M, cfg)[r] = Softmax(q, r)
  <2>1. PICK pid : pid = r \div cfg.BLOCK_M
    OBVIOUS
  <2>2. cfg.BLOCK_M \in {1, 2, 4}
    BY DEF TilesOK
  <2>3. /\ pid \in Nat /\ pid < Cdiv(q.Sq, cfg.BLOCK_M)
        /\ pid * cfg.BLOCK_M <= r /\ r <= (pid + 1) * cfg.BLOCK_M - 1
    BY <2>1, <2>2, RowIsStored
  <2>4. QED  BY <2>1, <2>3, ProgramRow
<1>2. Launched(_fp8_flash_attn_fwd_impl, q, cfg) = SoftmaxRows(q)
  BY <1>1 DEF Launched, SoftmaxRows
<1>3. Launched(hopper_fwd_impl, q, cfg) = SoftmaxRows(q)
  BY <1>1 DEF Launched, SoftmaxRows, hopper_fwd_impl
<1>4. Launched(ada_fwd_impl, q, cfg) = SoftmaxRows(q)
  BY <1>1 DEF Launched, SoftmaxRows, ada_fwd_impl
<1>5. QED  BY <1>2, <1>3, <1>4

\* A row of the AMX kernels: the tiles a causal row leaves out are masked.
LEMMA AmxRow ==
    ASSUME NEW q, IsProblem(q), ~ q.mask, q.kind # "neighborhood", SelfAttention(q),
           NEW size \in {1, 2, 4}, q.Sq % size = 0, NEW r \in Rows(q)
    PROVE  r \div size < q.Sq \div size /\ process_q_tile(q, r, size) = Softmax(q, r)
<1>1. PICK n, k, seen : n = q.Skv /\ k = n \div size /\ seen = r \div size + 1
  OBVIOUS
<1>2. n \in Nat \ {0} /\ q.Sq = n /\ n % size = 0 /\ r \in Nat /\ r < n
  BY <1>1 DEF IsProblem, Rows, SelfAttention
<1>3. k \in Nat \ {0} /\ n <= k * size
  BY <1>1, <1>2
<1>4. seen \in Nat \ {0} /\ r < seen * size /\ r \div size < k
  BY <1>1, <1>2
<1>5. PICK tiles : tiles = IF q.causal /\ seen < k THEN seen ELSE k
  OBVIOUS
<1>6. tiles \in Nat \ {0} /\ (q.Skv <= tiles * size \/ (q.causal /\ r < tiles * size))
  BY <1>1, <1>3, <1>4, <1>5
<1>7. Looped(q, r, size, tiles) = Softmax(q, r)
  BY <1>6, LoopedIs
<1>8. process_q_tile(q, r, size) = Looped(q, r, size, tiles)
  BY <1>1, <1>5 DEF process_q_tile
<1>9. QED  BY <1>1, <1>2, <1>4, <1>7, <1>8

LEMMA AmxRows ==
    ASSUME NEW q, IsProblem(q), ~ q.mask, q.kind # "neighborhood", SelfAttention(q),
           NEW size \in {1, 2, 4}, q.Sq % size = 0
    PROVE  flash_attn_amx(q, size) = [rows |-> SoftmaxRows(q), dropout |-> FALSE, gqa |-> FALSE,
                                      finite |-> q.data # "nonfinite"]
<1>1. PICK rows : rows = [r \in Rows(q) |-> IF r \div size < q.Sq \div size
                                            THEN process_q_tile(q, r, size) ELSE Unwritten]
  OBVIOUS
<1>2. \A r \in Rows(q) : (IF r \div size < q.Sq \div size
                          THEN process_q_tile(q, r, size) ELSE Unwritten) = Softmax(q, r)
  BY AmxRow
<1>3. rows = SoftmaxRows(q)
  BY <1>1, <1>2 DEF SoftmaxRows
<1>4. QED  BY <1>1, <1>3 DEF flash_attn_amx

\* The unfused op takes the softmax over a whole row x of scores at once.
Unfused(q, r, x, v) ==
    /\ x = [c \in Keys(q) |-> IF q.causal /\ c > r THEN NegInf ELSE Scaled(q, c)]
    /\ v = [c \in Keys(q) |-> Exp(x[c], Max({x[k] : k \in Keys(q)}))]

LEMMA UnfusedRow ==
    ASSUME NEW q, IsProblem(q), ~ q.mask, q.kind # "neighborhood", NEW r \in Rows(q),
           NEW x, NEW v, Unfused(q, r, x, v)
    PROVE  [acc |-> v, l |-> Total(v), nan |-> FALSE] = Softmax(q, r)
<1>0. /\ x = [c \in Keys(q) |-> IF q.causal /\ c > r THEN NegInf ELSE Scaled(q, c)]
      /\ v = [c \in Keys(q) |-> Exp(x[c], Max({x[k] : k \in Keys(q)}))]
  BY DEF Unfused
<1>1. /\ q.Skv \in Nat \ {0} /\ q.causal \in BOOLEAN /\ r \in Nat
      /\ \A c \in Keys(q) : Scaled(q, c) \in 0 .. MaxScore
  BY DEF IsProblem, Rows
<1>2. PICK S : S = Attended(q, r)
  OBVIOUS
<1>3. S \in SUBSET Keys(q) /\ 0 \in S
  BY <1>1, <1>2 DEF Attended, Keys
<1>4. \A c \in Keys(q) : x[c] = IF c \in S THEN Scaled(q, c) ELSE NegInf
  <2>1. \A c \in Keys(q) : c \in S <=> (q.causal => c <= r)
    BY <1>2 DEF Attended
  <2>2. \A c \in Keys(q) : c > r <=> ~ (c <= r)
    BY <1>1 DEF Keys
  <2>3. QED  BY <1>0, <1>1, <2>1, <2>2
<1>5. PICK V, W : V = {Scaled(q, c) : c \in S} /\ W = {x[k] : k \in Keys(q)}
  OBVIOUS
<1>6. V \in SUBSET Scores /\ W \in SUBSET Scores /\ V # {} /\ V \in SUBSET W
  BY <1>1, <1>3, <1>4, <1>5 DEF Scores
<1>7. PICK m : m = Max(V)
  OBVIOUS
<1>8. m \in V /\ \A y \in V : y <= m
  BY <1>6, <1>7, MaxExists
<1>9. m \in 0 .. MaxScore
  BY <1>1, <1>3, <1>5, <1>8
<1>10. \A y \in W : y <= m
  <2>1. \A y \in W : y = NegInf \/ y \in V
    BY <1>4, <1>5
  <2>2. NegInf <= m
    BY <1>9, KernelAssumption DEF NegInf
  <2>3. QED  BY <1>8, <2>1, <2>2
<1>11. Max(W) = m
  BY <1>6, <1>8, <1>10, MaxIs
<1>12. PICK w : w = [c \in Keys(q) |-> IF c \in S THEN Exp(Scaled(q, c), m) ELSE 0]
  OBVIOUS
<1>13. v = w
  <2>1. Exp(NegInf, m) = 0
    BY DEF Exp
  <2>2. \A c \in Keys(q) : Exp(x[c], m) = IF c \in S THEN Exp(Scaled(q, c), m) ELSE 0
    BY <1>4, <2>1
  <2>3. v = [c \in Keys(q) |-> Exp(x[c], m)]
    BY <1>0, <1>5, <1>11
  <2>4. QED  BY <1>12, <2>2, <2>3
<1>14. Softmax(q, r) = [acc |-> w, l |-> Total(w), nan |-> FALSE]
  BY <1>2, <1>5, <1>7, <1>12 DEF Softmax, SoftmaxOver
<1>15. QED  BY <1>13, <1>14

LEMMA UnfusedIs ==
    ASSUME NEW q, IsProblem(q), ~ q.mask, q.kind # "neighborhood"
    PROVE  scaled_mm_attention(q) = Output(SoftmaxRows(q), _rowwise_quantize(q.data), q)
<1>1. PICK x : x = [r \in Rows(q) |-> [c \in Keys(q) |-> IF q.causal /\ c > r THEN NegInf ELSE Scaled(q, c)]]
  OBVIOUS
<1>2. PICK v : v = [r \in Rows(q) |-> [c \in Keys(q) |-> Exp(x[r][c], Max({x[r][k] : k \in Keys(q)}))]]
  OBVIOUS
<1>3. \A r \in Rows(q) : [acc |-> v[r], l |-> Total(v[r]), nan |-> FALSE] = Softmax(q, r)
  <2>1. ASSUME NEW r \in Rows(q)
        PROVE  [acc |-> v[r], l |-> Total(v[r]), nan |-> FALSE] = Softmax(q, r)
    <3>1. PICK y, u : y = x[r] /\ u = v[r]
      OBVIOUS
    <3>2. Unfused(q, r, y, u)
      BY <1>1, <1>2, <3>1 DEF Unfused
    <3>3. [acc |-> u, l |-> Total(u), nan |-> FALSE] = Softmax(q, r)
      BY <3>2, UnfusedRow
    <3>4. QED  BY <3>1, <3>3
  <2>2. QED  BY <2>1
<1>4. [r \in Rows(q) |-> [acc |-> v[r], l |-> Total(v[r]), nan |-> FALSE]] = SoftmaxRows(q)
  BY <1>3 DEF SoftmaxRows
<1>5. scaled_mm_attention(q)
        = Output([r \in Rows(q) |-> [acc |-> v[r], l |-> Total(v[r]), nan |-> FALSE]],
                 _rowwise_quantize(q.data), q)
  BY <1>1, <1>2 DEF scaled_mm_attention
<1>6. QED  BY <1>4, <1>5

(***************************************************************************)
(* What a call returns.  The invariant of the results: what a call in      *)
(* progress has computed is the softmax it was asked for, and no tile      *)
(* configuration on file or in hand is one the kernels have not.           *)
(***************************************************************************)
\* The output of an FP8 op without mask, dropout or GQA.
FP8Result(q) == [rows |-> SoftmaxRows(q), dropout |-> FALSE, gqa |-> FALSE,
                 finite |-> q.data \in {"plain", "zeros"}]
CacheOK(entries) == \A k \in DOMAIN entries : TilesOK(entries[k])

\* What the op of that name may return on that route, as the property has it.
Answers(route, q, name, result) ==
    q.data # "nonfinite" =>
        \/ result = Asked(q)
        \/ route \notin Bridges /\ name \in Fp8Ops /\ result = [Asked(q) EXCEPT !.finite = FALSE]
        \/ name = "naive-sdpa" /\ q.kind = "neighborhood" /\ result = Asked(Given(q))
        \/ name \in FlashOps /\ q.causal /\ q.Sq # q.Skv /\ result = flash_attn_func(q)

KernelOK(c) ==
    /\ c.pc # "idle" => /\ IsProblem(c.q) /\ Plain(c.q) /\ FullOrCausal(c.q) /\ c.op \in TritonOps
    /\ c.pc \in {"launch", "load"} => TilesOK(c.cfg)
    /\ c.pc \in SavePcs => CacheOK(c.cache)
    /\ c.pc \in SavePcs \cup {"load", "finish"} => c.out = FP8Result(c.q)

ResultOK(l) == l.outcome = "ok" => Answers(l.route, l.q, l.op, l.result)

DiskOK(content) == \A i \in Inodes : CacheOK(content[i].entries)

ResultInv ==
    /\ \A p \in Procs : KernelOK(call[p]) /\ ResultOK(last[p])
    /\ DiskOK(disk)

LEMMA PlainFacts ==
    ASSUME NEW q, IsProblem(q), Plain(q)
    PROVE  ~ q.mask /\ q.dropout = FALSE /\ q.gqa = FALSE
BY DEF IsProblem, Plain

\* An op of a kind it knows is told all that was asked.
LEMMA GivenIsAll ==
    ASSUME NEW q, IsProblem(q), Plain(q), FullOrCausal(q)
    PROVE  Given(q) = q /\ q.kind # "neighborhood"
<1>1. q.mask = FALSE /\ q.dropout = FALSE /\ q.gqa = FALSE
  BY DEF IsProblem, Plain
<1>2. PICK kind : kind = IF q.causal THEN "causal" ELSE "full"
  OBVIOUS
<1>3. q.kind = kind
  BY <1>2 DEF IsProblem, FullOrCausal
<1>4. [q EXCEPT !.mask = FALSE, !.dropout = FALSE, !.gqa = FALSE, !.kind = kind] = q
  BY <1>1, <1>3 DEF IsProblem
<1>5. q.kind # "neighborhood"
  BY DEF FullOrCausal
<1>6. QED  BY <1>2, <1>4, <1>5 DEF Given

LEMMA NotFinite ==
    ASSUME NEW rows, NEW dropout, NEW gqa, NEW finite, NEW no, NEW asked,
           asked = [rows |-> rows, dropout |-> dropout, gqa |-> gqa, finite |-> finite]
    PROVE  [asked EXCEPT !.finite = no] = [rows |-> rows, dropout |-> dropout, gqa |-> gqa, finite |-> no]
<1>1. PICK f : f = [asked EXCEPT !.finite = no]
  OBVIOUS
<1>2. PICK g : g = [rows |-> rows, dropout |-> dropout, gqa |-> gqa, finite |-> no]
  OBVIOUS
<1>3. DOMAIN asked = {"rows", "dropout", "gqa", "finite"}
  OBVIOUS
<1>4. DOMAIN g = {"rows", "dropout", "gqa", "finite"}
  BY <1>2
<1>5. DOMAIN f = DOMAIN g
  BY <1>1, <1>3, <1>4
<1>6. f = [x \in DOMAIN f |-> f[x]]
  BY <1>1
<1>7. g = [x \in DOMAIN g |-> g[x]]
  BY <1>2
<1>8. \A x \in DOMAIN g : f[x] = g[x]
  BY <1>1, <1>2, <1>3, <1>4
<1>9. QED  BY <1>1, <1>2, <1>5, <1>6, <1>7, <1>8

\* An FP8 op answers a plain problem, but for overflow.
LEMMA FP8Answers ==
    ASSUME NEW q, IsProblem(q), Plain(q)
    PROVE  /\ FP8Result(q).finite => FP8Result(q) = Asked(q)
           /\ ~ FP8Result(q).finite => FP8Result(q) = [Asked(q) EXCEPT !.finite = FALSE]
<1>1. PICK rows : rows = SoftmaxRows(q)
  OBVIOUS
<1>2. q.dropout = FALSE /\ q.gqa = FALSE
  BY PlainFacts
<1>3. Asked(q) = [rows |-> rows, dropout |-> FALSE, gqa |-> FALSE, finite |-> q.data # "nonfinite"]
  BY <1>1, <1>2 DEF Asked, SoftmaxRows
<1>4. FP8Result(q) = [rows |-> rows, dropout |-> FALSE, gqa |-> FALSE,
                      finite |-> q.data \in {"plain", "zeros"}]
  BY <1>1 DEF FP8Result
<1>5. q.data \in {"plain", "zeros", "unstable", "nonfinite"}
  BY DEF IsProblem
<1>6. CASE q.data \in {"plain", "zeros"}
  <2>1. FP8Result(q) = [rows |-> rows, dropout |-> FALSE, gqa |-> FALSE, finite |-> TRUE]
    <3>1. (q.data \in {"plain", "zeros"}) = TRUE
      BY <1>6
    <3>2. QED  BY <1>4, <3>1
  <2>2. Asked(q) = [rows |-> rows, dropout |-> FALSE, gqa |-> FALSE, finite |-> TRUE]
    <3>1. (q.data # "nonfinite") = TRUE
      BY <1>6
    <3>2. QED  BY <1>3, <3>1
  <2>3. QED  BY <2>1, <2>2
<1>7. CASE q.data \notin {"plain", "zeros"}
  <2>1. FP8Result(q) = [rows |-> rows, dropout |-> FALSE, gqa |-> FALSE, finite |-> FALSE]
    <3>1. (q.data \in {"plain", "zeros"}) = FALSE
      BY <1>7
    <3>2. QED  BY <1>4, <3>1
  <2>2. [Asked(q) EXCEPT !.finite = FALSE]
            = [rows |-> rows, dropout |-> FALSE, gqa |-> FALSE, finite |-> FALSE]
    <3>1. PICK asked, finite, no : asked = Asked(q) /\ finite = (q.data # "nonfinite") /\ no = FALSE
      OBVIOUS
    <3>2. asked = [rows |-> rows, dropout |-> no, gqa |-> no, finite |-> finite]
      BY <1>3, <3>1
    <3>3. [asked EXCEPT !.finite = no] = [rows |-> rows, dropout |-> no, gqa |-> no, finite |-> no]
      BY <3>2, NotFinite
    <3>4. QED  BY <3>1, <3>3
  <2>3. QED  BY <2>1, <2>2
<1>8. QED  BY <1>6, <1>7

LEMMA FiniteOutput ==
    ASSUME NEW q, IsProblem(q), NEW rows, NEW b, b = (_per_bh_scale(q.data) # "nonfinite")
    PROVE  Output(rows, b, q) = [rows |-> rows, dropout |-> FALSE, gqa |-> FALSE,
                                 finite |-> q.data \in {"plain", "zeros"}]
<1>1. q.data \in {"plain", "zeros", "unstable", "nonfinite"}
  BY DEF IsProblem
<1>2. (b /\ q.data # "unstable") = (q.data \in {"plain", "zeros"})
  <2>1. CASE q.data \in {"plain", "zeros"}
    <3>1. b = TRUE
      BY <2>1 DEF _per_bh_scale
    <3>2. (b /\ q.data # "unstable") /\ q.data \in {"plain", "zeros"}
      BY <2>1, <3>1
    <3>3. QED  BY <3>2
  <2>2. CASE q.data = "unstable"
    <3>1. ~ (b /\ q.data # "unstable") /\ q.data \notin {"plain", "zeros"}
      BY <2>2
    <3>2. QED  BY <3>1
  <2>3. CASE q.data = "nonfinite"
    <3>1. b = FALSE
      BY <2>3 DEF _per_bh_scale
    <3>2. ~ (b /\ q.data # "unstable") /\ q.data \notin {"plain", "zeros"}
      BY <2>3, <3>1
    <3>3. QED  BY <3>2
  <2>4. QED  BY <1>1, <2>1, <2>2, <2>3
<1>3. QED  BY <1>2 DEF Output

LEMMA KernelComputes ==
    ASSUME NEW q, IsProblem(q), Plain(q), FullOrCausal(q), NEW op \in TritonOps, NEW cfg, TilesOK(cfg)
    PROVE  KernelResult(op, q, cfg) = FP8Result(q)
<1>1. PICK b : b = (_per_bh_scale(q.data) # "nonfinite")
  OBVIOUS
<1>2. PICK out : out = Output(SoftmaxRows(q), b, q)
  OBVIOUS
<1>3. out = FP8Result(q)
  BY <1>1, <1>2, FiniteOutput DEF FP8Result
<1>4. ~ q.mask /\ q.kind # "neighborhood"
  BY PlainFacts, GivenIsAll
<1>5. fp8_flash_attention(q, cfg) = out
  BY <1>1, <1>2, <1>4, AllRows DEF fp8_flash_attention, _quantize
<1>6. hopper_flash_attention(q, cfg) = out
  BY <1>1, <1>2, <1>4, AllRows DEF hopper_flash_attention, hopper_quantize
<1>7. ada_flash_attention(q, cfg) = out
  BY <1>1, <1>2, <1>4, AllRows DEF ada_flash_attention, ada_quantize
<1>8. QED  BY <1>3, <1>5, <1>6, <1>7 DEF KernelResult, TritonOps

LEMMA UnfusedComputes ==
    ASSUME NEW q, IsProblem(q), Plain(q), FullOrCausal(q)
    PROVE  scaled_mm_attention(q) = FP8Result(q)
<1>1. PICK b : b = (_per_bh_scale(q.data) # "nonfinite")
  OBVIOUS
<1>2. scaled_mm_attention(q) = Output(SoftmaxRows(q), b, q)
  BY <1>1, PlainFacts, GivenIsAll, UnfusedIs DEF _rowwise_quantize
<1>3. QED  BY <1>1, <1>2, FiniteOutput DEF FP8Result

\* flash_attn's causal mask is that of the reference when the lengths agree.
LEMMA FlashIsAsked ==
    ASSUME NEW q, IsProblem(q), ~ q.mask, q.kind # "neighborhood", ~ q.causal \/ q.Sq = q.Skv
    PROVE  flash_attn_func(q) = Asked(q)
<1>1. PICK seen : seen = [r \in Rows(q) |-> {c \in Keys(q) : q.causal => c <= r + q.Skv - q.Sq}]
  OBVIOUS
<1>2. \A r \in Rows(q) : seen[r] = Attended(q, r) /\ 0 \in seen[r]
  <2>1. q.Sq \in Nat \ {0} /\ q.Skv \in Nat \ {0} /\ \A r \in Rows(q) : r \in Nat
    BY DEF IsProblem, Rows
  <2>2. ~ q.causal \/ \A r \in Nat : r + q.Skv - q.Sq = r
    BY <2>1
  <2>3. 0 \in Keys(q) /\ \A r \in Nat : 0 <= r
    BY <2>1 DEF Keys
  <2>4. \A r \in Rows(q) : seen[r] = {c \in Keys(q) : q.causal => c <= r}
    BY <1>1, <2>1, <2>2
  <2>5. \A r \in Rows(q) : Attended(q, r) = {c \in Keys(q) : q.causal => c <= r}
    BY DEF Attended
  <2>6. QED  BY <2>1, <2>3, <2>4, <2>5
<1>3. PICK rows : rows = [r \in Rows(q) |-> IF seen[r] = {} THEN Unwritten
                                            ELSE SoftmaxOver(q, seen[r])]
  OBVIOUS
<1>4. rows = [r \in Rows(q) |-> Softmax(q, r)]
  BY <1>2, <1>3 DEF Softmax
<1>5. flash_attn_func(q) = [Asked(q) EXCEPT !.rows = rows]
  BY <1>1, <1>3 DEF flash_attn_func
<1>6. PICK asked : asked = Asked(q)
  OBVIOUS
<1>7. asked = [rows |-> rows, dropout |-> q.dropout, gqa |-> q.gqa, finite |-> q.data # "nonfinite"]
  BY <1>4, <1>6 DEF Asked
<1>8. asked.rows = rows /\ asked = [x \in DOMAIN asked |-> asked[x]]
  BY <1>7
<1>9. [asked EXCEPT !.rows = rows] = asked
  BY <1>8
<1>10. QED  BY <1>5, <1>6, <1>9

\* The AMX kernels answer.
LEMMA AmxAnswers ==
    ASSUME NEW q, IsProblem(q), Plain(q), FullOrCausal(q), SelfAttention(q), q.Sq % AmxTile = 0
    PROVE  flash_attn_amx(q, AmxTile) = Asked(q)
<1>1. ~ q.mask /\ q.dropout = FALSE /\ q.gqa = FALSE /\ q.kind # "neighborhood"
  BY PlainFacts, GivenIsAll
<1>2. AmxTile \in {1, 2, 4}
  BY OpsAssumption
<1>3. flash_attn_amx(q, AmxTile) = [rows |-> SoftmaxRows(q), dropout |-> FALSE, gqa |-> FALSE,
                                    finite |-> q.data # "nonfinite"]
  BY <1>1, <1>2, AmxRows
<1>4. QED  BY <1>1, <1>3 DEF Asked, SoftmaxRows

\* What an op that runs was given: only torch SDPA gets a mask, dropout or GQA,
\* and the bridges never choose the scaled_mm op.
Fits(route, q, op) ==
    op.runs => \/ op.name = "sdpa"
               \/ /\ op.name # "sdpa" /\ Plain(q) /\ Suits(q, op)
                  /\ op.name = "fp8-scaled-mm" => route \notin Bridges

LEMMA SdpaFits ==
    ASSUME NEW h, NEW route, NEW q, NEW op, op = Sdpa(h, q)
    PROVE  Fits(route, q, op)
BY SdpaFacts DEF Fits

LEMMA FallbackFits ==
    ASSUME NEW h, NEW route, NEW q, FullOrCausal(q), NEW op, op = _native_fallback(h, q)
    PROVE  Fits(route, q, op)
<1>1. PICK fa, sd : fa = HopperFlashAttention(h, q) /\ sd = Sdpa(h, q)
  OBVIOUS
<1>2. fa.name = "nvidia-flash"
  BY <1>1 DEF HopperFlashAttention, Flash, Op
<1>3. (op = fa /\ Plain(q)) \/ op = sd
  BY <1>1 DEF _native_fallback
<1>4. CASE op = fa /\ Plain(q)
  BY <1>2, <1>4 DEF Fits, Suits, AmxOps
<1>5. CASE op = sd
  BY <1>1, <1>5, SdpaFits
<1>6. QED  BY <1>3, <1>4, <1>5

LEMMA TargetFits ==
    ASSUME NEW p, NEW q, NEW route \in {"backend", "ada", "dispatcher", "wan"},
           route \in {"backend", "ada"} => Plain(q),
           route = "ada" => FP8AdaTritonAttention(host, q).supports,
           route \in Bridges => FullOrCausal(q),
           NEW op, op = Target(p, route, q)
    PROVE  Fits(route, q, op)
<1>1. ASSUME op = Refused
      PROVE  Fits(route, q, op)
  BY <1>1 DEF Refused, Fits
<1>2. CASE route = "backend"
  <2>1. PICK v : v = select_backend(host, host.prefer)
    OBVIOUS
  <2>2. CASE v = NoBackend
    <3>1. op = Refused
      BY <1>2, <2>1, <2>2 DEF Target, Bridges
    <3>2. QED  BY <1>1, <3>1
  <2>3. CASE v # NoBackend
    <3>1. op = select_attention_op(v, host, q)
      BY <1>2, <2>1, <2>3 DEF Target, Bridges
    <3>2. v \in {"amd", "nvidia", "intel"}
      BY <2>1, <2>3, VendorFacts
    <3>3. Suits(q, op)
      BY <3>1, <3>2, RegistryServes DEF Served
    <3>4. QED  BY <1>2, <3>3 DEF Fits, Suits, Bridges
  <2>4. QED  BY <2>2, <2>3
<1>3. CASE route = "ada"
  <2>1. op = FP8AdaTritonAttention(host, q) /\ op.supports
    BY <1>3 DEF Target, Bridges
  <2>2. Suits(q, op)
    BY <2>1, SupportedSuits
  <2>3. QED  BY <1>3, <2>2 DEF Fits, Suits, Bridges
<1>4. CASE route \in Bridges
  <2>1. PICK backend : backend = IF route = "wan" /\ wan[p] # "unset" THEN wan[p] ELSE active[p]
    OBVIOUS
  <2>2. op = CASE backend = "repercep_fp8" -> _repercep_fp8_attention(host, q)
               [] backend = "repercep_amx" -> _repercep_amx_attention(host, q)
               [] OTHER -> Sdpa(host, q)
    BY <1>4, <2>1 DEF Target, dispatch_attention_fn, Bridges
  <2>3. CASE backend = "repercep_fp8"
    <3>1. op = _repercep_fp8_attention(host, q)
      BY <2>2, <2>3
    <3>2. \/ op = Refused \/ op = _native_fallback(host, q)
          \/ op = BridgeOp(host, q) /\ Plain(q) /\ _route_should_use_fp8(q) /\ "triton" \in host.has
      BY <3>1 DEF _repercep_fp8_attention
    <3>3. CASE op = _native_fallback(host, q)
      BY <1>4, <3>3, FallbackFits
    <3>4. CASE /\ op = BridgeOp(host, q) /\ Plain(q)
               /\ _route_should_use_fp8(q) /\ "triton" \in host.has
      <4>1. op.name \in TritonOps
        BY <3>4, BridgeOpFacts
      <4>2. op.name \notin {"none", "sdpa", "fp8-scaled-mm"} /\ op.name \notin AmxOps
        BY <4>1 DEF TritonOps, AmxOps
      <4>3. QED  BY <1>4, <3>4, <4>2 DEF Fits, Suits
    <3>5. QED  BY <1>1, <3>2, <3>3, <3>4
  <2>4. CASE backend = "repercep_amx"
    <3>1. op = _repercep_amx_attention(host, q)
      BY <2>2, <2>4
    <3>2. \/ op = Refused \/ op = Sdpa(host, q)
          \/ op = AMXFlashAttention(host, q) /\ Plain(q)
      BY <3>1 DEF _repercep_amx_attention
    <3>3. CASE op = AMXFlashAttention(host, q) /\ Plain(q)
      <4>1. "amx-bf16-flash" \in AmxOps
        BY DEF AmxOps
      <4>2. AmxSays(host, q, "amx-bf16-flash", "amx_bf16", op)
        BY <3>3, <4>1, AmxRuns DEF AMXFlashAttention
      <4>3. QED  BY <1>4, <3>3, <4>2 DEF Fits, Suits, AmxSays
    <3>4. QED  BY <1>1, <3>2, <3>3, SdpaFits
  <2>5. CASE backend \notin {"repercep_fp8", "repercep_amx"}
    <3>1. op = Sdpa(host, q)
      BY <2>2, <2>5
    <3>2. QED  BY <3>1, SdpaFits
  <2>6. QED  BY <2>3, <2>4, <2>5
<1>5. QED  BY <1>2, <1>3, <1>4 DEF Bridges

\* Any op that runs answers what it was given.
LEMMA ResultAnswers ==
    ASSUME NEW route, NEW q, IsProblem(q), NEW op, op.runs, Fits(route, q, op)
    PROVE  Answers(route, q, op.name, Result(op.name, q))
<1>1. PICK name, result : name = op.name /\ result = Result(name, q)
  OBVIOUS
<1>2. CASE name = "sdpa"
  <2>1. result = Asked(q)
    BY <1>1, <1>2 DEF Result, FlashOps
  <2>2. QED  BY <1>1, <2>1 DEF Answers
<1>3. CASE name # "sdpa"
  <2>1. /\ Plain(q) /\ (name = "fp8-scaled-mm" => route \notin Bridges)
        /\ name = "naive-sdpa" \/ FullOrCausal(q)
        /\ name \in AmxOps => SelfAttention(q) /\ q.Sq % AmxTile = 0
    BY <1>1, <1>3 DEF Fits, Suits, AmxOps
  <2>2. FullOrCausal(q) => Given(q) = q /\ q.kind # "neighborhood"
    BY <2>1, GivenIsAll
  <2>3. CASE name \in FlashOps
    <3>1. result = flash_attn_func(q)
      BY <1>1, <2>1, <2>2, <2>3 DEF Result, FlashOps
    <3>2. ~ q.causal \/ q.Sq = q.Skv => result = Asked(q)
      BY <2>1, <2>2, <2>3, <3>1, PlainFacts, FlashIsAsked DEF FlashOps
    <3>3. QED  BY <1>1, <2>3, <3>1, <3>2 DEF Answers
  <2>4. CASE name = "fp8-scaled-mm"
    <3>1. result = FP8Result(q)
      BY <1>1, <2>1, <2>4, UnfusedComputes DEF Result, FlashOps
    <3>2. result = Asked(q) \/ result = [Asked(q) EXCEPT !.finite = FALSE]
      BY <2>1, <3>1, FP8Answers
    <3>3. QED  BY <1>1, <2>1, <2>4, <3>2 DEF Answers, Fp8Ops
  <2>5. CASE name \in {"amx-bf16-flash", "amx-int8-flash"}
    <3>1. FullOrCausal(q) /\ SelfAttention(q) /\ q.Sq % AmxTile = 0
      BY <2>1, <2>5 DEF AmxOps
    <3>2. result = flash_attn_amx(q, AmxTile)
      BY <1>1, <2>5 DEF Result, FlashOps
    <3>3. result = Asked(q)
      BY <2>1, <3>1, <3>2, AmxAnswers
    <3>4. QED  BY <1>1, <3>3 DEF Answers
  <2>6. CASE /\ name \notin FlashOps /\ name # "fp8-scaled-mm"
             /\ name \notin {"amx-bf16-flash", "amx-int8-flash"}
    <3>1. result = Asked(Given(q))
      BY <1>1, <1>3, <2>6 DEF Result
    <3>2. CASE FullOrCausal(q)
      BY <1>1, <2>2, <3>1, <3>2 DEF Answers
    <3>3. CASE ~ FullOrCausal(q)
      <4>1. name = "naive-sdpa" /\ q.kind = "neighborhood"
        BY <2>1, <3>3 DEF IsProblem, FullOrCausal
      <4>2. QED  BY <1>1, <3>1, <4>1 DEF Answers
    <3>4. QED  BY <3>2, <3>3
  <2>7. QED  BY <2>3, <2>4, <2>5, <2>6
<1>4. QED  BY <1>2, <1>3

(***************************************************************************)
(* Every step keeps the results                                            *)
(***************************************************************************)
LEMMA ResultStep ==
    ASSUME AttentionInv, ResultInv, NEW p \in Procs, NEW c, NEW l,
           call' = [call EXCEPT ![p] = c], last' = [last EXCEPT ![p] = l],
           KernelOK(c), ResultOK(l), DiskOK(disk')
    PROVE  ResultInv'
<1>1. ASSUME NEW r \in Procs
      PROVE  KernelOK(call'[r]) /\ ResultOK(last'[r])
  <2>1. CASE r = p
    BY <2>1 DEF AttentionInv
  <2>2. CASE r # p
    <3>1. call'[r] = call[r] /\ last'[r] = last[r]
      BY <2>2 DEF AttentionInv
    <3>2. QED  BY <3>1 DEF ResultInv
  <2>3. QED  BY <2>1, <2>2
<1>2. QED  BY <1>1 DEF ResultInv

\* A step of a kernel that returns nothing.
LEMMA KernelStep ==
    ASSUME AttentionInv, ResultInv, NEW p \in Procs, NEW c,
           call' = [call EXCEPT ![p] = c], last' = last, KernelOK(c), DiskOK(disk')
    PROVE  ResultInv'
<1>1. PICK l : l = last[p]
  OBVIOUS
<1>2. last' = [last EXCEPT ![p] = l] /\ ResultOK(l)
  BY <1>1, ProcessParts DEF ResultInv
<1>3. QED  BY <1>2, ResultStep

\* A call that returns, or is lost with its process.
LEMMA ReturnStep ==
    ASSUME AttentionInv, ResultInv, NEW p \in Procs, NEW n, NEW l,
           call' = [call EXCEPT ![p] = Idle(n)], last' = [last EXCEPT ![p] = l],
           ResultOK(l), disk' = disk
    PROVE  ResultInv'
<1>1. PICK c : c = Idle(n)
  OBVIOUS
<1>2. c.pc = "idle"
  BY <1>1, IdleFields
<1>3. KernelOK(c)
  BY <1>2 DEF KernelOK, SavePcs
<1>4. DiskOK(disk')
  BY DEF ResultInv
<1>5. QED  BY <1>1, <1>3, <1>4, ResultStep

LEMMA AnswerReturns ==
    ASSUME NEW p, NEW route, NEW q, NEW op, NEW result,
           Return(p, "ok", route, q, op, result), Answers(route, q, op, result)
    PROVE  \E l : last' = [last EXCEPT ![p] = l] /\ ResultOK(l)
<1>1. PICK l : l = [outcome |-> "ok", route |-> route, q |-> q, op |-> op, result |-> result]
  OBVIOUS
<1>2. l.route = route /\ l.q = q /\ l.op = op /\ l.result = result
  BY <1>1
<1>3. last' = [last EXCEPT ![p] = l]
  BY <1>1 DEF Return
<1>4. QED  BY <1>2, <1>3 DEF ResultOK

LEMMA RaiseReturns ==
    ASSUME NEW p, NEW route, NEW q, NEW op, Raise(p, route, q, op)
    PROVE  \E l : last' = [last EXCEPT ![p] = l] /\ ResultOK(l)
<1>1. PICK l : l = [outcome |-> "raised", route |-> route, q |-> q, op |-> op, result |-> <<>>]
  OBVIOUS
<1>2. l.outcome = "raised"
  BY <1>1
<1>3. last' = [last EXCEPT ![p] = l]
  BY <1>1 DEF Raise, Return
<1>4. QED  BY <1>2, <1>3 DEF ResultOK

LEMMA ServeReturns ==
    ASSUME NEW p, NEW route, NEW q, IsProblem(q), NEW op, Fits(route, q, op), Serve(p, route, q, op)
    PROVE  \E l : last' = [last EXCEPT ![p] = l] /\ ResultOK(l)
<1>1. CASE op.runs
  <2>1. PICK name, result : name = op.name /\ result = Result(op.name, q)
    OBVIOUS
  <2>2. Answers(route, q, name, result) /\ Return(p, "ok", route, q, name, result)
    BY <1>1, <2>1, ResultAnswers DEF Serve
  <2>3. QED  BY <2>2, AnswerReturns
<1>2. CASE ~ op.runs
  <2>1. PICK name : name = op.name
    OBVIOUS
  <2>2. Raise(p, route, q, name)
    BY <1>2, <2>1 DEF Serve
  <2>3. QED  BY <2>2, RaiseReturns
<1>3. QED  BY <1>1, <1>2

\* A bridge's kernel whose output is not finite answers by the fallback; any
\* other output is an answer already.
LEMMA DeliverReturns ==
    ASSUME NEW p, NEW route, NEW q, IsProblem(q), route \in Bridges => FullOrCausal(q),
           NEW name, NEW out, Deliver(p, route, q, name, out),
           (route \in Bridges /\ name \in TritonOps \cup AmxOps => out.finite)
               => Answers(route, q, name, out)
    PROVE  \E l : last' = [last EXCEPT ![p] = l] /\ ResultOK(l)
<1>1. CASE route \in Bridges /\ name \in TritonOps \cup AmxOps /\ ~out.finite
  <2>1. PICK op : op = IF name \in TritonOps THEN _native_fallback(host, q) ELSE Sdpa(host, q)
    OBVIOUS
  <2>2. Serve(p, route, q, op)
    BY <1>1, <2>1 DEF Deliver
  <2>3. Fits(route, q, op)
    BY <1>1, <2>1, FallbackFits, SdpaFits
  <2>4. QED  BY <2>2, <2>3, ServeReturns
<1>2. CASE ~ (route \in Bridges /\ name \in TritonOps \cup AmxOps /\ ~out.finite)
  <2>1. Return(p, "ok", route, q, name, out)
    BY <1>2 DEF Deliver
  <2>2. Answers(route, q, name, out)
    BY <1>2
  <2>3. QED  BY <2>1, <2>2, AnswerReturns
<1>3. QED  BY <1>1, <1>2

LEMMA CallAnswers ==
    ASSUME AttentionInv, ResultInv, NEW p \in Procs, NEW route \in host.routes,
           NEW q \in host.problems, Call(p, route, q)
    PROVE  ResultInv'
<1>1. PICK op, n : op = Target(p, route, q) /\ n = call[p].calls + 1
  OBVIOUS
<1>2. route \in {"backend", "ada", "dispatcher", "wan"} /\ IsProblem(q)
  BY AttentionAssumption DEF AttentionInv
<1>3. /\ disk' = disk /\ (route \in {"backend", "ada"} => Plain(q))
      /\ route = "ada" => FP8AdaTritonAttention(host, q).supports
      /\ route \in Bridges => FullOrCausal(q)
  BY DEF Call, fileVars
<1>4. Fits(route, q, op)
  BY <1>1, <1>2, <1>3, TargetFits
<1>5. CASE op.runs /\ op.name \in TritonOps
  <2>1. PICK i, t, c : i = Idle(n) /\ t = op.name /\
          c = [i EXCEPT !.pc = "resolve", !.route = route, !.q = q, !.op = t]
    OBVIOUS
  <2>2. call' = [call EXCEPT ![p] = c] /\ last' = last
    BY <1>1, <1>5, <2>1 DEF Call
  <2>3. DOMAIN i = CallFieldNames
    BY <2>1, IdleFields
  <2>4. c.pc = "resolve" /\ c.route = route /\ c.q = q /\ c.op = t
    BY <2>1, <2>3 DEF CallFieldNames
  <2>5. t \in TritonOps /\ t \notin {"sdpa", "naive-sdpa"}
    BY <1>5, <2>1 DEF TritonOps
  <2>6. Plain(q) /\ FullOrCausal(q)
    BY <1>4, <1>5, <2>1, <2>5 DEF Fits, Suits
  <2>7. KernelOK(c)
    BY <1>2, <2>4, <2>5, <2>6 DEF KernelOK, SavePcs
  <2>8. DiskOK(disk')
    BY <1>3 DEF ResultInv
  <2>9. QED  BY <2>2, <2>7, <2>8, KernelStep
<1>6. CASE ~ (op.runs /\ op.name \in TritonOps)
  <2>1. call' = [call EXCEPT ![p] = Idle(n)]
    BY <1>1, <1>6 DEF Call
  <2>2. PICK name, result : name = op.name /\ result = Result(op.name, q)
    OBVIOUS
  <2>3. \E l : last' = [last EXCEPT ![p] = l] /\ ResultOK(l)
    <3>1. CASE op.runs
      <4>1. Deliver(p, route, q, name, result)
        BY <1>1, <1>6, <2>2, <3>1 DEF Call
      <4>2. Answers(route, q, name, result)
        BY <1>2, <1>4, <2>2, <3>1, ResultAnswers
      <4>3. QED  BY <1>2, <1>3, <4>1, <4>2, DeliverReturns
    <3>2. CASE ~ op.runs
      <4>1. Raise(p, route, q, name)
        BY <1>1, <1>6, <2>2, <3>2 DEF Call
      <4>2. QED  BY <4>1, RaiseReturns
    <3>3. QED  BY <3>1, <3>2
  <2>4. QED  BY <1>3, <2>1, <2>3, ReturnStep
<1>7. QED  BY <1>5, <1>6

\* A configuration on file is one the kernels have.
LEMMA FileConfigs ==
    ASSUME AttentionInv, ResultInv
    PROVE  CacheOK(_cache_load)
<1>1. CASE path = NoFile
  <2>1. _cache_load = NoEntries /\ DOMAIN NoEntries = {}
    BY <1>1 DEF _cache_load, NoEntries
  <2>2. QED  BY <2>1 DEF CacheOK
<1>2. CASE path # NoFile
  <2>1. path \in Inodes /\ _cache_load = disk[path].entries
    BY <1>2 DEF AttentionInv, FilesOK, _cache_load
  <2>2. QED  BY <2>1 DEF ResultInv, DiskOK
<1>3. QED  BY <1>1, <1>2

LEMMA RecordedIsOK ==
    ASSUME NEW entries, CacheOK(entries), NEW c, TilesOK(c.cfg)
    PROVE  CacheOK(Recorded(entries, c))
<1>1. PICK new, key : new = Recorded(entries, c) /\ key = _cache_key(c.q)
  OBVIOUS
<1>2. DOMAIN new = {key} \cup DOMAIN entries
  BY <1>1 DEF Recorded
<1>3. \A k \in DOMAIN new : new[k] = IF k = key THEN c.cfg ELSE entries[k]
  BY <1>1 DEF Recorded
<1>4. QED  BY <1>1, <1>2, <1>3 DEF CacheOK

LEMMA ResolveAnswers ==
    ASSUME AttentionInv, ResultInv, NEW p \in Procs, Resolve(p)
    PROVE  ResultInv'
<1>1. PICK c, found : /\ c = call[p]
                      /\ found = IF host.notune THEN {Fallback(call[p].op)}
                                 ELSE _resolve_config(call[p].q)
  OBVIOUS
<1>2. PICK y : y = CHOOSE f \in found : TRUE
  OBVIOUS
<1>3. PICK d, e : d = [c EXCEPT !.pc = "tune"] /\ e = [c EXCEPT !.pc = "launch", !.cfg = y]
  OBVIOUS
<1>4. c.pc = "resolve" /\ KernelOK(c) /\ DOMAIN c = CallFieldNames
  BY <1>1 DEF Resolve, At, ResultInv, AttentionInv, ProcOK
<1>5. call' = [call EXCEPT ![p] = IF found = {} THEN d ELSE e] /\ last' = last
  BY <1>1, <1>2, <1>3 DEF Resolve
<1>6. DiskOK(disk')
  BY DEF Resolve, fileVars, ResultInv
<1>7. CASE found = {}
  <2>1. d.pc = "tune" /\ d.route = c.route /\ d.q = c.q /\ d.op = c.op
    BY <1>3, <1>4 DEF CallFieldNames
  <2>2. KernelOK(d)
    BY <1>4, <2>1 DEF KernelOK, SavePcs
  <2>3. QED  BY <1>5, <1>6, <1>7, <2>2, KernelStep
<1>8. CASE found # {}
  <2>1. y \in found
    BY <1>2, <1>8
  <2>2. \A f \in found : TilesOK(f)
    <3>1. CASE host.notune
      <4>1. c.op \in TritonOps
        BY <1>4 DEF KernelOK
      <4>2. Fallback(c.op) \in {gfx942_fallback, hopper_fallback, ada_fallback}
        BY <4>1 DEF Fallback, TritonOps
      <4>3. QED  BY <1>1, <3>1, <4>2, ConfigsOK
    <3>2. CASE ~ host.notune
      <4>1. CacheOK(_cache_load)
        BY FileConfigs
      <4>2. QED  BY <1>1, <3>2, <4>1 DEF _resolve_config, CacheOK
    <3>3. QED  BY <3>1, <3>2
  <2>3. e.pc = "launch" /\ e.route = c.route /\ e.q = c.q /\ e.op = c.op /\ e.cfg = y
    BY <1>3, <1>4 DEF CallFieldNames
  <2>4. KernelOK(e)
    BY <1>4, <2>1, <2>2, <2>3 DEF KernelOK, SavePcs
  <2>5. QED  BY <1>5, <1>6, <1>8, <2>4, KernelStep
<1>9. QED  BY <1>7, <1>8

LEMMA LaunchAnswers ==
    ASSUME AttentionInv, ResultInv, NEW p \in Procs, Launch(p)
    PROVE  ResultInv'
<1>1. PICK c : c = call[p]
  OBVIOUS
<1>2. c.pc = "launch" /\ KernelOK(c) /\ DOMAIN c = CallFieldNames
  BY <1>1 DEF Launch, At, ResultInv, AttentionInv, ProcOK
<1>3. IsProblem(c.q) /\ Plain(c.q) /\ FullOrCausal(c.q) /\ c.op \in TritonOps /\ TilesOK(c.cfg)
  BY <1>2 DEF KernelOK
<1>4. PICK y : y = KernelResult(call[p].op, call[p].q, call[p].cfg)
  OBVIOUS
<1>5. y = FP8Result(c.q)
  BY <1>1, <1>3, <1>4, KernelComputes
<1>6. PICK d : d = [c EXCEPT !.pc = "finish", !.out = y]
  OBVIOUS
<1>7. call' = [call EXCEPT ![p] = d] /\ last' = last
  BY <1>1, <1>4, <1>6 DEF Launch
<1>8. d.pc = "finish" /\ d.route = c.route /\ d.q = c.q /\ d.op = c.op /\ d.out = y
  BY <1>2, <1>6 DEF CallFieldNames
<1>9. KernelOK(d)
  BY <1>2, <1>5, <1>8 DEF KernelOK, SavePcs
<1>10. DiskOK(disk')
  BY DEF Launch, fileVars, ResultInv
<1>11. QED  BY <1>7, <1>9, <1>10, KernelStep

LEMMA TuneAnswers ==
    ASSUME AttentionInv, ResultInv, NEW p \in Procs, NEW winner \in Fastest, Tune(p, winner)
    PROVE  ResultInv'
<1>1. PICK c : c = call[p]
  OBVIOUS
<1>2. c.pc = "tune" /\ KernelOK(c) /\ DOMAIN c = CallFieldNames
  BY <1>1 DEF Tune, At, ResultInv, AttentionInv, ProcOK
<1>3. IsProblem(c.q) /\ Plain(c.q) /\ FullOrCausal(c.q) /\ c.op \in TritonOps
  BY <1>2 DEF KernelOK
<1>4. TilesOK(winner)
  BY AttentionAssumption, ConfigsOK
<1>5. PICK x, y : /\ x = IF "best_config" \in host.has THEN "load" ELSE "finish"
                  /\ y = KernelResult(call[p].op, call[p].q, winner)
  OBVIOUS
<1>6. y = FP8Result(c.q)
  BY <1>1, <1>3, <1>4, <1>5, KernelComputes
<1>7. PICK d : d = [c EXCEPT !.pc = x, !.cfg = winner, !.out = y]
  OBVIOUS
<1>8. call' = [call EXCEPT ![p] = d] /\ last' = last
  BY <1>1, <1>5, <1>7 DEF Tune
<1>9. /\ d.pc = x /\ d.route = c.route /\ d.q = c.q /\ d.op = c.op
      /\ d.cfg = winner /\ d.out = y
  BY <1>2, <1>7 DEF CallFieldNames
<1>10. x \in {"load", "finish"}
  BY <1>5
<1>11. KernelOK(d)
  BY <1>2, <1>4, <1>6, <1>9, <1>10 DEF KernelOK, SavePcs
<1>12. DiskOK(disk')
  BY DEF Tune, fileVars, ResultInv
<1>13. QED  BY <1>8, <1>11, <1>12, KernelStep

LEMMA RecordAnswers ==
    ASSUME AttentionInv, ResultInv, NEW p \in Procs,
           RecordLoad(p) \/ RecordOpen(p) \/ RecordWrite(p)
    PROVE  ResultInv'
<1>1. PICK c : c = call[p]
  OBVIOUS
<1>2. KernelOK(c) /\ DOMAIN c = CallFieldNames /\ DOMAIN disk = Inodes /\ DiskOK(disk)
  BY <1>1 DEF ResultInv, AttentionInv, ProcOK, FilesOK
<1>3. last' = last
  BY DEF RecordLoad, RecordOpen, RecordWrite
<1>4. CASE RecordLoad(p)
  <2>1. PICK entries : entries = Recorded(_cache_load, c)
    OBVIOUS
  <2>2. PICK d : d = [c EXCEPT !.pc = "open", !.cache = entries]
    OBVIOUS
  <2>3. c.pc = "load" /\ call' = [call EXCEPT ![p] = d] /\ disk' = disk
    BY <1>1, <1>4, <2>1, <2>2 DEF RecordLoad, At
  <2>4. CacheOK(entries)
    BY <1>2, <2>1, <2>3, FileConfigs, RecordedIsOK DEF KernelOK
  <2>5. /\ d.pc = "open" /\ d.route = c.route /\ d.q = c.q /\ d.op = c.op
        /\ d.cache = entries /\ d.out = c.out
    BY <1>2, <2>2 DEF CallFieldNames
  <2>6. KernelOK(d)
    BY <1>2, <2>3, <2>4, <2>5 DEF KernelOK, SavePcs
  <2>7. QED  BY <1>2, <1>3, <2>3, <2>6, KernelStep
<1>5. CASE RecordOpen(p)
  <2>1. PICK fd : fd = IF tmp # NoFile THEN tmp ELSE Min(Unused)
    OBVIOUS
  <2>2. PICK d : d = [c EXCEPT !.pc = "write", !.fd = fd]
    OBVIOUS
  <2>3. /\ c.pc = "open" /\ call' = [call EXCEPT ![p] = d]
        /\ disk' = [disk EXCEPT ![fd] = Empty]
    BY <1>1, <1>5, <2>1, <2>2 DEF RecordOpen, At
  <2>4. /\ d.pc = "write" /\ d.route = c.route /\ d.q = c.q /\ d.op = c.op
        /\ d.cache = c.cache /\ d.out = c.out
    BY <1>2, <2>2 DEF CallFieldNames
  <2>5. KernelOK(d)
    BY <1>2, <2>3, <2>4 DEF KernelOK, SavePcs
  <2>6. CacheOK(Empty.entries)
    <3>1. Empty.entries = NoEntries /\ DOMAIN NoEntries = {}
      BY DEF Empty, NoEntries
    <3>2. QED  BY <3>1 DEF CacheOK
  <2>7. DiskOK(disk')
    BY <1>2, <2>3, <2>6 DEF DiskOK
  <2>8. QED  BY <1>3, <2>3, <2>5, <2>7, KernelStep
<1>6. CASE RecordWrite(p)
  <2>1. PICK d : d = [c EXCEPT !.pc = "replace"]
    OBVIOUS
  <2>2. PICK new \in Overwrites(disk[c.fd], Json(c.cache)) : disk' = [disk EXCEPT ![c.fd] = new]
    BY <1>1, <1>6 DEF RecordWrite
  <2>3. c.pc = "write" /\ call' = [call EXCEPT ![p] = d]
    BY <1>1, <1>6, <2>1 DEF RecordWrite, At
  <2>4. /\ d.pc = "replace" /\ d.route = c.route /\ d.q = c.q /\ d.op = c.op
        /\ d.cache = c.cache /\ d.out = c.out
    BY <1>2, <2>1 DEF CallFieldNames
  <2>5. KernelOK(d)
    BY <1>2, <2>3, <2>4 DEF KernelOK, SavePcs
  <2>6. new \in {Json(c.cache), Torn}
    BY <2>2 DEF Overwrites
  <2>7. CacheOK(new.entries)
    <3>1. CASE new = Json(c.cache)
      <4>1. new.entries = c.cache
        BY <3>1 DEF Json
      <4>2. QED  BY <1>2, <2>3, <4>1 DEF KernelOK, SavePcs
    <3>2. CASE new = Torn
      <4>1. new.entries = NoEntries /\ DOMAIN NoEntries = {}
        BY <3>2 DEF Torn, NoEntries
      <4>2. QED  BY <4>1 DEF CacheOK
    <3>3. QED  BY <2>6, <3>1, <3>2
  <2>8. DiskOK(disk')
    BY <1>2, <2>2, <2>7 DEF DiskOK
  <2>9. QED  BY <1>3, <2>3, <2>5, <2>8, KernelStep
<1>7. QED  BY <1>4, <1>5, <1>6

LEMMA ReplaceAnswers ==
    ASSUME AttentionInv, ResultInv, NEW p \in Procs, RecordReplace(p)
    PROVE  ResultInv'
<1>1. PICK c : c = call[p]
  OBVIOUS
<1>2. /\ c.pc = "replace" /\ KernelOK(c) /\ DOMAIN c = CallFieldNames
      /\ disk' = disk /\ DiskOK(disk')
  BY <1>1 DEF RecordReplace, At, ResultInv, AttentionInv, ProcOK
<1>3. CASE tmp # NoFile
  <2>1. PICK d : d = [c EXCEPT !.pc = "finish", !.fd = NoFile]
    OBVIOUS
  <2>2. call' = [call EXCEPT ![p] = d] /\ last' = last
    BY <1>1, <1>3, <2>1 DEF RecordReplace
  <2>3. /\ d.pc = "finish" /\ d.route = c.route /\ d.q = c.q /\ d.op = c.op /\ d.out = c.out
    BY <1>2, <2>1 DEF CallFieldNames
  <2>4. KernelOK(d)
    BY <1>2, <2>3 DEF KernelOK, SavePcs
  <2>5. QED  BY <1>2, <2>2, <2>4, KernelStep
<1>4. CASE tmp = NoFile
  <2>1. PICK r, q, o : r = c.route /\ q = c.q /\ o = c.op
    OBVIOUS
  <2>2. call' = [call EXCEPT ![p] = Idle(c.calls)] /\ Raise(p, r, q, o)
    BY <1>1, <1>4, <2>1 DEF RecordReplace
  <2>3. \E l : last' = [last EXCEPT ![p] = l] /\ ResultOK(l)
    BY <2>2, RaiseReturns
  <2>4. QED  BY <1>2, <2>2, <2>3, ReturnStep
<1>5. QED  BY <1>3, <1>4

\* A save that raises leaves the files as they are, or one of them torn.
LEMMA RecordRaisesAnswers ==
    ASSUME AttentionInv, ResultInv, NEW p \in Procs, RecordRaises(p)
    PROVE  ResultInv'
<1>1. PICK c, r, q, o : c = call[p] /\ r = c.route /\ q = c.q /\ o = c.op
  OBVIOUS
<1>2. call' = [call EXCEPT ![p] = Idle(c.calls)] /\ Raise(p, r, q, o)
  BY <1>1 DEF RecordRaises
<1>3. PICK l : last' = [last EXCEPT ![p] = l] /\ ResultOK(l)
  BY <1>2, RaiseReturns
<1>4. PICK i : i = Idle(c.calls)
  OBVIOUS
<1>5. KernelOK(i)
  BY <1>4, IdleFields DEF KernelOK, SavePcs
<1>6. DiskOK(disk')
  <2>1. DiskOK(disk) /\ DOMAIN disk = Inodes
    BY DEF ResultInv, AttentionInv, FilesOK
  <2>2. disk' = disk \/ disk' = [disk EXCEPT ![c.fd] = Torn]
    BY <1>1 DEF RecordRaises
  <2>3. Torn.entries = NoEntries /\ DOMAIN NoEntries = {}
    BY DEF Torn, NoEntries
  <2>4. CacheOK(Torn.entries)
    BY <2>3 DEF CacheOK
  <2>5. QED  BY <2>1, <2>2, <2>4 DEF DiskOK
<1>7. QED  BY <1>2, <1>3, <1>4, <1>5, <1>6, ResultStep

LEMMA FinishAnswers ==
    ASSUME AttentionInv, ResultInv, NEW p \in Procs, Finish(p)
    PROVE  ResultInv'
<1>1. PICK c, r, q, o, out : c = call[p] /\ r = c.route /\ q = c.q /\ o = c.op /\ out = c.out
  OBVIOUS
<1>2. c.pc = "finish" /\ KernelOK(c) /\ disk' = disk
  BY <1>1 DEF Finish, At, ResultInv, fileVars
<1>3. IsProblem(q) /\ Plain(q) /\ FullOrCausal(q) /\ o \in TritonOps /\ out = FP8Result(q)
  BY <1>1, <1>2 DEF KernelOK
<1>4. call' = [call EXCEPT ![p] = Idle(c.calls)] /\ Deliver(p, r, q, o, out)
  BY <1>1 DEF Finish
<1>5. /\ out.finite => out = Asked(q)
      /\ ~ out.finite => out = [Asked(q) EXCEPT !.finite = FALSE]
  BY <1>3, FP8Answers
<1>6. (r \in Bridges /\ o \in TritonOps \cup AmxOps => out.finite) => Answers(r, q, o, out)
  BY <1>3, <1>5 DEF Answers, Fp8Ops
<1>7. \E l : last' = [last EXCEPT ![p] = l] /\ ResultOK(l)
  BY <1>3, <1>4, <1>6, DeliverReturns
<1>8. QED  BY <1>2, <1>4, <1>7, ReturnStep

LEMMA CrashAnswers ==
    ASSUME AttentionInv, ResultInv, NEW p \in Procs, Crash(p)
    PROVE  ResultInv'
<1>1. PICK l, n : l = [outcome |-> "none"] /\ n = call[p].calls
  OBVIOUS
<1>2. l.outcome = "none"
  BY <1>1
<1>3. ResultOK(l)
  BY <1>2 DEF ResultOK
<1>4. /\ call' = [call EXCEPT ![p] = Idle(n)] /\ last' = [last EXCEPT ![p] = l] /\ disk' = disk
  BY <1>1 DEF Crash, fileVars
<1>5. QED  BY <1>3, <1>4, ReturnStep

LEMMA ResultStarts ==
    ASSUME AttentionInit
    PROVE  ResultInv
<1>1. PICK i, l : i = Idle(0) /\ l = [outcome |-> "none"]
  OBVIOUS
<1>2. i.pc = "idle" /\ l.outcome = "none"
  BY <1>1, IdleFields
<1>3. KernelOK(i) /\ ResultOK(l)
  BY <1>2 DEF KernelOK, ResultOK, SavePcs
<1>4. \A p \in Procs : call[p] = i /\ last[p] = l
  BY <1>1 DEF AttentionInit
<1>5. Empty.entries = NoEntries /\ DOMAIN NoEntries = {}
  BY DEF Empty, NoEntries
<1>6. DiskOK(disk)
  BY <1>5 DEF AttentionInit, DiskOK, CacheOK
<1>7. QED  BY <1>3, <1>4, <1>6 DEF ResultInv

LEMMA ResultsStep ==
    ASSUME AttentionInv, ResultInv, [AttentionNext]_attentionVars
    PROVE  ResultInv'
<1>1. CASE AttentionNext
  <2>1. PICK p \in Procs :
           \/ maybe_activate_from_env(p) \/ amx_maybe_activate_from_env(p)
           \/ maybe_install_repercep_wan_attention(p)
           \/ \E route \in host.routes, q \in host.problems : Call(p, route, q)
           \/ Resolve(p) \/ Launch(p)
           \/ \E winner \in Fastest : Tune(p, winner)
           \/ RecordLoad(p) \/ RecordOpen(p) \/ RecordWrite(p) \/ RecordReplace(p)
           \/ RecordRaises(p) \/ Finish(p) \/ Crash(p)
    BY <1>1 DEF AttentionNext
  <2>2. CASE \/ maybe_activate_from_env(p) \/ amx_maybe_activate_from_env(p)
             \/ maybe_install_repercep_wan_attention(p)
    <3>1. call' = call /\ last' = last /\ disk' = disk
      BY <2>2 DEF maybe_activate_from_env, amx_maybe_activate_from_env,
                  maybe_install_repercep_wan_attention, fileVars
    <3>2. QED  BY <3>1 DEF ResultInv
  <2>3. CASE \E route \in host.routes, q \in host.problems : Call(p, route, q)
    BY <2>3, CallAnswers
  <2>4. CASE Resolve(p)
    BY <2>4, ResolveAnswers
  <2>5. CASE Launch(p)
    BY <2>5, LaunchAnswers
  <2>6. CASE \E winner \in Fastest : Tune(p, winner)
    BY <2>6, TuneAnswers
  <2>7. CASE RecordLoad(p) \/ RecordOpen(p) \/ RecordWrite(p)
    BY <2>7, RecordAnswers
  <2>8. CASE RecordReplace(p)
    BY <2>8, ReplaceAnswers
  <2>9. CASE Finish(p)
    BY <2>9, FinishAnswers
  <2>10. CASE Crash(p)
    BY <2>10, CrashAnswers
  <2>11. CASE RecordRaises(p)
    BY <2>11, RecordRaisesAnswers
  <2>12. QED  BY <2>1, <2>2, <2>3, <2>4, <2>5, <2>6, <2>7, <2>8, <2>9, <2>10, <2>11
<1>2. CASE UNCHANGED attentionVars
  BY <1>2 DEF attentionVars, fileVars, ResultInv
<1>3. QED  BY <1>1, <1>2

\* What an attention call returns is the attention that was asked for, for every
\* host, every length and every scale: the tile loop of the Triton kernels gives
\* the softmax over the row for every configuration of the grids, and that of
\* the AMX kernels although a causal row skips tiles; the cache file never hands
\* a kernel a configuration that no tuning found; no mask, dropout or GQA
\* reaches an op that drops it; and a bridge keeps FP8 numbers that overflowed
\* from the caller.  The departures are those the property names.
THEOREM ResultsAreAlwaysTheAttentionAsked == AttentionSpec => []ResultIsTheAttentionAsked
<1>1. AttentionSpec => []ResultInv
  BY AttentionInvariant, ResultStarts, ResultsStep, PTL DEF AttentionSpec
<1>2. ResultInv => ResultIsTheAttentionAsked
  BY DEF ResultInv, ResultOK, Answers, ResultIsTheAttentionAsked
<1>3. QED  BY <1>1, <1>2, PTL
=================================================================================
