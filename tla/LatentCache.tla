----------------------------- MODULE LatentCache ------------------------------
(***************************************************************************)
(* The paged latent cache: a fixed pool of pages, pinned when allocated,   *)
(* evicted by the frame-aware policy when the pool is full, freed with     *)
(* their request.  runtime/latent_cache.py (the fallback) and              *)
(* crates/repercep-cache (the production crate) are the same machine: the  *)
(* crate's map is ordered by id, the fallback's dict by insertion, which   *)
(* is id order too, so that both break ties alike.  The crate holds its    *)
(* mutex for a whole operation, so each is one step.                       *)
(***************************************************************************)
EXTENDS Integers, FiniteSets

CONSTANTS
    Requests,     \* request ids
    NumPages,     \* the capacity the pool is built with
    Frames,       \* the frame indices in use, integers
    Steps,        \* the diffusion steps in use, integers
    MaxAllocs     \* bound: how many pages are allocated in a behaviour

ASSUME CacheAssumption ==
    /\ NumPages \in Nat \ {0}      \* the constructor refuses num_pages < 1
    /\ Frames \subseteq Int
    /\ Steps \subseteq Int
    /\ MaxAllocs \in Nat

VARIABLES
    pages,        \* the map of pages, a function from the page ids in use
    next_id       \* the id of the next page

vars == <<pages, next_id>>

LatentPage ==
    [request_id : Requests, frame_index : Frames, last_used_step : Steps, in_use : BOOLEAN]

Init ==
    /\ pages = [pid \in {} |-> {}]
    /\ next_id = 0

(***************************************************************************)
(* FrameAwareEviction                                                      *)
(***************************************************************************)
evictable == {pid \in DOMAIN pages : ~ pages[pid].in_use}

\* Does the scan prefer page p to page q: the smaller key, and on a tie the
\* page it meets first, the map being ordered by id.
Preferred(p, q, current_frame) ==
    LET behind(x) == pages[x].frame_index - current_frame
        used(x)   == pages[x].last_used_step
    IN  \/ behind(p) < behind(q)
        \/ behind(p) = behind(q) /\ used(p) < used(q)
        \/ behind(p) = behind(q) /\ used(p) = used(q) /\ p <= q

\* Mutant: the policy forgets that pinned pages are not candidates.
IsVictimPinnedToo(pid, current_frame) ==
    /\ pid \in DOMAIN pages
    /\ \A q \in DOMAIN pages : Preferred(pid, q, current_frame)

\* Mutant: a plain LRU.
IsVictimLru(pid, current_frame) ==
    /\ pid \in evictable
    /\ \A q \in evictable :
         \/ pages[pid].last_used_step < pages[q].last_used_step
         \/ pages[pid].last_used_step = pages[q].last_used_step /\ pid <= q

IsVictim(pid, current_frame) ==
    /\ pid \in evictable
    /\ \A q \in evictable : Preferred(pid, q, current_frame)

(***************************************************************************)
(* Operations                                                              *)
(***************************************************************************)
Restricted(S) == [pid \in S |-> pages[pid]]

\* kept: the page ids that survive; the new page is pinned.
Insert(kept, r, f, s) ==
    /\ pages' = [pid \in kept \cup {next_id} |->
                    IF pid = next_id
                      THEN [request_id |-> r, frame_index |-> f,
                            last_used_step |-> s, in_use |-> TRUE]
                      ELSE pages[pid]]
    /\ next_id' = next_id + 1

\* Mutant: the pool is one page larger than its capacity.
AllocateFreeOffByOne(r, f, s) ==
    /\ next_id < MaxAllocs
    /\ Cardinality(DOMAIN pages) <= NumPages
    /\ Insert(DOMAIN pages, r, f, s)

AllocateFree(r, f, s) ==
    /\ next_id < MaxAllocs
    /\ Cardinality(DOMAIN pages) < NumPages
    /\ Insert(DOMAIN pages, r, f, s)

\* The pool is full.  With every page pinned allocate() raises and
\* changes nothing.
AllocateEvict(r, f, s, current_frame) ==
    /\ next_id < MaxAllocs
    /\ Cardinality(DOMAIN pages) >= NumPages
    /\ \E victim \in DOMAIN pages :
         /\ IsVictim(victim, current_frame)
         /\ Insert(DOMAIN pages \ {victim}, r, f, s)

\* touch() and unpin() ignore an id that is not in the map any more.
Touch(pid, s) ==
    /\ pid \in DOMAIN pages
    /\ pages' = [pages EXCEPT ![pid].last_used_step = s]
    /\ UNCHANGED next_id

Unpin(pid) ==
    /\ pid \in DOMAIN pages
    /\ pages' = [pages EXCEPT ![pid].in_use = FALSE]
    /\ UNCHANGED next_id

\* Mutant: the id counter is rewound to the freed ids.
ReleaseRequestRewinds(r) ==
    LET kept == {pid \in DOMAIN pages : pages[pid].request_id # r}
    IN  /\ kept # DOMAIN pages
        /\ pages' = Restricted(kept)
        /\ next_id' = Cardinality(kept)

ReleaseRequest(r) ==
    /\ pages' = Restricted({pid \in DOMAIN pages : pages[pid].request_id # r})
    /\ UNCHANGED next_id

\* stats()
allocated == Cardinality(DOMAIN pages)
free      == NumPages - allocated
pinned    == Cardinality(DOMAIN pages \ evictable)

Next ==
    \/ \E r \in Requests, f \in Frames, s \in Steps :
         \/ AllocateFree(r, f, s)
         \/ \E cf \in Frames : AllocateEvict(r, f, s, cf)
    \/ \E pid \in DOMAIN pages : Unpin(pid) \/ \E s \in Steps : Touch(pid, s)
    \/ \E r \in Requests : ReleaseRequest(r)

Spec == Init /\ [][Next]_vars

(***************************************************************************)
(* Properties                                                              *)
(***************************************************************************)

\* Type invariant: every id in the map was handed out before.
TypeOK ==
    /\ next_id \in Nat
    /\ DOMAIN pages \subseteq 0 .. next_id - 1
    /\ pages \in [DOMAIN pages -> LatentPage]

\* The pool never exceeds its capacity, so stats() computes capacity -
\* allocated on unsigned integers without wrapping and free + allocated is
\* the capacity.
CapacityRespected ==
    /\ free >= 0
    /\ pinned <= allocated

\* A page that leaves the map was evictable, unless its request was released
\* and took all of its pages with it: a reader of a pinned page never loses
\* it to another request's allocation.
PinnedSurvives ==
    [][\A pid \in DOMAIN pages \ DOMAIN pages' :
            \/ ~ pages[pid].in_use
            \/ \A q \in DOMAIN pages' : pages'[q].request_id # pages[pid].request_id]_vars

\* "Frames the rollout has moved past ... are always the right victim even if
\* they were touched more recently than an in-window frame": an allocation
\* for current_frame never gives up a page at or after it while an evictable
\* page before it exists.
PastFramesGoFirst ==
    [][\A r \in Requests, f \in Frames, s \in Steps, cf \in Frames :
         AllocateEvict(r, f, s, cf) =>
            \A gone \in DOMAIN pages \ DOMAIN pages', q \in evictable :
                pages[q].frame_index < cf => pages[gone].frame_index < cf]_vars

\* A page id denotes one page for ever: late touch() and unpin() calls with a
\* stale id can never reach a page of another request or frame.
IdsAreStable ==
    [][/\ \A pid \in DOMAIN pages' \cap DOMAIN pages :
            /\ pages'[pid].request_id = pages[pid].request_id
            /\ pages'[pid].frame_index = pages[pid].frame_index
       /\ \A pid \in DOMAIN pages' \ DOMAIN pages : pid >= next_id
       /\ next_id' >= next_id]_vars
=============================================================================
