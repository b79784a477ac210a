------------------------------ MODULE Scheduler ------------------------------
(***************************************************************************)
(* The in-process request scheduler of crates/repercep-scheduler: three    *)
(* FIFO buckets, a skip-set of cancelled ids and a set of known ids under  *)
(* one mutex, a tokio Notify that wakes next() callers, and a shutdown     *)
(* flag that submit() and cancel() read BEFORE they take the mutex.        *)
(*                                                                         *)
(* The grain is the code's: one step per critical section or per access    *)
(* to an atomic or to the Notify made outside the mutex.                   *)
(***************************************************************************)
EXTENDS Integers, Sequences, FiniteSets

CONSTANTS
    Ids,          \* request ids (opaque strings in the code)
    Callers,      \* threads that call submit / cancel / shutdown
    Consumers,    \* tasks that call next()
    Capacity,     \* the capacity given to Scheduler::new
    MaxSubmits,   \* bound: how many submissions may be accepted in a behaviour
    ReuseIds      \* may a caller submit an id that was accepted before?

ASSUME SchedulerAssumption ==
    /\ IsFiniteSet(Ids)
    /\ Capacity \in Nat
    /\ MaxSubmits \in Nat
    /\ ReuseIds \in BOOLEAN
    /\ Consumers # {}

Priority == {"High", "Normal", "Low"}

\* ScheduledRequest; seq stands for submitted_at and the opaque payload.
Request == [id : Ids, priority : Priority, seq : Nat]
RequestAt(p) == [id : Ids, priority : {p}, seq : Nat]

VARIABLES
    high, normal, low,   \* the buckets, sequences of Request
    cancelled, known,    \* the skip-set and the known-id set, sets of ids
    shutting_down,       \* the AtomicBool
    permit,              \* Notify: a stored notify_one permit
    caller,              \* what each caller thread still has to do
    consumer,            \* where each next() task is
    woken,               \* what the task's current Notified has received
    accepted,            \* history: requests pushed, in the order of the mutex
    delivered,           \* history: requests that next() returned, in order
    revoked              \* history: requests whose id was cancelled with Ok

buckets == <<high, normal, low, cancelled, known>>
notify  == <<permit, woken>>
history == <<accepted, delivered, revoked>>
vars    == <<buckets, shutting_down, notify, caller, consumer, history>>

Idle == [op |-> "idle"]

CallerState ==
    {Idle}
      \cup [op : {"submit_lock"}, id : Ids, priority : Priority]
      \cup [op : {"cancel_lock"}, id : Ids]
      \cup [op : {"submit_notify", "shutdown_notify"}]

\* A next() task: not running; holding a fresh Notified, about to lock; found
\* nothing and about to poll the Notified; registered and suspended.
ConsumerState == {"idle", "created", "armed", "asleep"}

Init ==
    /\ high = <<>> /\ normal = <<>> /\ low = <<>>
    /\ cancelled = {} /\ known = {}
    /\ shutting_down = FALSE
    /\ permit = FALSE
    /\ caller = [t \in Callers |-> Idle]
    /\ consumer = [c \in Consumers |-> "idle"]
    /\ woken = [c \in Consumers |-> "no"]
    /\ accepted = <<>>
    /\ delivered = <<>>
    /\ revoked = {}

(***************************************************************************)
(* Buckets.                                                                *)
(***************************************************************************)
Elements(s) == {s[i] : i \in DOMAIN s}

\* The order in which pop_next() walks the buckets.
flat == high \o normal \o low

physical == Len(high) + Len(normal) + Len(low)

\* Buckets::len(), with its saturating subtraction.
len ==
    IF physical < Cardinality(cancelled) THEN 0 ELSE physical - Cardinality(cancelled)

\* Mutant: a cancelled item is handed out like any other.
SkippedNever(q, i) == FALSE

\* pop_next() skips the first item it meets with a cancelled id: the id leaves
\* the skip-set there, so a second item with the same id is not skipped.
Skipped(q, i) ==
    /\ q[i].id \in cancelled
    /\ \A j \in 1 .. i - 1 : q[j].id # q[i].id

Poppable(q) == {i \in 1 .. Len(q) : ~ Skipped(q, i)}

\* The number of slots pop_next() removes, the returned one included.
Popped(q) ==
    IF Poppable(q) = {}
      THEN Len(q)
      ELSE CHOOSE i \in Poppable(q) : \A j \in Poppable(q) : i <= j

Drop(s, n) == IF n >= Len(s) THEN <<>> ELSE SubSeq(s, n + 1, Len(s))

\* What is left of a bucket when n slots are removed from the flat order and
\* `before' slots precede the bucket.
Remaining(s, n, before) == IF n <= before THEN s ELSE Drop(s, n - before)

\* Mutant: an id that was skipped stays in the skip-set.
PopNextKeepsSkipSet ==
    LET n    == Popped(flat)
        gone == {flat[i].id : i \in 1 .. n}
    IN  /\ high' = Remaining(high, n, 0)
        /\ normal' = Remaining(normal, n, Len(high))
        /\ low' = Remaining(low, n, Len(high) + Len(normal))
        /\ known' = known \ gone
        /\ UNCHANGED cancelled

\* The state change of pop_next(), the same whether or not it finds an item.
PopNext ==
    LET n    == Popped(flat)
        gone == {flat[i].id : i \in 1 .. n}
    IN  /\ high' = Remaining(high, n, 0)
        /\ normal' = Remaining(normal, n, Len(high))
        /\ low' = Remaining(low, n, Len(high) + Len(normal))
        /\ cancelled' = cancelled \ gone
        /\ known' = known \ gone

(***************************************************************************)
(* tokio::sync::Notify (external), as submit / next / shutdown use it.     *)
(***************************************************************************)

\* The tasks that registered themselves by polling and were not resolved yet.
waiting == {c \in Consumers : consumer[c] = "asleep" /\ woken[c] = "no"}

\* notify_one(): resolve one registered task, or store the permit.
NotifyOne ==
    \/ /\ waiting = {}
       /\ permit' = TRUE
       /\ UNCHANGED woken
    \/ /\ \E c \in waiting : woken' = [woken EXCEPT ![c] = "one"]
       /\ UNCHANGED permit

\* notify_waiters(): every Notified that exists is resolved, registered or
\* not; no permit is stored for tasks that come later.
NotifyWaiters ==
    /\ woken' = [c \in Consumers |->
                    IF consumer[c] # "idle" /\ woken[c] = "no" THEN "all" ELSE woken[c]]
    /\ UNCHANGED permit

(***************************************************************************)
(* submit(): load the flag; lock, check the length, push; notify_one.      *)
(***************************************************************************)

\* Ids a caller may use: unless ReuseIds, one that nobody has used.
Fresh(id) ==
    \/ ReuseIds
    \/ /\ \A r \in Elements(accepted) : r.id # id
       /\ \A t \in Callers : caller[t].op = "submit_lock" => caller[t].id # id

submitting == {t \in Callers : caller[t].op = "submit_lock"}

\* ShuttingDown is returned without a state change, so only an open scheduler
\* takes this step.
SubmitCheck(t, id, p) ==
    /\ caller[t] = Idle
    /\ Fresh(id)
    /\ Len(accepted) + Cardinality(submitting) < MaxSubmits
    /\ ~ shutting_down
    /\ caller' = [caller EXCEPT ![t] = [op |-> "submit_lock", id |-> id, priority |-> p]]
    /\ UNCHANGED <<buckets, shutting_down, notify, consumer, history>>

SubmitQueueFull(t) ==
    /\ caller[t].op = "submit_lock"
    /\ len >= Capacity
    /\ caller' = [caller EXCEPT ![t] = Idle]
    /\ UNCHANGED <<buckets, shutting_down, notify, consumer, history>>

SubmitPush(t) ==
    /\ caller[t].op = "submit_lock"
    /\ len < Capacity
    /\ LET r == [id |-> caller[t].id, priority |-> caller[t].priority,
                 seq |-> Len(accepted) + 1]
       IN  /\ known' = known \cup {r.id}
           /\ high' = IF r.priority = "High" THEN Append(high, r) ELSE high
           /\ normal' = IF r.priority = "Normal" THEN Append(normal, r) ELSE normal
           /\ low' = IF r.priority = "Low" THEN Append(low, r) ELSE low
           /\ accepted' = Append(accepted, r)
    /\ caller' = [caller EXCEPT ![t] = [op |-> "submit_notify"]]
    /\ UNCHANGED <<cancelled, shutting_down, notify, consumer, delivered, revoked>>

\* Mutant: notify only a task that is already waiting, and store no permit.
SubmitNotifyWaiting(t) ==
    /\ caller[t].op = "submit_notify"
    /\ IF waiting = {} THEN UNCHANGED notify ELSE NotifyOne
    /\ caller' = [caller EXCEPT ![t] = Idle]
    /\ UNCHANGED <<buckets, shutting_down, consumer, history>>

SubmitNotify(t) ==
    /\ caller[t].op = "submit_notify"
    /\ NotifyOne
    /\ caller' = [caller EXCEPT ![t] = Idle]
    /\ UNCHANGED <<buckets, shutting_down, consumer, history>>

(***************************************************************************)
(* cancel(): load the flag; lock, look the id up, mark it.                 *)
(***************************************************************************)
CancelCheck(t, id) ==
    /\ caller[t] = Idle
    /\ ~ shutting_down
    /\ caller' = [caller EXCEPT ![t] = [op |-> "cancel_lock", id |-> id]]
    /\ UNCHANGED <<buckets, shutting_down, notify, consumer, history>>

CancelNotFound(t) ==
    /\ caller[t].op = "cancel_lock"
    /\ caller[t].id \notin known
    /\ caller' = [caller EXCEPT ![t] = Idle]
    /\ UNCHANGED <<buckets, shutting_down, notify, consumer, history>>

CancelMark(t) ==
    /\ caller[t].op = "cancel_lock"
    /\ caller[t].id \in known
    /\ cancelled' = cancelled \cup {caller[t].id}
    /\ revoked' = revoked \cup {r \in Elements(flat) : r.id = caller[t].id}
    /\ caller' = [caller EXCEPT ![t] = Idle]
    /\ UNCHANGED <<high, normal, low, known, shutting_down, notify, consumer,
                   accepted, delivered>>

(***************************************************************************)
(* shutdown(): store the flag; notify_waiters.  It may be called again.    *)
(***************************************************************************)
ShutdownStore(t) ==
    /\ caller[t] = Idle
    /\ shutting_down' = TRUE
    /\ caller' = [caller EXCEPT ![t] = [op |-> "shutdown_notify"]]
    /\ UNCHANGED <<buckets, notify, consumer, history>>

ShutdownNotify(t) ==
    /\ caller[t].op = "shutdown_notify"
    /\ NotifyWaiters
    /\ caller' = [caller EXCEPT ![t] = Idle]
    /\ UNCHANGED <<buckets, shutting_down, consumer, history>>

(***************************************************************************)
(* next(): create a Notified; lock and pop; if empty, poll the Notified.   *)
(* next_blocking() wraps it in a timeout.                                  *)
(***************************************************************************)
NextCreate(c) ==
    /\ consumer[c] = "idle"
    /\ consumer' = [consumer EXCEPT ![c] = "created"]
    /\ woken' = [woken EXCEPT ![c] = "no"]
    /\ UNCHANGED <<buckets, shutting_down, permit, caller, history>>

\* pop_next() returned Some: the fresh Notified was never polled, so its
\* drop has no effect on the Notify.
NextTake(c) ==
    /\ consumer[c] = "created"
    /\ Poppable(flat) # {}
    /\ PopNext
    /\ delivered' = Append(delivered, flat[Popped(flat)])
    /\ consumer' = [consumer EXCEPT ![c] = "idle"]
    /\ UNCHANGED <<shutting_down, notify, caller, accepted, revoked>>

\* pop_next() returned None; the flag is read under the mutex.
NextEmpty(c) ==
    /\ consumer[c] = "created"
    /\ Poppable(flat) = {}
    /\ PopNext
    /\ consumer' = [consumer EXCEPT ![c] = IF shutting_down THEN "idle" ELSE "armed"]
    /\ UNCHANGED <<shutting_down, notify, caller, history>>

\* Mutant: the Notified is created after the check instead of before it, so
\* what was notified since is not seen.
NextPollLateNotified(c) ==
    /\ consumer[c] = "armed"
    /\ permit' = FALSE
    /\ consumer' = [consumer EXCEPT ![c] = IF permit THEN "created" ELSE "asleep"]
    /\ woken' = [woken EXCEPT ![c] = "no"]
    /\ UNCHANGED <<buckets, shutting_down, caller, history>>

\* First poll of the Notified: already resolved, or a permit is there, or the
\* task registers itself.  Resolved: the loop creates the next Notified.
NextPoll(c) ==
    /\ consumer[c] = "armed"
    /\ \/ /\ woken[c] # "no"
          /\ consumer' = [consumer EXCEPT ![c] = "created"]
          /\ woken' = [woken EXCEPT ![c] = "no"]
          /\ UNCHANGED permit
       \/ /\ woken[c] = "no" /\ permit
          /\ permit' = FALSE
          /\ consumer' = [consumer EXCEPT ![c] = "created"]
          /\ UNCHANGED woken
       \/ /\ woken[c] = "no" /\ ~ permit
          /\ consumer' = [consumer EXCEPT ![c] = "asleep"]
          /\ UNCHANGED <<permit, woken>>
    /\ UNCHANGED <<buckets, shutting_down, caller, history>>

NextWake(c) ==
    /\ consumer[c] = "asleep"
    /\ woken[c] # "no"
    /\ consumer' = [consumer EXCEPT ![c] = "created"]
    /\ woken' = [woken EXCEPT ![c] = "no"]
    /\ UNCHANGED <<buckets, shutting_down, permit, caller, history>>

\* The timeout of next_blocking() drops the future while it is suspended.  A
\* Notified that a notify_one has already resolved passes the notification on.
NextTimeout(c) ==
    /\ consumer[c] = "asleep"
    /\ consumer' = [consumer EXCEPT ![c] = "idle"]
    /\ IF woken[c] = "one" THEN NotifyOne ELSE UNCHANGED notify
    /\ UNCHANGED <<buckets, shutting_down, caller, history>>

CallerStep(t) ==
    \/ SubmitQueueFull(t) \/ SubmitPush(t) \/ SubmitNotify(t)
    \/ CancelNotFound(t) \/ CancelMark(t)
    \/ ShutdownNotify(t)

ConsumerStep(c) ==
    NextCreate(c) \/ NextTake(c) \/ NextEmpty(c) \/ NextPoll(c) \/ NextWake(c)

Next ==
    \/ \E t \in Callers :
         \/ \E id \in Ids, p \in Priority : SubmitCheck(t, id, p)
         \/ \E id \in Ids : CancelCheck(t, id)
         \/ ShutdownStore(t)
         \/ CallerStep(t)
    \/ \E c \in Consumers : ConsumerStep(c) \/ NextTimeout(c)

Spec == Init /\ [][Next]_vars

\* A started call runs to its end, and a consumer keeps calling next(): the
\* driver thread calls next_blocking() in a loop.  No timeout need ever fire.
Fairness ==
    /\ \A t \in Callers : WF_vars(CallerStep(t))
    /\ \A c \in Consumers : WF_vars(ConsumerStep(c))

LiveSpec == Spec /\ Fairness

(***************************************************************************)
(* Properties.                                                             *)
(***************************************************************************)

\* Type invariant: the buckets hold requests of their own priority, and every
\* thread is at a place the code has.
TypeOK ==
    /\ high \in Seq(RequestAt("High"))
    /\ normal \in Seq(RequestAt("Normal"))
    /\ low \in Seq(RequestAt("Low"))
    /\ cancelled \subseteq Ids /\ known \subseteq Ids
    /\ shutting_down \in BOOLEAN
    /\ permit \in BOOLEAN
    /\ caller \in [Callers -> CallerState]
    /\ consumer \in [Consumers -> ConsumerState]
    /\ woken \in [Consumers -> {"no", "one", "all"}]
    /\ accepted \in Seq(Request)
    /\ delivered \in Seq(Request)
    /\ revoked \subseteq Request

\* A task that runs no further unless the Notify resolves its Notified.
Blocked(c) == consumer[c] \in {"armed", "asleep"} /\ woken[c] = "no"

\* "Take a Notified BEFORE checking state to close the race where submit()
\* notifies between our peek and our await": whenever a request sits in a
\* bucket and every task is blocked, a notification is on its way, either in
\* a submit() that has pushed and not notified or as a permit that a task
\* about to poll will find.
NoLostWakeup ==
    (physical > 0 /\ \A c \in Consumers : Blocked(c)) =>
        \/ \E t \in Callers : caller[t].op = "submit_notify"
        \/ permit /\ \E c \in Consumers : consumer[c] = "armed"

\* "Wake EVERY waiter": once no shutdown() call is still between its store
\* and its notify_waiters, no next() can be left suspended.
ShutdownWakesAll ==
    (shutting_down /\ \A t \in Callers : caller[t].op # "shutdown_notify") =>
        \A c \in Consumers : ~ Blocked(c)

\* What next() can still hand out.
outstanding == (Elements(accepted) \ Elements(delivered)) \ revoked

\* len() is the number of requests the caller can still expect from next(),
\* and never exceeds the capacity, whatever was cancelled, skipped or popped.
LenIsOutstanding == len = Cardinality(outstanding) /\ len <= Capacity

\* The scheduler is a priority queue: what it hands out, and in which order,
\* is what the abstract queue allows.
PQ == INSTANCE PriorityQueue WITH
        pending   <- outstanding,
        taken     <- delivered,
        withdrawn <- revoked

ImplementsPriorityQueue == PQ!Spec

\* Every accepted request is eventually handed out or was cancelled.
EveryRequestServed ==
    \A id \in Ids :
        (\E r \in Elements(accepted) : r.id = id)
          ~> (\E r \in Elements(delivered) \cup revoked : r.id = id)
=============================================================================
