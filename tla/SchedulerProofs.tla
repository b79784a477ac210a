--------------------------- MODULE SchedulerProofs ---------------------------
(***************************************************************************)
(* Machine-checked facts about Scheduler, for every set of ids, callers    *)
(* and consumers and every capacity.                                       *)
(***************************************************************************)
EXTENDS Scheduler, FiniteSetTheorems, FunctionTheorems, SequenceTheorems,
        WellFoundedInduction, TLAPS

\* The elements of a sequence are of its type.
LEMMA ElementsType == ASSUME NEW S, NEW s \in Seq(S) PROVE Elements(s) \subseteq S
  BY DEF Elements

\* The three buckets one after the other are a sequence of requests.
LEMMA FlatType == TypeOK => flat \in Seq(Request) /\ Len(flat) = physical
  <1> SUFFICES ASSUME TypeOK PROVE flat \in Seq(Request) /\ Len(flat) = physical
    OBVIOUS
  <1>1. /\ RequestAt("High") \subseteq Request
        /\ RequestAt("Normal") \subseteq Request
        /\ RequestAt("Low") \subseteq Request
    BY DEF RequestAt, Request, Priority
  <1>2. high \in Seq(Request) /\ normal \in Seq(Request) /\ low \in Seq(Request)
    BY <1>1 DEF TypeOK
  <1> QED BY <1>2 DEF flat, physical

\* A nonempty set of naturals has a least element.
LEMMA LeastNatural ==
  ASSUME NEW T \in SUBSET Nat, T # {}
  PROVE  \E i \in T : \A j \in T : i <= j
  <1>1. PICK i \in T : \A j \in T : ~ (<<j, i>> \in OpToRel(<, Nat))
    BY WFMin, NatLessThanWellFounded
  <1>2. \A j \in T : ~ (j < i)
    BY <1>1 DEF OpToRel
  <1> QED BY <1>2

\* The number of slots pop_next() removes is an index of the queue, the index
\* of an item that is not skipped when there is one.
LEMMA PoppedType ==
  ASSUME NEW q \in Seq(Request)
  PROVE  /\ Popped(q) \in 0 .. Len(q)
         /\ Poppable(q) = {} => Popped(q) = Len(q)
         /\ Poppable(q) # {} => Popped(q) \in Poppable(q) /\ Popped(q) \in 1 .. Len(q)
  <1>1. CASE Poppable(q) = {}
    BY <1>1 DEF Popped
  <1>2. CASE Poppable(q) # {}
    <2>1. Poppable(q) \in SUBSET Nat /\ Poppable(q) \subseteq 1 .. Len(q)
      BY DEF Poppable
    <2>2. \E i \in Poppable(q) : \A j \in Poppable(q) : i <= j
      BY <1>2, <2>1, LeastNatural
    <2>3. Popped(q) = CHOOSE i \in Poppable(q) : \A j \in Poppable(q) : i <= j
      BY <1>2 DEF Popped
    <2>4. Popped(q) \in Poppable(q)
      BY <2>2, <2>3
    <2> QED BY <1>2, <2>1, <2>4
  <1> QED BY <1>1, <1>2

\* What a pop leaves of a bucket is a bucket.
LEMMA RemainingType ==
  ASSUME NEW S, NEW s \in Seq(S), NEW n \in Nat, NEW b \in Nat
  PROVE  Remaining(s, n, b) \in Seq(S)
  BY DEF Remaining, Drop

\* A pop keeps the types of the buckets and of the skip-set.
LEMMA PopNextType ==
  ASSUME TypeOK, PopNext
  PROVE  /\ high' \in Seq(RequestAt("High"))
         /\ normal' \in Seq(RequestAt("Normal"))
         /\ low' \in Seq(RequestAt("Low"))
         /\ cancelled' \subseteq Ids /\ known' \subseteq Ids
         /\ Poppable(flat) = {} => physical' = 0
  <1>1. flat \in Seq(Request) /\ Len(flat) = physical
    BY FlatType
  <1>2. Popped(flat) \in Nat /\ (Poppable(flat) = {} => Popped(flat) = physical)
    BY <1>1, PoppedType
  <1>3. /\ high \in Seq(RequestAt("High"))
        /\ normal \in Seq(RequestAt("Normal"))
        /\ low \in Seq(RequestAt("Low"))
        /\ cancelled \subseteq Ids /\ known \subseteq Ids
    BY DEF TypeOK
  <1>4. /\ high' = Remaining(high, Popped(flat), 0)
        /\ normal' = Remaining(normal, Popped(flat), Len(high))
        /\ low' = Remaining(low, Popped(flat), Len(high) + Len(normal))
        /\ cancelled' \subseteq cancelled
        /\ known' \subseteq known
    BY DEF PopNext
  <1>5. Len(high) \in Nat /\ Len(normal) \in Nat /\ Len(low) \in Nat
    BY <1>3
  <1>6. /\ high' \in Seq(RequestAt("High"))
        /\ normal' \in Seq(RequestAt("Normal"))
        /\ low' \in Seq(RequestAt("Low"))
    <2>1. high' \in Seq(RequestAt("High"))
      BY <1>2, <1>3, <1>4, <1>5, RemainingType
    <2>2. normal' \in Seq(RequestAt("Normal"))
      BY <1>2, <1>3, <1>4, <1>5, RemainingType
    <2>3. low' \in Seq(RequestAt("Low"))
      <3>1. Len(high) + Len(normal) \in Nat
        BY <1>5
      <3> QED BY <1>2, <1>3, <1>4, <3>1, RemainingType
    <2> QED BY <2>1, <2>2, <2>3
  <1>7. ASSUME Poppable(flat) = {} PROVE physical' = 0
    <2>1. Popped(flat) = Len(high) + Len(normal) + Len(low)
      BY <1>2, <1>7 DEF physical
    <2>2. high' = <<>>
      BY <2>1, <1>3, <1>4 DEF Remaining, Drop
    <2>3. normal' = <<>>
      BY <2>1, <1>3, <1>4 DEF Remaining, Drop
    <2>4. low' = <<>>
      BY <2>1, <1>3, <1>4 DEF Remaining, Drop
    <2> QED BY <2>2, <2>3, <2>4 DEF physical
  <1> QED BY <1>3, <1>4, <1>6, <1>7

(***************************************************************************)
(* Type correctness.                                                       *)
(***************************************************************************)
LEMMA CallerStateType ==
  /\ Idle \in CallerState
  /\ \A s \in CallerState :
       /\ s.op = "submit_lock" => s.id \in Ids /\ s.priority \in Priority
       /\ s.op = "cancel_lock" => s.id \in Ids
  <1>1. Idle \in CallerState
    BY DEF CallerState
  <1>2. ASSUME NEW s \in CallerState
        PROVE  /\ s.op = "submit_lock" => s.id \in Ids /\ s.priority \in Priority
               /\ s.op = "cancel_lock" => s.id \in Ids
    <2>1. CASE s = Idle
      BY <2>1 DEF Idle
    <2>2. CASE s \in [op : {"submit_lock"}, id : Ids, priority : Priority]
      BY <2>2
    <2>3. CASE s \in [op : {"cancel_lock"}, id : Ids]
      BY <2>3
    <2>4. CASE s \in [op : {"submit_notify", "shutdown_notify"}]
      BY <2>4
    <2> QED BY <2>1, <2>2, <2>3, <2>4 DEF CallerState
  <1> QED BY <1>1, <1>2

\* The new scheduler is well typed.
LEMMA TypeInit == Init => TypeOK
  <1> SUFFICES ASSUME Init PROVE TypeOK
    OBVIOUS
  <1>1. caller \in [Callers -> CallerState]
    BY CallerStateType DEF Init
  <1>2. /\ consumer \in [Consumers -> ConsumerState]
        /\ woken \in [Consumers -> {"no", "one", "all"}]
    BY DEF Init, ConsumerState
  <1>3. /\ high \in Seq(RequestAt("High"))
        /\ normal \in Seq(RequestAt("Normal"))
        /\ low \in Seq(RequestAt("Low"))
        /\ accepted \in Seq(Request) /\ delivered \in Seq(Request)
    BY DEF Init
  <1> QED BY <1>1, <1>2, <1>3 DEF Init, TypeOK

\* A notification keeps the types of the Notify.
LEMMA NotifyOneType ==
  ASSUME TypeOK, NotifyOne
  PROVE  permit' \in BOOLEAN /\ woken' \in [Consumers -> {"no", "one", "all"}]
  BY DEF TypeOK, NotifyOne, waiting

\* Every step keeps the types.
LEMMA TypeNext == TypeOK /\ [Next]_vars => TypeOK'
  <1> SUFFICES ASSUME TypeOK, [Next]_vars PROVE TypeOK'
    OBVIOUS
  <1> USE DEF TypeOK, buckets, notify, history
  <1>1. ASSUME NEW t \in Callers, NEW id \in Ids, NEW p \in Priority, SubmitCheck(t, id, p)
        PROVE  TypeOK'
    BY <1>1 DEF SubmitCheck, CallerState
  <1>2. ASSUME NEW t \in Callers, NEW id \in Ids, CancelCheck(t, id) PROVE TypeOK'
    BY <1>2 DEF CancelCheck, CallerState
  <1>3. ASSUME NEW t \in Callers, ShutdownStore(t) PROVE TypeOK'
    BY <1>3 DEF ShutdownStore, CallerState
  <1>4. ASSUME NEW t \in Callers, CallerStep(t) PROVE TypeOK'
    <2>1. CASE SubmitQueueFull(t)
      BY <2>1 DEF SubmitQueueFull, CallerState
    <2>2. CASE SubmitPush(t)
      <3> DEFINE r == [id |-> caller[t].id, priority |-> caller[t].priority,
                       seq |-> Len(accepted) + 1]
      <3>1. caller[t].id \in Ids /\ caller[t].priority \in Priority
        BY <2>2, CallerStateType DEF SubmitPush
      <3>2. r \in Request
        BY <3>1 DEF Request
      <3>3. /\ known' = known \cup {r.id}
            /\ high' = IF r.priority = "High" THEN Append(high, r) ELSE high
            /\ normal' = IF r.priority = "Normal" THEN Append(normal, r) ELSE normal
            /\ low' = IF r.priority = "Low" THEN Append(low, r) ELSE low
            /\ accepted' = Append(accepted, r)
        BY <2>2 DEF SubmitPush
      <3> HIDE DEF r
      <3>4. /\ high' \in Seq(RequestAt("High"))
            /\ normal' \in Seq(RequestAt("Normal"))
            /\ low' \in Seq(RequestAt("Low"))
            /\ accepted' \in Seq(Request) /\ known' \subseteq Ids
        <4>1. r.id \in Ids /\ r \in RequestAt(r.priority)
          BY <3>2 DEF Request, RequestAt
        <4> QED BY <3>2, <3>3, <4>1
      <3>5. caller' \in [Callers -> CallerState]
        BY <2>2 DEF SubmitPush, CallerState
      <3> QED BY <2>2, <3>4, <3>5 DEF SubmitPush
    <2>3. CASE SubmitNotify(t)
      BY <2>3, NotifyOneType DEF SubmitNotify, CallerState
    <2>4. CASE CancelNotFound(t)
      BY <2>4 DEF CancelNotFound, CallerState
    <2>5. CASE CancelMark(t)
      <3>1. Elements(flat) \subseteq Request
        BY FlatType, ElementsType
      <3>2. caller[t].id \in Ids
        BY <2>5, CallerStateType DEF CancelMark
      <3> QED BY <2>5, <3>1, <3>2 DEF CancelMark, CallerState
    <2>6. CASE ShutdownNotify(t)
      BY <2>6 DEF ShutdownNotify, NotifyWaiters, CallerState
    <2> QED BY <1>4, <2>1, <2>2, <2>3, <2>4, <2>5, <2>6 DEF CallerStep
  <1>5. ASSUME NEW c \in Consumers, ConsumerStep(c) PROVE TypeOK'
    <2>1. CASE NextCreate(c)
      BY <2>1 DEF NextCreate, ConsumerState
    <2>2. CASE NextTake(c)
      <3>1. flat[Popped(flat)] \in Request
        <4>1. flat \in Seq(Request) /\ Popped(flat) \in 1 .. Len(flat)
          BY <2>2, FlatType, PoppedType DEF NextTake
        <4> QED BY <4>1
      <3>2. PopNext /\ delivered' = Append(delivered, flat[Popped(flat)])
        BY <2>2 DEF NextTake
      <3>3. delivered' \in Seq(Request)
        BY <3>1, <3>2
      <3> QED BY <2>2, <3>2, <3>3, PopNextType DEF NextTake, ConsumerState
    <2>3. CASE NextEmpty(c)
      BY <2>3, PopNextType DEF NextEmpty, ConsumerState
    <2>4. CASE NextPoll(c)
      BY <2>4 DEF NextPoll, ConsumerState
    <2>5. CASE NextWake(c)
      BY <2>5 DEF NextWake, ConsumerState
    <2> QED BY <1>5, <2>1, <2>2, <2>3, <2>4, <2>5 DEF ConsumerStep
  <1>6. ASSUME NEW c \in Consumers, NextTimeout(c) PROVE TypeOK'
    BY <1>6, NotifyOneType DEF NextTimeout, ConsumerState
  <1>7. CASE UNCHANGED vars
    BY <1>7 DEF vars
  <1> QED BY <1>1, <1>2, <1>3, <1>4, <1>5, <1>6, <1>7 DEF Next

\* Every reachable state is well typed: in particular no operation puts an id
\* or a request into the bookkeeping that no caller supplied.
THEOREM SchedulerTypeCorrect == Spec => []TypeOK
  BY TypeInit, TypeNext, PTL DEF Spec

(***************************************************************************)
(* Wakeups.  Both invariants are inductive together with TypeOK.           *)
(***************************************************************************)
LEMMA WakeupInit == Init => NoLostWakeup
  BY SchedulerAssumption DEF Init, NoLostWakeup, Blocked

\* Every step keeps the reason why a wakeup is not lost.
LEMMA WakeupNext == TypeOK /\ NoLostWakeup /\ [Next]_vars => NoLostWakeup'
  <1> SUFFICES ASSUME TypeOK, NoLostWakeup, [Next]_vars,
                      physical' > 0, \A c \in Consumers : Blocked(c)'
               PROVE  \/ \E t \in Callers : caller'[t].op = "submit_notify"
                      \/ permit' /\ \E c \in Consumers : consumer'[c] = "armed"
    BY DEF NoLostWakeup
  <1> USE DEF buckets, notify, history
  <1>0. /\ caller \in [Callers -> CallerState]
        /\ consumer \in [Consumers -> ConsumerState]
        /\ woken \in [Consumers -> {"no", "one", "all"}]
    BY DEF TypeOK
  \* A step that moves only callers that have not pushed, and no queue.
  <1>s. ASSUME physical' = physical, UNCHANGED <<permit, consumer, woken>>,
               \A t \in Callers : caller[t].op = "submit_notify"
                                   => caller'[t].op = "submit_notify"
        PROVE  \/ \E t \in Callers : caller'[t].op = "submit_notify"
               \/ permit' /\ \E c \in Consumers : consumer'[c] = "armed"
    BY <1>s DEF NoLostWakeup, Blocked
  <1>1. ASSUME NEW t \in Callers, NEW id \in Ids, NEW p \in Priority, SubmitCheck(t, id, p)
        PROVE  \/ \E u \in Callers : caller'[u].op = "submit_notify"
               \/ permit' /\ \E c \in Consumers : consumer'[c] = "armed"
    BY <1>0, <1>1, <1>s DEF SubmitCheck, Idle, physical
  <1>2. ASSUME NEW t \in Callers, NEW id \in Ids, CancelCheck(t, id)
        PROVE  \/ \E u \in Callers : caller'[u].op = "submit_notify"
               \/ permit' /\ \E c \in Consumers : consumer'[c] = "armed"
    BY <1>0, <1>2, <1>s DEF CancelCheck, Idle, physical
  <1>3. ASSUME NEW t \in Callers, ShutdownStore(t)
        PROVE  \/ \E u \in Callers : caller'[u].op = "submit_notify"
               \/ permit' /\ \E c \in Consumers : consumer'[c] = "armed"
    BY <1>0, <1>3, <1>s DEF ShutdownStore, Idle, physical
  <1>4. ASSUME NEW t \in Callers, CallerStep(t)
        PROVE  \/ \E u \in Callers : caller'[u].op = "submit_notify"
               \/ permit' /\ \E c \in Consumers : consumer'[c] = "armed"
    <2>1. CASE SubmitQueueFull(t)
      BY <1>0, <1>s, <2>1 DEF SubmitQueueFull, physical
    <2>2. CASE SubmitPush(t)
      BY <1>0, <2>2 DEF SubmitPush
    \* Nobody was registered: every task is about to poll and finds the permit.
    <2>3. CASE SubmitNotify(t)
      <3>1. waiting = {} /\ permit'
        BY <1>0, <2>3 DEF SubmitNotify, NotifyOne, waiting, Blocked
      <3>2. \A c \in Consumers : consumer'[c] = "armed"
        BY <1>0, <2>3, <3>1 DEF SubmitNotify, NotifyOne, waiting, Blocked
      <3> QED BY <3>1, <3>2, SchedulerAssumption
    <2>4. CASE CancelNotFound(t)
      BY <1>0, <1>s, <2>4 DEF CancelNotFound, physical
    <2>5. CASE CancelMark(t)
      BY <1>0, <1>s, <2>5 DEF CancelMark, physical
    \* notify_waiters leaves nobody blocked.
    <2>6. CASE ShutdownNotify(t)
      BY <1>0, <2>6, SchedulerAssumption DEF ShutdownNotify, NotifyWaiters, Blocked
    <2> QED BY <1>4, <2>1, <2>2, <2>3, <2>4, <2>5, <2>6 DEF CallerStep
  <1>5. ASSUME NEW c \in Consumers, ConsumerStep(c)
        PROVE  \/ \E u \in Callers : caller'[u].op = "submit_notify"
               \/ permit' /\ \E d \in Consumers : consumer'[d] = "armed"
    <2>1. ~ NextCreate(c)
      BY <1>0 DEF NextCreate, Blocked
    <2>2. ~ NextTake(c)
      BY <1>0 DEF NextTake, Blocked
    \* pop_next() found nothing, so nothing is left in the buckets.
    <2>3. ~ NextEmpty(c)
      BY PopNextType DEF NextEmpty
    <2>4. CASE NextPoll(c)
      <3>1. woken[c] = "no" /\ ~ permit
        BY <1>0, <2>4 DEF NextPoll, Blocked
      <3>2. physical' = physical /\ caller' = caller /\ woken' = woken
        BY <2>4, <3>1 DEF NextPoll, physical
      <3>3. \A d \in Consumers : Blocked(d)
        BY <1>0, <2>4, <3>2 DEF NextPoll, Blocked
      <3> QED BY <3>1, <3>2, <3>3 DEF NoLostWakeup
    <2>5. ~ NextWake(c)
      BY <1>0 DEF NextWake, Blocked
    <2> QED BY <1>5, <2>1, <2>2, <2>3, <2>4, <2>5 DEF ConsumerStep
  <1>6. ASSUME NEW c \in Consumers, NextTimeout(c) PROVE FALSE
    BY <1>0, <1>6 DEF NextTimeout, Blocked
  <1>7. CASE UNCHANGED vars
    BY <1>7, <1>s DEF vars, physical
  <1> QED BY <1>1, <1>2, <1>3, <1>4, <1>5, <1>6, <1>7 DEF Next

\* No wakeup is lost, however many callers and consumers there are: a request
\* never sits in a bucket with every next() task blocked and no notification
\* on its way.
THEOREM SchedulerNoLostWakeup == Spec => []NoLostWakeup
  BY SchedulerTypeCorrect, WakeupInit, WakeupNext, PTL DEF Spec

\* Every step keeps what a returned shutdown() guarantees.
LEMMA ShutdownNextLemma == TypeOK /\ ShutdownWakesAll /\ [Next]_vars => ShutdownWakesAll'
  <1> SUFFICES ASSUME TypeOK, ShutdownWakesAll, [Next]_vars, shutting_down',
                      \A t \in Callers : caller'[t].op # "shutdown_notify",
                      NEW d \in Consumers
               PROVE  ~ Blocked(d)'
    BY DEF ShutdownWakesAll
  <1> USE DEF buckets, notify, history
  <1>0. /\ caller \in [Callers -> CallerState]
        /\ consumer \in [Consumers -> ConsumerState]
        /\ woken \in [Consumers -> {"no", "one", "all"}]
    BY DEF TypeOK
  <1>s. ASSUME UNCHANGED <<shutting_down, consumer, woken>>,
               \A t \in Callers : caller[t].op = "shutdown_notify"
                                   => caller'[t].op = "shutdown_notify"
        PROVE  ~ Blocked(d)'
    BY <1>s DEF ShutdownWakesAll, Blocked
  <1>1. ASSUME NEW t \in Callers, NEW id \in Ids, NEW p \in Priority, SubmitCheck(t, id, p)
        PROVE  ~ Blocked(d)'
    BY <1>0, <1>1, <1>s DEF SubmitCheck, Idle
  <1>2. ASSUME NEW t \in Callers, NEW id \in Ids, CancelCheck(t, id) PROVE ~ Blocked(d)'
    BY <1>0, <1>2, <1>s DEF CancelCheck, Idle
  <1>3. ASSUME NEW t \in Callers, ShutdownStore(t) PROVE FALSE
    BY <1>0, <1>3 DEF ShutdownStore
  <1>4. ASSUME NEW t \in Callers, CallerStep(t) PROVE ~ Blocked(d)'
    <2>1. CASE SubmitQueueFull(t)
      BY <1>0, <1>s, <2>1 DEF SubmitQueueFull
    <2>2. CASE SubmitPush(t)
      BY <1>0, <1>s, <2>2 DEF SubmitPush
    <2>3. CASE SubmitNotify(t)
      <3>1. shutting_down /\ \A u \in Callers : caller[u].op # "shutdown_notify"
        BY <1>0, <2>3 DEF SubmitNotify
      <3>2. ~ Blocked(d)
        BY <3>1 DEF ShutdownWakesAll
      <3> QED BY <1>0, <2>3, <3>2 DEF SubmitNotify, NotifyOne, waiting, Blocked
    <2>4. CASE CancelNotFound(t)
      BY <1>0, <1>s, <2>4 DEF CancelNotFound
    <2>5. CASE CancelMark(t)
      BY <1>0, <1>s, <2>5 DEF CancelMark
    <2>6. CASE ShutdownNotify(t)
      BY <1>0, <2>6 DEF ShutdownNotify, NotifyWaiters, Blocked
    <2> QED BY <1>4, <2>1, <2>2, <2>3, <2>4, <2>5, <2>6 DEF CallerStep
  <1>5. ASSUME NEW c \in Consumers, ConsumerStep(c) \/ NextTimeout(c) PROVE ~ Blocked(d)'
    <2>1. shutting_down /\ caller' = caller
      BY <1>5 DEF ConsumerStep, NextCreate, NextTake, NextEmpty, NextPoll, NextWake, NextTimeout
    <2>2. \A e \in Consumers : ~ Blocked(e)
      BY <2>1 DEF ShutdownWakesAll
    <2>3. CASE NextCreate(c)
      BY <1>0, <2>2, <2>3 DEF NextCreate, Blocked
    <2>4. CASE NextTake(c)
      BY <1>0, <2>2, <2>4 DEF NextTake, Blocked
    <2>5. CASE NextEmpty(c)
      BY <1>0, <2>1, <2>2, <2>5 DEF NextEmpty, Blocked
    <2>6. CASE NextPoll(c)
      BY <1>0, <2>2, <2>6 DEF NextPoll, Blocked
    <2>7. CASE NextWake(c)
      BY <1>0, <2>2, <2>7 DEF NextWake, Blocked
    <2>8. CASE NextTimeout(c)
      BY <1>0, <2>2, <2>8 DEF NextTimeout, NotifyOne, waiting, Blocked
    <2> QED BY <1>5, <2>3, <2>4, <2>5, <2>6, <2>7, <2>8 DEF ConsumerStep
  <1>6. CASE UNCHANGED vars
    BY <1>6, <1>s DEF vars
  <1> QED BY <1>1, <1>2, <1>3, <1>4, <1>5, <1>6 DEF Next

\* Once every shutdown() call has returned, no next() task is left blocked,
\* although tasks create, poll and drop their Notified in every interleaving.
THEOREM SchedulerShutdownWakesAll == Spec => []ShutdownWakesAll
  <1>1. Init => ShutdownWakesAll
    BY DEF Init, ShutdownWakesAll
  <1> QED BY <1>1, SchedulerTypeCorrect, ShutdownNextLemma, PTL DEF Spec

(***************************************************************************)
(* The queue.  When no id is submitted twice (ReuseIds is FALSE), the      *)
(* buckets, the skip-set and the known-id set are functions of what was    *)
(* accepted, handed out and cancelled.  QueueInv says how; it is inductive *)
(* together with TypeOK.                                                   *)
(***************************************************************************)
OneToOne(s) == \A i, j \in DOMAIN s : s[i] = s[j] => i = j
InOrder(s) == \A i, j \in DOMAIN s : i < j => s[i].seq < s[j].seq

\* Ids are unique among what was accepted and what is about to be pushed.
IdsUnique ==
    /\ \A r, s \in Elements(accepted) : r.id = s.id => r = s
    /\ \A t \in submitting : \A r \in Elements(accepted) : r.id # caller[t].id
    /\ \A t, u \in submitting : caller[t].id = caller[u].id => t = u

\* Each bucket is in the order of submission.
BucketsInOrder ==
    /\ \A i \in DOMAIN accepted : accepted[i].seq = i
    /\ InOrder(high) /\ InOrder(normal) /\ InOrder(low)

queued == Elements(high) \cup Elements(normal) \cup Elements(low)

\* What was accepted is queued, handed out or cancelled; a cancelled request
\* may still be queued, and is then the one the skip-set names.
Accounted ==
    /\ Elements(accepted) = queued \cup Elements(delivered) \cup revoked
    /\ queued \cap Elements(delivered) = {}
    /\ revoked \cap Elements(delivered) = {}
    /\ OneToOne(delivered)
    /\ known = {r.id : r \in queued}
    /\ cancelled = {r.id : r \in queued \cap revoked}

QueueInv ==
    /\ IdsUnique
    /\ BucketsInOrder
    /\ Accounted
    /\ len <= Capacity

(***************************************************************************)
(* Sequences, their elements and their counts.                             *)
(***************************************************************************)
LEMMA ElementsFinite ==
  ASSUME NEW S, NEW s \in Seq(S)
  PROVE  /\ IsFiniteSet(Elements(s))
         /\ OneToOne(s) => Cardinality(Elements(s)) = Len(s)
  <1>1. s \in [1 .. Len(s) -> Elements(s)] /\ Len(s) \in Nat /\ DOMAIN s = 1 .. Len(s)
    <2>1. s \in [1 .. Len(s) -> S] /\ Len(s) \in Nat /\ DOMAIN s = 1 .. Len(s)
      BY LenProperties
    <2>2. \A i \in 1 .. Len(s) : s[i] \in Elements(s)
      BY <2>1 DEF Elements
    <2> DEFINE D == 1 .. Len(s)
    <2> HIDE DEF D
    <2>3. s \in [D -> S] /\ \A i \in D : s[i] \in Elements(s)
      BY <2>1, <2>2 DEF D
    <2>4. s \in [D -> Elements(s)]
      BY <2>3
    <2>5. s \in [1 .. Len(s) -> Elements(s)]
      BY <2>4, Zenon DEF D
    <2> QED BY <2>1, <2>5
  <1>2. IsFiniteSet(1 .. Len(s)) /\ Cardinality(1 .. Len(s)) = Len(s)
    <2>1. \A n \in Nat : IsFiniteSet(1 .. n) /\ Cardinality(1 .. n) = n
      <3> SUFFICES ASSUME NEW n \in Nat
                   PROVE  IsFiniteSet(1 .. n) /\ Cardinality(1 .. n) = n
        OBVIOUS
      <3>1. Cardinality(1 .. n) = IF 1 > n THEN 0 ELSE n - 1 + 1
        BY FS_Interval
      <3> QED BY <3>1, FS_Interval
    <2> QED BY <1>1, <2>1
  <1>3. s \in Surjection(1 .. Len(s), Elements(s))
    <2>1. \A e \in Elements(s) : \E i \in 1 .. Len(s) : s[i] = e
      BY <1>1 DEF Elements
    <2> QED BY <1>1, <2>1, Fun_IsSurj
  <1>4. OneToOne(s) => s \in Injection(1 .. Len(s), Elements(s))
    <2>1. OneToOne(s) => \A i, j \in 1 .. Len(s) : s[i] = s[j] => i = j
      BY <1>1 DEF OneToOne
    <2> QED BY <1>1, <2>1, Fun_IsInj
  <1> QED BY <1>2, <1>3, <1>4, FS_Surjection

\* A new element at the end keeps a sequence without repetition and in order.
LEMMA ElementsAppend ==
  ASSUME NEW S, NEW s \in Seq(S), NEW e \in S
  PROVE  /\ Elements(Append(s, e)) = Elements(s) \cup {e}
         /\ OneToOne(s) /\ e \notin Elements(s) => OneToOne(Append(s, e))
         /\ InOrder(s) /\ (\A x \in Elements(s) : x.seq < e.seq) => InOrder(Append(s, e))
  <1>1. /\ Append(s, e) \in Seq(S) /\ Len(Append(s, e)) = Len(s) + 1
        /\ \A i \in 1 .. Len(s) : Append(s, e)[i] = s[i]
        /\ Append(s, e)[Len(s) + 1] = e
        /\ Len(s) \in Nat /\ DOMAIN s = 1 .. Len(s)
        /\ DOMAIN Append(s, e) = 1 .. Len(s) + 1
    BY AppendProperties
  <1> DEFINE t == Append(s, e)
  <1> HIDE DEF t
  <1>2. /\ Len(s) \in Nat /\ DOMAIN s = 1 .. Len(s) /\ DOMAIN t = 1 .. Len(s) + 1
        /\ \A i \in 1 .. Len(s) : t[i] = s[i]
        /\ t[Len(s) + 1] = e
    BY <1>1 DEF t
  <1>3. Elements(t) = Elements(s) \cup {e}
    <2>1. \A i \in 1 .. Len(s) + 1 : i \in 1 .. Len(s) \/ i = Len(s) + 1
      BY <1>2
    <2> QED BY <1>2, <2>1 DEF Elements
  <1>4. OneToOne(s) /\ e \notin Elements(s) => OneToOne(t)
    BY <1>2 DEF OneToOne, Elements
  <1>5. InOrder(s) /\ (\A x \in Elements(s) : x.seq < e.seq) => InOrder(t)
    BY <1>2 DEF InOrder, Elements
  <1> QED BY <1>3, <1>4, <1>5 DEF t

\* A set of requests with distinct ids is as large as the set of its ids.
LEMMA IdsCount ==
  ASSUME NEW R, IsFiniteSet(R), \A r, s \in R : r.id = s.id => r = s
  PROVE  Cardinality({r.id : r \in R}) = Cardinality(R)
  <1> DEFINE I == {r.id : r \in R}
             f == [r \in R |-> r.id]
  <1>1. f \in Bijection(R, I)
    <2>1. f \in [R -> I] /\ \A r, s \in R : f[r] = f[s] => r = s
      OBVIOUS
    <2>2. \A i \in I : \E r \in R : f[r] = i
      OBVIOUS
    <2> HIDE DEF f, I
    <2> QED BY <2>1, <2>2, Fun_IsBij
  <1> HIDE DEF f, I
  <1>2. Cardinality(I) = Cardinality(R)
    BY <1>1, FS_Bijection DEF ExistsBijection
  <1> QED BY <1>2 DEF I

(***************************************************************************)
(* The flat order.                                                         *)
(***************************************************************************)
LEMMA BucketTypes ==
  ASSUME TypeOK
  PROVE  /\ high \in Seq(Request) /\ normal \in Seq(Request) /\ low \in Seq(Request)
         /\ accepted \in Seq(Request) /\ delivered \in Seq(Request)
         /\ Len(high) \in Nat /\ Len(normal) \in Nat /\ Len(low) \in Nat
         /\ DOMAIN high = 1 .. Len(high) /\ DOMAIN normal = 1 .. Len(normal)
         /\ DOMAIN low = 1 .. Len(low)
         /\ \A i \in 1 .. Len(high) : high[i] \in RequestAt("High")
         /\ \A i \in 1 .. Len(normal) : normal[i] \in RequestAt("Normal")
         /\ \A i \in 1 .. Len(low) : low[i] \in RequestAt("Low")
  <1>1. /\ RequestAt("High") \subseteq Request
        /\ RequestAt("Normal") \subseteq Request
        /\ RequestAt("Low") \subseteq Request
    BY DEF RequestAt, Request, Priority
  <1>2. /\ high \in Seq(RequestAt("High")) /\ normal \in Seq(RequestAt("Normal"))
        /\ low \in Seq(RequestAt("Low"))
        /\ accepted \in Seq(Request) /\ delivered \in Seq(Request)
    BY DEF TypeOK
  <1>3. high \in Seq(Request) /\ normal \in Seq(Request) /\ low \in Seq(Request)
    BY <1>1, <1>2, SeqMonotonic
  <1>4. /\ Len(high) \in Nat /\ Len(normal) \in Nat /\ Len(low) \in Nat
        /\ DOMAIN high = 1 .. Len(high) /\ DOMAIN normal = 1 .. Len(normal)
        /\ DOMAIN low = 1 .. Len(low)
    BY <1>3, LenProperties
  <1>5. /\ \A i \in 1 .. Len(high) : high[i] \in RequestAt("High")
        /\ \A i \in 1 .. Len(normal) : normal[i] \in RequestAt("Normal")
        /\ \A i \in 1 .. Len(low) : low[i] \in RequestAt("Low")
    BY <1>2, ElementOfSeq
  <1> QED BY <1>2, <1>3, <1>4, <1>5

\* Where each slot of the flat order is.
LEMMA FlatIndex ==
  ASSUME TypeOK
  PROVE  /\ Len(flat) = Len(high) + Len(normal) + Len(low)
         /\ DOMAIN flat = 1 .. Len(flat) /\ Len(flat) \in Nat
         /\ \A i \in 1 .. Len(high) : flat[i] = high[i]
         /\ \A i \in 1 .. Len(normal) : flat[Len(high) + i] = normal[i]
         /\ \A i \in 1 .. Len(low) : flat[Len(high) + Len(normal) + i] = low[i]
  <1>1. /\ high \in Seq(Request) /\ normal \in Seq(Request) /\ low \in Seq(Request)
        /\ Len(high) \in Nat /\ Len(normal) \in Nat /\ Len(low) \in Nat
    BY BucketTypes
  <1> DEFINE hn == high \o normal
  <1>2. /\ hn \in Seq(Request) /\ Len(hn) = Len(high) + Len(normal)
        /\ \A i \in 1 .. Len(high) + Len(normal) :
             hn[i] = IF i <= Len(high) THEN high[i] ELSE normal[i - Len(high)]
    BY <1>1, ConcatProperties
  <1> HIDE DEF hn
  <1>3. /\ hn \o low \in Seq(Request) /\ Len(hn \o low) = Len(hn) + Len(low)
        /\ \A i \in 1 .. Len(hn) + Len(low) :
             (hn \o low)[i] = IF i <= Len(hn) THEN hn[i] ELSE low[i - Len(hn)]
    <2>1. hn \in Seq(Request) /\ low \in Seq(Request)
      BY <1>1, <1>2
    <2> QED BY ONLY <2>1, ConcatProperties
  <1>4. flat = hn \o low
    BY DEF flat, hn
  <1>5. DOMAIN flat = 1 .. Len(flat) /\ Len(flat) \in Nat
    BY <1>3, <1>4, LenProperties
  <1>6. /\ Len(flat) = Len(high) + Len(normal) + Len(low)
        /\ \A i \in 1 .. Len(high) + Len(normal) + Len(low) :
             flat[i] = IF i <= Len(high) + Len(normal)
                         THEN IF i <= Len(high) THEN high[i] ELSE normal[i - Len(high)]
                         ELSE low[i - (Len(high) + Len(normal))]
    BY <1>1, <1>2, <1>3, <1>4
  <1>7. ASSUME NEW i \in 1 .. Len(high) PROVE flat[i] = high[i]
    BY <1>1, <1>6
  <1>8. ASSUME NEW i \in 1 .. Len(normal) PROVE flat[Len(high) + i] = normal[i]
    <2>1. Len(high) + i \in 1 .. Len(high) + Len(normal) + Len(low)
          /\ Len(high) + i <= Len(high) + Len(normal) /\ ~ (Len(high) + i <= Len(high))
          /\ Len(high) + i - Len(high) = i
      BY <1>1
    <2> QED BY <1>6, <2>1
  <1>9. ASSUME NEW i \in 1 .. Len(low) PROVE flat[Len(high) + Len(normal) + i] = low[i]
    <2>1. Len(high) + Len(normal) + i \in 1 .. Len(high) + Len(normal) + Len(low)
          /\ ~ (Len(high) + Len(normal) + i <= Len(high) + Len(normal))
          /\ Len(high) + Len(normal) + i - (Len(high) + Len(normal)) = i
      BY <1>1
    <2> QED BY <1>6, <2>1
  <1> QED BY <1>5, <1>6, <1>7, <1>8, <1>9

\* A slot of the flat order is a slot of one bucket.
HighSlot(i, k) == k \in 1 .. Len(high) /\ i = k /\ flat[i] = high[k]
NormalSlot(i, k) == k \in 1 .. Len(normal) /\ i = Len(high) + k /\ flat[i] = normal[k]
LowSlot(i, k) == k \in 1 .. Len(low) /\ i = Len(high) + Len(normal) + k /\ flat[i] = low[k]

\* Each slot of the flat queue is a slot of one of the buckets.
LEMMA FlatCases ==
  ASSUME TypeOK, NEW i \in 1 .. Len(flat)
  PROVE  \E k \in Nat : HighSlot(i, k) \/ NormalSlot(i, k) \/ LowSlot(i, k)
  <1>1. /\ Len(flat) = Len(high) + Len(normal) + Len(low)
        /\ Len(high) \in Nat /\ Len(normal) \in Nat /\ Len(low) \in Nat
    BY FlatIndex, BucketTypes
  <1>2. CASE i <= Len(high)
    <2>1. HighSlot(i, i)
      BY <1>1, <1>2, FlatIndex DEF HighSlot
    <2> QED BY <2>1
  <1>3. CASE Len(high) < i /\ i <= Len(high) + Len(normal)
    <2>1. PICK k \in 1 .. Len(normal) : i = Len(high) + k
      <3>1. i - Len(high) \in 1 .. Len(normal) /\ i = Len(high) + (i - Len(high))
        BY <1>1, <1>3
      <3> QED BY <3>1
    <2>2. NormalSlot(i, k)
      BY <2>1, FlatIndex DEF NormalSlot
    <2> QED BY <2>2
  <1>4. CASE Len(high) + Len(normal) < i
    <2>1. PICK k \in 1 .. Len(low) : i = Len(high) + Len(normal) + k
      <3>1. /\ i - (Len(high) + Len(normal)) \in 1 .. Len(low)
            /\ i = Len(high) + Len(normal) + (i - (Len(high) + Len(normal)))
        BY <1>1, <1>4
      <3> QED BY <3>1
    <2>2. LowSlot(i, k)
      BY <2>1, FlatIndex DEF LowSlot
    <2> QED BY <2>2
  <1> QED BY <1>1, <1>2, <1>3, <1>4

\* The flat queue holds what the buckets hold.
LEMMA FlatElements == ASSUME TypeOK PROVE Elements(flat) = queued
  <1>1. Elements(flat) \subseteq queued
    <2> SUFFICES ASSUME NEW i \in 1 .. Len(flat) PROVE flat[i] \in queued
      BY FlatIndex DEF Elements
    <2> QED BY FlatCases, BucketTypes DEF queued, Elements, HighSlot, NormalSlot, LowSlot
  <1>2. ASSUME NEW i \in 1 .. Len(high) PROVE high[i] \in Elements(flat)
    <2>1. i \in 1 .. Len(flat) /\ flat[i] = high[i]
      BY FlatIndex, BucketTypes
    <2> QED BY <2>1, FlatIndex DEF Elements
  <1>3. ASSUME NEW i \in 1 .. Len(normal) PROVE normal[i] \in Elements(flat)
    <2>1. Len(high) + i \in 1 .. Len(flat) /\ flat[Len(high) + i] = normal[i]
      BY FlatIndex, BucketTypes
    <2> QED BY <2>1, FlatIndex DEF Elements
  <1>4. ASSUME NEW i \in 1 .. Len(low) PROVE low[i] \in Elements(flat)
    <2>1. /\ Len(high) + Len(normal) + i \in 1 .. Len(flat)
          /\ flat[Len(high) + Len(normal) + i] = low[i]
      BY FlatIndex, BucketTypes
    <2> QED BY <2>1, FlatIndex DEF Elements
  <1>5. queued \subseteq Elements(flat)
    BY <1>2, <1>3, <1>4, BucketTypes DEF queued, Elements
  <1> QED BY <1>1, <1>5

\* The flat order is the order of priority and submission.
LEMMA FlatInOrder ==
  ASSUME TypeOK, BucketsInOrder
  PROVE  /\ \A i, j \in 1 .. Len(flat) : i < j => PQ!Precedes(flat[i], flat[j])
         /\ OneToOne(flat)
  <1>1. ASSUME NEW i \in 1 .. Len(flat), NEW j \in 1 .. Len(flat), i < j
        PROVE  PQ!Precedes(flat[i], flat[j])
    <2>0. Len(high) \in Nat /\ Len(normal) \in Nat /\ Len(low) \in Nat
      BY BucketTypes
    <2>1. PICK k \in Nat : HighSlot(i, k) \/ NormalSlot(i, k) \/ LowSlot(i, k)
      BY FlatCases
    <2>2. PICK m \in Nat : HighSlot(j, m) \/ NormalSlot(j, m) \/ LowSlot(j, m)
      BY FlatCases
    <2>3. \A x \in {i, j}, n \in Nat :
            /\ HighSlot(x, n) => flat[x].priority = "High"
            /\ NormalSlot(x, n) => flat[x].priority = "Normal"
            /\ LowSlot(x, n) => flat[x].priority = "Low"
      BY BucketTypes DEF RequestAt, HighSlot, NormalSlot, LowSlot
    \* In one bucket the slots are in the order of submission.
    <2>4. \/ HighSlot(i, k) /\ HighSlot(j, m)
          \/ NormalSlot(i, k) /\ NormalSlot(j, m)
          \/ LowSlot(i, k) /\ LowSlot(j, m)
          => flat[i].seq < flat[j].seq
      <3>1. InOrder(high) /\ InOrder(normal) /\ InOrder(low)
        BY DEF BucketsInOrder
      <3>2. HighSlot(i, k) /\ HighSlot(j, m) => flat[i].seq < flat[j].seq
        BY <1>1, <3>1, BucketTypes DEF InOrder, HighSlot
      <3>3. NormalSlot(i, k) /\ NormalSlot(j, m) => flat[i].seq < flat[j].seq
        <4>1. NormalSlot(i, k) /\ NormalSlot(j, m) => k < m
          BY <1>1, <2>0 DEF NormalSlot
        <4> QED BY <3>1, <4>1, BucketTypes DEF InOrder, NormalSlot
      <3>4. LowSlot(i, k) /\ LowSlot(j, m) => flat[i].seq < flat[j].seq
        <4>1. LowSlot(i, k) /\ LowSlot(j, m) => k < m
          BY <1>1, <2>0 DEF LowSlot
        <4> QED BY <3>1, <4>1, BucketTypes DEF InOrder, LowSlot
      <3> QED BY <3>2, <3>3, <3>4
    \* Of two buckets the earlier one holds the earlier slots.
    <2>5. ~ \/ NormalSlot(i, k) /\ HighSlot(j, m)
            \/ LowSlot(i, k) /\ HighSlot(j, m)
            \/ LowSlot(i, k) /\ NormalSlot(j, m)
      BY <1>1, <2>0 DEF HighSlot, NormalSlot, LowSlot
    <2> QED BY <2>1, <2>2, <2>3, <2>4, <2>5 DEF PQ!Precedes, PQ!Rank
  <1>2. \A i \in 1 .. Len(flat) : ~ PQ!Precedes(flat[i], flat[i])
    <2> SUFFICES ASSUME NEW i \in 1 .. Len(flat) PROVE ~ PQ!Precedes(flat[i], flat[i])
      OBVIOUS
    <2>1. flat[i] \in Request
      BY FlatType, ElementOfSeq
    <2>2. flat[i].seq \in Nat /\ PQ!Rank[flat[i].priority] \in {0, 1, 2}
      BY <2>1 DEF Request, Priority, PQ!Rank
    <2> QED BY <2>2 DEF PQ!Precedes
  <1>3. \A i, j \in 1 .. Len(flat) : flat[i] = flat[j] => i = j
    <2> SUFFICES ASSUME NEW i \in 1 .. Len(flat), NEW j \in 1 .. Len(flat),
                        flat[i] = flat[j], i # j
                 PROVE  FALSE
      OBVIOUS
    <2>1. i < j \/ j < i
      BY FlatIndex
    <2> QED BY <1>1, <1>2, <2>1
  <1> QED BY <1>1, <1>3, FlatIndex DEF OneToOne

(***************************************************************************)
(* What len() counts.                                                      *)
(***************************************************************************)
LEMMA LenCounts ==
  ASSUME TypeOK, IdsUnique, BucketsInOrder, Accounted
  PROVE  /\ outstanding = queued \ revoked
         /\ IsFiniteSet(outstanding) /\ Cardinality(outstanding) \in Nat
         /\ len = Cardinality(outstanding)
         /\ Len(accepted) = Cardinality(outstanding) + Len(delivered) + Cardinality(revoked)
  <1>1. outstanding = queued \ revoked
    BY DEF outstanding, Accounted
  <1>2. IsFiniteSet(queued) /\ Cardinality(queued) = physical /\ physical \in Nat
    <2>1. flat \in Seq(Request) /\ OneToOne(flat) /\ Elements(flat) = queued
      BY FlatType, FlatInOrder, FlatElements
    <2>2. IsFiniteSet(queued) /\ Cardinality(queued) = Len(flat)
      BY <2>1, ElementsFinite
    <2> QED BY <2>2, FlatType, FlatIndex
  <1>3. /\ IsFiniteSet(queued \cap revoked)
        /\ Cardinality(queued \cap revoked) \in Nat
    BY <1>2, FS_Intersection, FS_CardinalityType
  <1>4. Cardinality(cancelled) = Cardinality(queued \cap revoked)
    <2>1. \A r, s \in queued \cap revoked : r.id = s.id => r = s
      BY DEF IdsUnique, Accounted
    <2>2. Cardinality({r.id : r \in queued \cap revoked}) = Cardinality(queued \cap revoked)
      BY <1>3, <2>1, IdsCount
    <2> QED BY <2>2 DEF Accounted
  <1>5. /\ IsFiniteSet(outstanding) /\ Cardinality(outstanding) \in Nat
        /\ Cardinality(outstanding) = physical - Cardinality(cancelled)
    <2>1. /\ IsFiniteSet(queued \ revoked)
          /\ Cardinality(queued \ revoked)
               = Cardinality(queued) - Cardinality(queued \cap revoked)
      BY <1>2, FS_Difference
    <2> QED BY <1>1, <1>2, <1>4, <2>1, FS_CardinalityType
  <1>6. len = Cardinality(outstanding)
    <2>1. Cardinality(cancelled) \in Nat
      BY <1>3, <1>4
    <2> QED BY <1>2, <1>5, <2>1 DEF len
  <1>7. Len(accepted) = Cardinality(outstanding) + Len(delivered) + Cardinality(revoked)
    <2>1. /\ IsFiniteSet(Elements(accepted)) /\ Cardinality(Elements(accepted)) = Len(accepted)
      <3>1. OneToOne(accepted)
        BY DEF BucketsInOrder, OneToOne
      <3> QED BY <3>1, BucketTypes, ElementsFinite
    <2>2. /\ IsFiniteSet(Elements(delivered))
          /\ Cardinality(Elements(delivered)) = Len(delivered)
      BY BucketTypes, ElementsFinite DEF Accounted
    <2>3. IsFiniteSet(revoked) /\ Cardinality(revoked) \in Nat
      BY <2>1, FS_Subset, FS_CardinalityType DEF Accounted
    <2> DEFINE gone == Elements(delivered) \cup revoked
    <2>4. IsFiniteSet(gone) /\ Cardinality(gone) = Len(delivered) + Cardinality(revoked)
      <3>1. Cardinality(Elements(delivered) \cap revoked) = 0
        <4>1. Elements(delivered) \cap revoked = {}
          BY DEF Accounted
        <4> QED BY <4>1, FS_EmptySet
      <3>2. Cardinality(gone) = Cardinality(Elements(delivered)) + Cardinality(revoked)
                                  - Cardinality(Elements(delivered) \cap revoked)
        BY <2>2, <2>3, FS_Union
      <3>3. IsFiniteSet(gone)
        BY <2>2, <2>3, FS_Union
      <3>4. Len(delivered) \in Nat
        BY BucketTypes, LenProperties
      <3> HIDE DEF gone
      <3> QED BY <2>2, <2>3, <3>1, <3>2, <3>3, <3>4
    <2>5. outstanding \cap gone = {} /\ Elements(accepted) = outstanding \cup gone
      BY DEF outstanding, Accounted
    <2> HIDE DEF gone
    <2>6. Cardinality(outstanding \cup gone)
            = Cardinality(outstanding) + Cardinality(gone) - Cardinality({})
      BY <1>5, <2>4, <2>5, FS_Union
    <2>7. Cardinality(gone) \in Nat /\ Cardinality({}) = 0 /\ Len(delivered) \in Nat
      BY <2>2, <2>4, FS_CardinalityType, FS_EmptySet
    <2> QED BY <1>5, <2>1, <2>3, <2>4, <2>5, <2>6, <2>7
  <1> QED BY <1>1, <1>5, <1>6, <1>7

(***************************************************************************)
(* What pop_next() removes.                                                *)
(***************************************************************************)
\* A bucket loses a prefix, and what is left keeps its order.
LEMMA RemainingSuffix ==
  ASSUME NEW s \in Seq(Request), NEW n \in Nat, NEW b \in Nat
  PROVE  LET k == IF n <= b THEN 0 ELSE IF n - b >= Len(s) THEN Len(s) ELSE n - b
             t == Remaining(s, n, b)
         IN  /\ Elements(t) = {s[i] : i \in k + 1 .. Len(s)}
             /\ InOrder(s) => InOrder(t)
  <1> DEFINE k == IF n <= b THEN 0 ELSE IF n - b >= Len(s) THEN Len(s) ELSE n - b
             t == Remaining(s, n, b)
  <1>1. Len(s) \in Nat /\ k \in 0 .. Len(s) /\ DOMAIN s = 1 .. Len(s)
    BY LenProperties
  <1>2. /\ DOMAIN t = 1 .. Len(s) - k
        /\ \A i \in 1 .. Len(s) - k : t[i] = s[k + i]
    <2>1. CASE n <= b
      BY <1>1, <2>1 DEF Remaining
    <2>2. CASE ~ (n <= b) /\ n - b >= Len(s)
      <3>1. k = Len(s) /\ t = <<>>
        BY <2>2 DEF Remaining, Drop
      <3> HIDE DEF k, t
      <3>2. DOMAIN t = 1 .. 0 /\ Len(s) - k = 0
        BY <1>1, <3>1
      <3> QED BY <3>2
    <2>3. CASE ~ (n <= b) /\ ~ (n - b >= Len(s))
      <3>1. k = n - b /\ t = SubSeq(s, k + 1, Len(s)) /\ k + 1 \in 1 .. Len(s)
        <4>1. ~ (n - b >= Len(s)) /\ k = n - b /\ t = SubSeq(s, n - b + 1, Len(s))
          BY <2>3 DEF Remaining, Drop
        <4> HIDE DEF k, t
        <4> QED BY <1>1, <2>3, <4>1
      <3> HIDE DEF k, t
      <3> DEFINE m == k + 1
      <3>2. m \in Int /\ \A i \in m .. Len(s) : s[i] \in Request
        BY <1>1, <3>1, ElementOfSeq
      <3> HIDE DEF m
      <3>3. /\ SubSeq(s, m, Len(s)) \in Seq(Request)
            /\ Len(SubSeq(s, m, Len(s))) = IF m <= Len(s) THEN Len(s) - m + 1 ELSE 0
            /\ \A i \in 1 .. Len(s) - m + 1 : SubSeq(s, m, Len(s))[i] = s[m + i - 1]
        BY <1>1, <3>2, SubSeqProperties
      <3>4. t = SubSeq(s, m, Len(s)) /\ Len(s) - m + 1 = Len(s) - k /\ m <= Len(s)
        BY <1>1, <3>1 DEF m
      <3>5. DOMAIN t = 1 .. Len(s) - k
        BY <1>1, <3>3, <3>4, LenProperties
      <3>6. \A i \in 1 .. Len(s) - k : m + i - 1 = k + i
        BY <1>1, <3>1 DEF m
      <3> QED BY <3>3, <3>4, <3>5, <3>6
    <2> QED BY <2>1, <2>2, <2>3
  <1> HIDE DEF k, t
  <1>3. Elements(t) = {s[i] : i \in k + 1 .. Len(s)}
    <2>1. Elements(t) = {s[k + i] : i \in 1 .. Len(s) - k}
      BY <1>2 DEF Elements
    <2>2. \A i \in 1 .. Len(s) - k : k + i \in k + 1 .. Len(s)
      BY <1>1
    <2>3. \A i \in k + 1 .. Len(s) : i - k \in 1 .. Len(s) - k /\ k + (i - k) = i
      BY <1>1
    <2> QED BY <2>1, <2>2, <2>3
  <1>4. InOrder(s) => InOrder(t)
    <2> SUFFICES ASSUME InOrder(s), NEW i \in 1 .. Len(s) - k, NEW j \in 1 .. Len(s) - k, i < j
                 PROVE  t[i].seq < t[j].seq
      BY <1>2 DEF InOrder
    <2>1. k + i \in DOMAIN s /\ k + j \in DOMAIN s /\ k + i < k + j
      BY <1>1
    <2> QED BY <1>2, <2>1 DEF InOrder
  <1> QED BY <1>3, <1>4 DEF k, t

\* pop_next() removes a prefix of the flat order.
LEMMA PopQueued ==
  ASSUME TypeOK, PopNext
  PROVE  /\ queued' = {flat[i] : i \in Popped(flat) + 1 .. Len(flat)}
         /\ InOrder(high) => InOrder(high')
         /\ InOrder(normal) => InOrder(normal')
         /\ InOrder(low) => InOrder(low')
  <1> DEFINE n == Popped(flat)
             H == Len(high)
             N == Len(normal)
             L == Len(low)
             kh == IF n <= 0 THEN 0 ELSE IF n - 0 >= H THEN H ELSE n - 0
             kn == IF n <= H THEN 0 ELSE IF n - H >= N THEN N ELSE n - H
             kl == IF n <= H + N THEN 0 ELSE IF n - (H + N) >= L THEN L ELSE n - (H + N)
  <1>1. /\ high \in Seq(Request) /\ normal \in Seq(Request) /\ low \in Seq(Request)
        /\ H \in Nat /\ N \in Nat /\ L \in Nat /\ Len(flat) = H + N + L
    BY BucketTypes, FlatIndex
  <1>2. n \in 0 .. Len(flat)
    BY FlatType, PoppedType
  <1>3. /\ high' = Remaining(high, n, 0)
        /\ normal' = Remaining(normal, n, H)
        /\ low' = Remaining(low, n, H + N)
    BY DEF PopNext
  <1> HIDE DEF n
  <1>4. /\ Elements(high') = {high[i] : i \in kh + 1 .. H}
        /\ InOrder(high) => InOrder(high')
    BY <1>1, <1>2, <1>3, RemainingSuffix
  <1>5. /\ Elements(normal') = {normal[i] : i \in kn + 1 .. N}
        /\ InOrder(normal) => InOrder(normal')
    BY <1>1, <1>2, <1>3, RemainingSuffix
  <1>6. /\ Elements(low') = {low[i] : i \in kl + 1 .. L}
        /\ InOrder(low) => InOrder(low')
    <2>1. H + N \in Nat
      BY <1>1
    <2> HIDE DEF H, N
    <2> QED BY <1>1, <1>2, <1>3, <2>1, RemainingSuffix
  <1>7. ASSUME NEW i \in n + 1 .. Len(flat) PROVE flat[i] \in queued'
    <2>1. PICK k \in Nat : HighSlot(i, k) \/ NormalSlot(i, k) \/ LowSlot(i, k)
      BY <1>1, <1>2, FlatCases
    <2>2. CASE HighSlot(i, k)
      <3>1. k \in kh + 1 .. H /\ flat[i] = high[k]
        BY <1>1, <1>2, <2>2 DEF HighSlot
      <3> HIDE DEF kh
      <3> QED BY <1>4, <3>1 DEF queued
    <2>3. CASE NormalSlot(i, k)
      <3>1. k \in kn + 1 .. N /\ flat[i] = normal[k]
        BY <1>1, <1>2, <2>3 DEF NormalSlot
      <3> HIDE DEF kn
      <3> QED BY <1>5, <3>1 DEF queued
    <2>4. CASE LowSlot(i, k)
      <3>1. k \in kl + 1 .. L /\ flat[i] = low[k]
        BY <1>1, <1>2, <2>4 DEF LowSlot
      <3> HIDE DEF kl
      <3> QED BY <1>6, <3>1 DEF queued
    <2> QED BY <2>1, <2>2, <2>3, <2>4
  <1>8. \A i \in kh + 1 .. H : \E j \in n + 1 .. Len(flat) : flat[j] = high[i]
    <2> SUFFICES ASSUME NEW i \in kh + 1 .. H
                 PROVE  i \in n + 1 .. Len(flat) /\ flat[i] = high[i]
      OBVIOUS
    <2>1. i \in n + 1 .. Len(flat) /\ i \in 1 .. H
      BY <1>1, <1>2
    <2> QED BY <2>1, FlatIndex
  <1>9. \A i \in kn + 1 .. N : \E j \in n + 1 .. Len(flat) : flat[j] = normal[i]
    <2> SUFFICES ASSUME NEW i \in kn + 1 .. N
                 PROVE  H + i \in n + 1 .. Len(flat) /\ flat[H + i] = normal[i]
      OBVIOUS
    <2>1. H + i \in n + 1 .. Len(flat) /\ i \in 1 .. N
      BY <1>1, <1>2
    <2> QED BY <2>1, FlatIndex
  <1>10. \A i \in kl + 1 .. L : \E j \in n + 1 .. Len(flat) : flat[j] = low[i]
    <2> SUFFICES ASSUME NEW i \in kl + 1 .. L
                 PROVE  H + N + i \in n + 1 .. Len(flat) /\ flat[H + N + i] = low[i]
      OBVIOUS
    <2>1. H + N + i \in n + 1 .. Len(flat) /\ i \in 1 .. L
      BY <1>1, <1>2
    <2> QED BY <2>1, FlatIndex
  <1> HIDE DEF kh, kn, kl, H, N, L
  <1>11. queued' \subseteq {flat[i] : i \in n + 1 .. Len(flat)}
    BY <1>4, <1>5, <1>6, <1>8, <1>9, <1>10 DEF queued
  <1> QED BY <1>4, <1>5, <1>6, <1>7, <1>11 DEF n

\* With distinct ids, the slots that pop_next() skips are the cancelled ones.
LEMMA PopSkips ==
  ASSUME TypeOK, IdsUnique, BucketsInOrder, Accounted
  PROVE  LET n == Popped(flat)
         IN  /\ \A i \in 1 .. Len(flat) : Skipped(flat, i) <=> flat[i] \in revoked
             /\ \A i \in 1 .. n : i \in Poppable(flat) => i = n
             /\ Poppable(flat) # {} => flat[n] \in queued \ revoked /\ n \in 1 .. Len(flat)
  <1> DEFINE n == Popped(flat)
  <1>0. Len(flat) \in Nat /\ DOMAIN flat = 1 .. Len(flat)
    BY FlatIndex
  <1>1. \A i \in 1 .. Len(flat) : flat[i] \in queued
    BY <1>0, FlatElements DEF Elements
  <1>2. \A r, s \in queued : r.id = s.id => r = s
    BY DEF IdsUnique, Accounted
  <1>3. \A r \in queued : r.id \in cancelled <=> r \in revoked
    BY <1>2 DEF Accounted
  <1>4. \A i \in 1 .. Len(flat) : Skipped(flat, i) <=> flat[i] \in revoked
    <2> SUFFICES ASSUME NEW i \in 1 .. Len(flat)
                 PROVE  Skipped(flat, i) <=> flat[i] \in revoked
      OBVIOUS
    <2>1. \A j \in 1 .. i - 1 : j \in 1 .. Len(flat) /\ j # i
      BY <1>0
    <2>2. \A j \in 1 .. i - 1 : flat[j].id # flat[i].id
      BY <1>0, <1>1, <1>2, <2>1, FlatInOrder DEF OneToOne
    <2> QED BY <1>1, <1>3, <2>2 DEF Skipped
  <1>5. \A i \in 1 .. n : i \in Poppable(flat) => i = n
    <2> SUFFICES ASSUME NEW i \in 1 .. n, i \in Poppable(flat) PROVE i = n
      OBVIOUS
    <2>1. /\ n = CHOOSE j \in Poppable(flat) : \A k \in Poppable(flat) : j <= k
          /\ Poppable(flat) # {} /\ Poppable(flat) \in SUBSET Nat
      BY DEF Popped, Poppable
    <2> HIDE DEF n
    <2>2. n <= i /\ n \in Nat
      <3>1. \E j \in Poppable(flat) : \A k \in Poppable(flat) : j <= k
        BY <2>1, LeastNatural
      <3>2. n \in Poppable(flat) /\ \A k \in Poppable(flat) : n <= k
        BY <2>1, <3>1
      <3> QED BY <2>1, <3>2
    <2> QED BY <2>2
  <1>6. ASSUME Poppable(flat) # {} PROVE flat[n] \in queued \ revoked /\ n \in 1 .. Len(flat)
    <2>1. n \in Poppable(flat) /\ n \in 1 .. Len(flat)
      BY <1>6, FlatType, PoppedType
    <2> QED BY <1>1, <1>4, <2>1 DEF Poppable
  <1> QED BY <1>4, <1>5, <1>6

(***************************************************************************)
(* QueueInv is inductive when ids are not reused.                          *)
(***************************************************************************)
LEMMA QueueInit == Init => QueueInv
  <1> SUFFICES ASSUME Init PROVE QueueInv
    OBVIOUS
  <1> USE DEF Init
  <1>1. \A s : s = <<>> => Elements(s) = {} /\ InOrder(s) /\ OneToOne(s)
    BY DEF Elements, InOrder, OneToOne
  <1>2. queued = {} /\ Elements(accepted) = {} /\ Elements(delivered) = {} /\ submitting = {}
    BY <1>1 DEF queued, submitting, Idle
  <1>3. IdsUnique
    BY <1>2 DEF IdsUnique
  <1>4. BucketsInOrder
    BY <1>1 DEF BucketsInOrder
  <1>5. Accounted
    BY <1>1, <1>2 DEF Accounted
  <1>6. len <= Capacity
    BY FS_EmptySet, SchedulerAssumption DEF len, physical
  <1> QED BY <1>3, <1>4, <1>5, <1>6 DEF QueueInv

\* LenCounts, of this state and of the next one.
LEMMA LenCountsHere ==
  TypeOK /\ IdsUnique /\ BucketsInOrder /\ Accounted =>
    /\ IsFiniteSet(outstanding) /\ Cardinality(outstanding) \in Nat
    /\ len = Cardinality(outstanding)
  BY LenCounts

\* The length counts the outstanding requests after the step, too.
LEMMA LenCountsNext ==
  (TypeOK /\ IdsUnique /\ BucketsInOrder /\ Accounted)' =>
    (/\ IsFiniteSet(outstanding) /\ Cardinality(outstanding) \in Nat
     /\ len = Cardinality(outstanding))'
  BY LenCountsHere, PTL

\* A step that leaves the queue alone keeps the ids unique unless it starts a
\* submission, and a submission starts with an id that nobody has used.
LEMMA QueueFrame ==
  ASSUME QueueInv, UNCHANGED <<buckets, history>>,
         \A t \in Callers : caller'[t].op = "submit_lock" =>
            \/ caller'[t] = caller[t]
            \/ /\ \A r \in Elements(accepted) : r.id # caller'[t].id
               /\ \A u \in Callers \ {t} : caller'[u] = caller[u]
               /\ \A u \in Callers : caller[u].op = "submit_lock" => caller[u].id # caller'[t].id
  PROVE  QueueInv'
  <1> USE DEF buckets, history
  <1>1. BucketsInOrder' /\ Accounted' /\ (len <= Capacity)'
    BY DEF QueueInv, BucketsInOrder, Accounted, queued, len, physical
  <1>2. IdsUnique'
    BY DEF QueueInv, IdsUnique, submitting
  <1> QED BY <1>1, <1>2 DEF QueueInv

\* A push adds a request that was never accepted before.
LEMMA QueuePush ==
  ASSUME TypeOK, TypeOK', QueueInv, NEW t \in Callers, SubmitPush(t)
  PROVE  /\ QueueInv'
         /\ LET r == [id |-> caller[t].id, priority |-> caller[t].priority,
                      seq |-> Len(accepted) + 1]
            IN  r \in Request /\ r \notin Elements(accepted)
  <1> DEFINE r == [id |-> caller[t].id, priority |-> caller[t].priority,
                   seq |-> Len(accepted) + 1]
  <1>0. /\ caller[t].id \in Ids /\ caller[t].priority \in Priority
        /\ caller[t].op = "submit_lock" /\ t \in submitting
    BY CallerStateType DEF SubmitPush, TypeOK, submitting
  <1>1. /\ r \in Request /\ r \in RequestAt(r.priority) /\ r.id = caller[t].id
        /\ r.seq = Len(accepted) + 1 /\ Len(accepted) \in Nat
        /\ r.priority \in {"High", "Normal", "Low"}
    BY <1>0, BucketTypes DEF Request, RequestAt, Priority
  <1>2. /\ known' = known \cup {r.id}
        /\ high' = IF r.priority = "High" THEN Append(high, r) ELSE high
        /\ normal' = IF r.priority = "Normal" THEN Append(normal, r) ELSE normal
        /\ low' = IF r.priority = "Low" THEN Append(low, r) ELSE low
        /\ accepted' = Append(accepted, r)
        /\ caller' = [caller EXCEPT ![t] = [op |-> "submit_notify"]]
        /\ UNCHANGED <<cancelled, delivered, revoked>>
        /\ len < Capacity
    BY DEF SubmitPush
  <1> HIDE DEF r
  <1>3. \A x \in Elements(accepted) : x.id # r.id
    BY <1>0, <1>1 DEF QueueInv, IdsUnique
  <1>4. r \notin Elements(accepted)
    BY <1>3
  <1>5. Elements(accepted') = Elements(accepted) \cup {r}
    BY <1>1, <1>2, BucketTypes, ElementsAppend
  <1>6. IdsUnique'
    <2>1. submitting' = submitting \ {t}
          /\ \A u \in submitting' : caller'[u] = caller[u]
      BY <1>2 DEF submitting, TypeOK
    <2>2. \A u \in submitting' : caller[u].id # r.id
      BY <1>0, <1>1, <2>1 DEF QueueInv, IdsUnique
    <2> QED BY <1>3, <1>5, <2>1, <2>2 DEF QueueInv, IdsUnique
  <1>7. \A x \in queued : x \in Elements(accepted) /\ x.seq < r.seq
    <2>1. queued \subseteq Elements(accepted)
      BY DEF QueueInv, Accounted
    <2>2. \A x \in Elements(accepted) : x.seq < r.seq
      <3>1. DOMAIN accepted = 1 .. Len(accepted)
        BY BucketTypes, LenProperties
      <3>2. \A i \in 1 .. Len(accepted) : accepted[i].seq = i
        BY <3>1 DEF QueueInv, BucketsInOrder
      <3>3. r.seq = Len(accepted) + 1 /\ Len(accepted) \in Nat
        BY <1>1
      <3> SUFFICES ASSUME NEW i \in 1 .. Len(accepted) PROVE accepted[i].seq < r.seq
        BY <3>1 DEF Elements
      <3> QED BY <3>2, <3>3
    <2> QED BY <2>1, <2>2
  <1>8. /\ InOrder(high) /\ InOrder(normal) /\ InOrder(low)
        /\ \A i \in DOMAIN accepted : accepted[i].seq = i
    BY DEF QueueInv, BucketsInOrder
  <1>9. ASSUME NEW s \in {high, normal, low}
        PROVE  Elements(Append(s, r)) = Elements(s) \cup {r} /\ InOrder(Append(s, r))
    <2>1. s \in Seq(Request) /\ InOrder(s) /\ \A x \in Elements(s) : x.seq < r.seq
      BY <1>7, <1>8, <1>9, BucketTypes DEF queued
    <2> QED BY <1>1, <2>1, ElementsAppend
  <1>10. queued' = queued \cup {r} /\ InOrder(high') /\ InOrder(normal') /\ InOrder(low')
    <2>1. CASE r.priority = "High"
      BY <1>2, <1>8, <1>9, <2>1 DEF queued
    <2>2. CASE r.priority = "Normal"
      BY <1>2, <1>8, <1>9, <2>2 DEF queued
    <2>3. CASE r.priority = "Low"
      BY <1>2, <1>8, <1>9, <2>3 DEF queued
    <2> QED BY <1>1, <2>1, <2>2, <2>3
  <1>11. BucketsInOrder'
    <2>1. \A i \in DOMAIN accepted' : accepted'[i].seq = i
      <3>1. /\ DOMAIN accepted = 1 .. Len(accepted) /\ DOMAIN accepted' = 1 .. Len(accepted) + 1
            /\ \A i \in 1 .. Len(accepted) : accepted'[i] = accepted[i]
            /\ accepted'[Len(accepted) + 1] = r
        BY <1>1, <1>2, BucketTypes, AppendProperties, LenProperties
      <3> QED BY <1>1, <1>8, <3>1
    <2> QED BY <1>10, <2>1 DEF BucketsInOrder
  <1>12. Accounted'
    <2>1. r \notin Elements(delivered) /\ r \notin revoked
      BY <1>4 DEF QueueInv, Accounted
    <2> QED BY <1>2, <1>5, <1>10, <2>1 DEF QueueInv, Accounted
  <1>13. (len <= Capacity)'
    <2>1. outstanding' = outstanding \cup {r}
      BY <1>2, <1>4, <1>5 DEF outstanding, QueueInv, Accounted
    <2>2. /\ IsFiniteSet(outstanding) /\ Cardinality(outstanding) \in Nat
          /\ Cardinality(outstanding) = len
      BY LenCountsHere DEF QueueInv
    <2>3. len' = Cardinality(outstanding')
      BY <1>6, <1>11, <1>12, LenCountsNext
    <2>4. Cardinality(outstanding \cup {r}) <= Cardinality(outstanding) + 1
          /\ Cardinality(outstanding \cup {r}) \in Nat
      <3>1. /\ IsFiniteSet(outstanding \cup {r})
            /\ Cardinality(outstanding \cup {r})
                 = IF r \in outstanding THEN Cardinality(outstanding)
                                        ELSE Cardinality(outstanding) + 1
        BY <2>2, FS_AddElement, Zenon
      <3> QED BY <2>2, <3>1
    <2>5. Cardinality(outstanding') = Cardinality(outstanding \cup {r})
      BY <2>1, Zenon
    <2>6. len' <= len + 1 /\ len' \in Nat /\ len \in Nat
      BY <2>2, <2>3, <2>4, <2>5
    <2> QED BY <1>2, <2>6, SchedulerAssumption
  <1> QED BY <1>1, <1>4, <1>6, <1>11, <1>12, <1>13 DEF QueueInv, r

\* A cancel revokes exactly the outstanding requests of its id.
LEMMA QueueMark ==
  ASSUME TypeOK, TypeOK', QueueInv, NEW t \in Callers, CancelMark(t)
  PROVE  /\ QueueInv'
         /\ revoked' = revoked \cup {r \in outstanding : r.id = caller[t].id}
  <1> DEFINE id == caller[t].id
             marked == {r \in queued : r.id = id}
  <1>1. /\ cancelled' = cancelled \cup {id}
        /\ revoked' = revoked \cup marked
        /\ UNCHANGED <<high, normal, low, known, accepted, delivered>>
        /\ id \in known
    BY FlatElements DEF CancelMark
  <1>2. queued' = queued /\ BucketsInOrder'
    BY <1>1 DEF QueueInv, BucketsInOrder, queued
  <1>3. /\ Elements(accepted) = queued \cup Elements(delivered) \cup revoked
        /\ queued \cap Elements(delivered) = {} /\ revoked \cap Elements(delivered) = {}
        /\ known = {r.id : r \in queued} /\ cancelled = {r.id : r \in queued \cap revoked}
        /\ \A r, s \in Elements(accepted) : r.id = s.id => r = s
    BY DEF QueueInv, Accounted, IdsUnique
  <1>4. revoked' = revoked \cup {r \in outstanding : r.id = id}
    BY <1>1, <1>3 DEF outstanding
  <1>5. IdsUnique'
    <2>1. submitting' = submitting \ {t} /\ \A u \in submitting' : caller'[u] = caller[u]
      BY DEF CancelMark, submitting, TypeOK, Idle
    <2> QED BY <1>1, <2>1 DEF QueueInv, IdsUnique
  <1>6. Accounted'
    <2>1. /\ Elements(accepted) = queued \cup Elements(delivered) \cup (revoked \cup marked)
          /\ (revoked \cup marked) \cap Elements(delivered) = {}
      BY <1>3
    <2>2. PICK r \in queued : r.id = id
      BY <1>1, <1>3
    <2>3. cancelled \cup {id} = {s.id : s \in queued \cap (revoked \cup marked)}
      <3>1. r \in queued \cap (revoked \cup marked)
        BY <2>2
      <3>2. \A s \in queued \cap (revoked \cup marked) : s \in queued \cap revoked \/ s.id = id
        OBVIOUS
      <3>3. cancelled = {s.id : s \in queued \cap revoked}
        BY <1>3
      <3> HIDE DEF id, marked
      <3> QED BY <2>2, <3>1, <3>2, <3>3
    <2> QED BY <1>1, <1>2, <2>1, <2>3 DEF QueueInv, Accounted
  <1>7. (len <= Capacity)'
    <2>1. outstanding' \in SUBSET outstanding
      BY <1>1 DEF outstanding
    <2>2. /\ IsFiniteSet(outstanding) /\ Cardinality(outstanding) \in Nat
          /\ Cardinality(outstanding) = len
      BY LenCountsHere DEF QueueInv
    <2>3. len' = Cardinality(outstanding') /\ Cardinality(outstanding') \in Nat
      BY <1>2, <1>5, <1>6, LenCountsNext
    <2>4. Cardinality(outstanding') <= Cardinality(outstanding) /\ len <= Capacity
      BY <2>1, <2>2, FS_Subset DEF QueueInv
    <2> QED BY <2>2, <2>3, <2>4, SchedulerAssumption
  <1> QED BY <1>2, <1>4, <1>5, <1>6, <1>7 DEF QueueInv

\* pop_next(), with or without an item to hand out.
LEMMA QueuePop ==
  ASSUME TypeOK, TypeOK', QueueInv, PopNext, UNCHANGED <<caller, accepted, revoked>>,
         \/ Poppable(flat) # {} /\ delivered' = Append(delivered, flat[Popped(flat)])
         \/ Poppable(flat) = {} /\ delivered' = delivered
  PROVE  QueueInv'
  <1> DEFINE n == Popped(flat)
             gone == {flat[i] : i \in 1 .. n}
  <1>0. Len(flat) \in Nat /\ DOMAIN flat = 1 .. Len(flat) /\ n \in 0 .. Len(flat)
    BY FlatIndex, FlatType, PoppedType
  <1>1. /\ Elements(accepted) = queued \cup Elements(delivered) \cup revoked
        /\ queued \cap Elements(delivered) = {} /\ revoked \cap Elements(delivered) = {}
        /\ known = {r.id : r \in queued} /\ cancelled = {r.id : r \in queued \cap revoked}
        /\ \A r, s \in Elements(accepted) : r.id = s.id => r = s
        /\ OneToOne(delivered)
    BY DEF QueueInv, Accounted, IdsUnique
  <1>2. /\ cancelled' = cancelled \ {r.id : r \in gone}
        /\ known' = known \ {r.id : r \in gone}
    BY DEF PopNext
  <1>3. queued = {flat[i] : i \in 1 .. Len(flat)} /\ gone \subseteq queued
    BY <1>0, FlatElements DEF Elements
  <1>4. queued' = queued \ gone
    <2>1. queued' = {flat[i] : i \in n + 1 .. Len(flat)}
      BY PopQueued
    <2>2. \A i, j \in 1 .. Len(flat) : flat[i] = flat[j] => i = j
      BY <1>0, FlatInOrder DEF QueueInv, OneToOne
    <2> HIDE DEF n
    <2>3. \A i \in 1 .. Len(flat) : i \in 1 .. n \/ i \in n + 1 .. Len(flat)
      BY <1>0
    <2>4. \A i \in 1 .. n, j \in n + 1 .. Len(flat) :
            i \in 1 .. Len(flat) /\ j \in 1 .. Len(flat) /\ i # j
      BY <1>0
    <2>5. \A i \in 1 .. n, j \in n + 1 .. Len(flat) : flat[i] # flat[j]
      BY <2>2, <2>4
    <2>6. queued' \subseteq queued \ gone
      <3> SUFFICES ASSUME NEW j \in n + 1 .. Len(flat)
                   PROVE  flat[j] \in queued /\ \A i \in 1 .. n : flat[i] # flat[j]
        BY <2>1
      <3>1. j \in 1 .. Len(flat)
        BY <1>0
      <3> QED BY <1>3, <2>5, <3>1
    <2>7. queued \ gone \subseteq queued'
      BY <1>3, <2>1, <2>3
    <2> QED BY <2>6, <2>7
  \* What leaves the buckets was cancelled, or is what next() returns.
  <1>5. /\ \A r \in gone : r \in revoked \/ (Poppable(flat) # {} /\ r = flat[n])
        /\ Poppable(flat) # {} => flat[n] \in gone /\ flat[n] \notin revoked
    <2>1. /\ \A i \in 1 .. Len(flat) : Skipped(flat, i) <=> flat[i] \in revoked
          /\ \A i \in 1 .. n : i \in Poppable(flat) => i = n
          /\ Poppable(flat) # {} => flat[n] \in queued \ revoked /\ n \in 1 .. Len(flat)
      BY PopSkips DEF QueueInv
    <2> HIDE DEF n
    <2>2. \A i \in 1 .. n : i \in 1 .. Len(flat)
      BY <1>0
    <2>3. \A i \in 1 .. n : flat[i] \in revoked \/ i \in Poppable(flat)
      BY <2>1, <2>2 DEF Poppable
    <2>4. \A r \in gone : r \in revoked \/ (Poppable(flat) # {} /\ r = flat[n])
      BY <2>1, <2>3
    <2>5. Poppable(flat) # {} => n \in 1 .. n
      BY <1>0, <2>1
    <2> QED BY <2>1, <2>4, <2>5
  <1> HIDE DEF gone
  <1>6. IdsUnique'
    BY DEF QueueInv, IdsUnique, submitting
  <1>7. BucketsInOrder'
    BY PopQueued DEF QueueInv, BucketsInOrder
  <1>8. known' = {r.id : r \in queued'} /\ cancelled' = {r.id : r \in queued' \cap revoked}
    <2>1. \A r \in queued, s \in gone : r.id = s.id => r = s
      BY <1>1, <1>3
    <2>2. {r.id : r \in queued} \ {r.id : r \in gone} = {r.id : r \in queued \ gone}
      BY <1>3, <2>1
    <2>3. {r.id : r \in queued \cap revoked} \ {r.id : r \in gone}
            = {r.id : r \in (queued \ gone) \cap revoked}
      BY <1>3, <2>1
    <2> QED BY <1>1, <1>2, <1>4, <2>2, <2>3
  <1>9. CASE Poppable(flat) = {} /\ delivered' = delivered
    <2>1. gone \subseteq revoked
      BY <1>5, <1>9
    <2>2. Accounted'
      BY <1>1, <1>4, <1>8, <1>9, <2>1 DEF Accounted
    <2>3. (len <= Capacity)'
      BY <1>6, <1>7, <2>2, <1>9, LenCountsHere, LenCountsNext DEF QueueInv, outstanding
    <2> QED BY <1>6, <1>7, <2>2, <2>3 DEF QueueInv
  <1>10. CASE Poppable(flat) # {} /\ delivered' = Append(delivered, flat[n])
    <2> DEFINE r == flat[n]
    <2>1. r \in gone /\ r \in queued /\ r \notin revoked /\ \A s \in gone : s \in revoked \/ s = r
      BY <1>3, <1>5, <1>10
    <2>2. r \in Request
      BY <1>1, <2>1, BucketTypes, ElementsType
    <2> HIDE DEF r
    <2>3. delivered' = Append(delivered, r)
      BY <1>10 DEF r
    <2>4. Elements(delivered') = Elements(delivered) \cup {r} /\ OneToOne(delivered')
      BY <1>1, <2>1, <2>2, <2>3, BucketTypes, ElementsAppend
    <2>5. Accounted'
      <3>1. Elements(accepted) = (queued \ gone) \cup (Elements(delivered) \cup {r}) \cup revoked
        BY <1>1, <1>3, <2>1
      <3>2. /\ (queued \ gone) \cap (Elements(delivered) \cup {r}) = {}
            /\ revoked \cap (Elements(delivered) \cup {r}) = {}
        BY <1>1, <2>1
      <3> QED BY <1>4, <1>8, <2>4, <3>1, <3>2 DEF Accounted
    <2>6. (len <= Capacity)'
      <3>1. outstanding' \in SUBSET outstanding
        BY <2>4 DEF outstanding
      <3>2. /\ IsFiniteSet(outstanding) /\ Cardinality(outstanding) \in Nat
            /\ Cardinality(outstanding) = len
        BY LenCountsHere DEF QueueInv
      <3>3. len' = Cardinality(outstanding') /\ Cardinality(outstanding') \in Nat
        BY <1>6, <1>7, <2>5, LenCountsNext
      <3>4. Cardinality(outstanding') <= Cardinality(outstanding) /\ len <= Capacity
        BY <3>1, <3>2, FS_Subset DEF QueueInv
      <3> QED BY <3>2, <3>3, <3>4, SchedulerAssumption
    <2> QED BY <1>6, <1>7, <2>5, <2>6 DEF QueueInv
  <1> QED BY <1>9, <1>10

\* Every step keeps the queue invariant when no id is used again.
LEMMA QueueNext ==
  ASSUME ReuseIds = FALSE, TypeOK, TypeOK', QueueInv, [Next]_vars
  PROVE  QueueInv'
  <1>0. caller \in [Callers -> CallerState]
    BY DEF TypeOK
  \* A step that leaves the queue alone and starts no submission.
  <1>f. ASSUME UNCHANGED <<buckets, history>>,
               \A t \in Callers : caller'[t].op = "submit_lock" => caller'[t] = caller[t]
        PROVE  QueueInv'
    BY <1>f, QueueFrame
  <1>1. ASSUME NEW t \in Callers, NEW id \in Ids, NEW p \in Priority, SubmitCheck(t, id, p)
        PROVE  QueueInv'
    <2>1. /\ UNCHANGED <<buckets, history>>
          /\ caller' = [caller EXCEPT ![t] = [op |-> "submit_lock", id |-> id, priority |-> p]]
          /\ \A r \in Elements(accepted) : r.id # id
          /\ \A u \in Callers : caller[u].op = "submit_lock" => caller[u].id # id
      BY <1>1 DEF SubmitCheck, Fresh
    <2> QED BY <1>0, <2>1, QueueFrame
  <1>2. ASSUME NEW t \in Callers, NEW id \in Ids, CancelCheck(t, id) PROVE QueueInv'
    BY <1>0, <1>2, <1>f DEF CancelCheck
  <1>3. ASSUME NEW t \in Callers, ShutdownStore(t) PROVE QueueInv'
    BY <1>0, <1>3, <1>f DEF ShutdownStore
  <1>4. ASSUME NEW t \in Callers, CallerStep(t) PROVE QueueInv'
    <2>1. CASE SubmitQueueFull(t)
      BY <1>0, <1>f, <2>1 DEF SubmitQueueFull, Idle
    <2>2. CASE SubmitPush(t)
      BY <2>2, QueuePush
    <2>3. CASE SubmitNotify(t)
      BY <1>0, <1>f, <2>3 DEF SubmitNotify, Idle
    <2>4. CASE CancelNotFound(t)
      BY <1>0, <1>f, <2>4 DEF CancelNotFound, Idle
    <2>5. CASE CancelMark(t)
      BY <2>5, QueueMark
    <2>6. CASE ShutdownNotify(t)
      BY <1>0, <1>f, <2>6 DEF ShutdownNotify, Idle
    <2> QED BY <1>4, <2>1, <2>2, <2>3, <2>4, <2>5, <2>6 DEF CallerStep
  <1>5. ASSUME NEW c \in Consumers, ConsumerStep(c) PROVE QueueInv'
    <2>1. CASE NextTake(c)
      BY <2>1, QueuePop DEF NextTake
    <2>2. CASE NextEmpty(c)
      BY <2>2, QueuePop DEF NextEmpty, history
    <2>3. CASE NextCreate(c) \/ NextPoll(c) \/ NextWake(c)
      BY <1>f, <2>3 DEF NextCreate, NextPoll, NextWake
    <2> QED BY <1>5, <2>1, <2>2, <2>3 DEF ConsumerStep
  <1>6. ASSUME NEW c \in Consumers, NextTimeout(c) PROVE QueueInv'
    BY <1>6, <1>f DEF NextTimeout
  <1>7. CASE UNCHANGED vars
    BY <1>7, <1>f DEF vars
  <1> QED BY <1>1, <1>2, <1>3, <1>4, <1>5, <1>6, <1>7 DEF Next

\* When no caller reuses an id, the buckets, the skip-set and the history agree
\* in every reachable state: submit(), cancel() and the pop under the lock keep
\* every accepted request queued, handed out or revoked, once.
THEOREM SchedulerQueueInvariant ==
  ASSUME ReuseIds = FALSE
  PROVE  Spec => [](TypeOK /\ QueueInv)
  <1>1. Init => TypeOK /\ QueueInv
    BY TypeInit, QueueInit
  <1>2. TypeOK /\ QueueInv /\ [Next]_vars => (TypeOK /\ QueueInv)'
    BY TypeNext, QueueNext
  <1> QED BY <1>1, <1>2, PTL DEF Spec

\* While no id is submitted twice, len() is the number of accepted requests
\* that next() has not returned and nobody has cancelled, and never above the
\* capacity: the lazy removal of cancelled items never makes the subtraction
\* in Buckets::len() count one twice.
THEOREM SchedulerLenIsOutstanding ==
  ASSUME ReuseIds = FALSE
  PROVE  Spec => []LenIsOutstanding
  <1>1. TypeOK /\ QueueInv => LenIsOutstanding
    BY LenCountsHere DEF QueueInv, LenIsOutstanding
  <1> QED BY <1>1, SchedulerQueueInvariant, PTL

(***************************************************************************)
(* Refinement: each step of the scheduler is a step of the abstract queue  *)
(* or leaves what the queue promises unchanged.                            *)
(***************************************************************************)
LEMMA RefineInit == Init => PQ!Init
  BY DEF Init, PQ!Init, outstanding, Elements

\* A step that pushes, cancels and hands out nothing is a stutter.
LEMMA RefineStutter == UNCHANGED history => UNCHANGED PQ!queueVars
  BY DEF history, PQ!queueVars, outstanding

\* A push is the abstract queue's submission.
LEMMA RefinePush ==
  ASSUME TypeOK, TypeOK', QueueInv, NEW t \in Callers, SubmitPush(t)
  PROVE  PQ!Submit(caller[t].id, caller[t].priority)
  <1> DEFINE r == [id |-> caller[t].id, priority |-> caller[t].priority,
                   seq |-> Len(accepted) + 1]
  <1>1. r \in Request /\ r \notin Elements(accepted)
    BY QueuePush
  <1>2. /\ accepted' = Append(accepted, r) /\ UNCHANGED <<delivered, revoked>>
        /\ len < Capacity
    BY DEF SubmitPush
  <1>3. outstanding' = outstanding \cup {r}
    <2>1. Elements(accepted') = Elements(accepted) \cup {r}
      BY <1>1, <1>2, BucketTypes, ElementsAppend
    <2>2. r \notin Elements(delivered) /\ r \notin revoked
      BY <1>1 DEF QueueInv, Accounted
    <2> QED BY <1>2, <2>1, <2>2 DEF outstanding
  <1>4. /\ len = Cardinality(outstanding)
        /\ Len(accepted) = Cardinality(outstanding) + Len(delivered) + Cardinality(revoked)
    BY LenCounts DEF QueueInv
  <1>5. r = [id |-> caller[t].id, priority |-> caller[t].priority,
             seq |-> Cardinality(outstanding) + Len(delivered) + Cardinality(revoked) + 1]
    BY <1>4
  <1> HIDE DEF r
  <1>6. Cardinality(outstanding) < Capacity
    BY <1>2, <1>4
  <1>7. outstanding' = outstanding \cup
          {[id |-> caller[t].id, priority |-> caller[t].priority,
            seq |-> Cardinality(outstanding) + Len(delivered) + Cardinality(revoked) + 1]}
    BY <1>3, <1>5, Zenon
  <1>8. UNCHANGED <<delivered, revoked>>
    BY <1>2
  <1>9. \A S : PQ!Cardinality(S) = Cardinality(S)
    BY DEF PQ!Cardinality, Cardinality
  <1> QED BY <1>6, <1>7, <1>8, <1>9 DEF PQ!Submit

\* A cancel is its withdrawal, or changes nothing the queue promises.
LEMMA RefineMark ==
  ASSUME TypeOK, TypeOK', QueueInv, NEW t \in Callers, CancelMark(t)
  PROVE  PQ!Withdraw(caller[t].id) \/ UNCHANGED PQ!queueVars
  <1> DEFINE id == caller[t].id
             gone == {r \in outstanding : r.id = id}
  <1>1. revoked' = revoked \cup gone /\ UNCHANGED <<accepted, delivered>>
    BY QueueMark DEF CancelMark
  <1>2. outstanding' = outstanding \ gone
    BY <1>1 DEF outstanding
  <1>3. CASE gone = {}
    BY <1>1, <1>2, <1>3 DEF PQ!queueVars
  <1>4. CASE gone # {}
    BY <1>1, <1>2, <1>4 DEF PQ!Withdraw
  <1> QED BY <1>3, <1>4

\* A pop is its hand-out of the most urgent and oldest request.
LEMMA RefineTake ==
  ASSUME TypeOK, QueueInv, NEW c \in Consumers, NextTake(c)
  PROVE  \E r \in outstanding : PQ!Take(r)
  <1> DEFINE n == Popped(flat)
             r == flat[n]
  <1>0. DOMAIN flat = 1 .. Len(flat) /\ Len(flat) \in Nat
    BY FlatIndex
  <1>1. /\ Poppable(flat) # {} /\ delivered' = Append(delivered, r)
        /\ UNCHANGED <<accepted, revoked>>
    BY DEF NextTake
  <1>2. outstanding = queued \ revoked
    BY LenCounts DEF QueueInv
  <1>3. /\ \A i \in 1 .. Len(flat) : Skipped(flat, i) <=> flat[i] \in revoked
        /\ \A i \in 1 .. n : i \in Poppable(flat) => i = n
        /\ r \in queued \ revoked /\ n \in 1 .. Len(flat)
    BY <1>1, PopSkips DEF QueueInv
  <1> HIDE DEF n
  <1>4. r \in outstanding /\ r \in Request
    <2>1. r \in Request
      BY <1>3, FlatType, ElementOfSeq
    <2> QED BY <1>2, <1>3, <2>1
  \* Every other outstanding request is in a later slot.
  <1>5. \A s \in outstanding \ {r} : PQ!Precedes(r, s)
    <2> SUFFICES ASSUME NEW s \in outstanding, s # r PROVE PQ!Precedes(r, s)
      OBVIOUS
    <2>1. PICK j \in 1 .. Len(flat) : s = flat[j]
      BY <1>0, <1>2, FlatElements DEF Elements
    <2>2. j \in Poppable(flat) /\ j # n
      BY <1>2, <1>3, <2>1 DEF Poppable
    <2>3. n < j
      BY <1>0, <1>3, <2>2
    <2> QED BY <1>3, <2>1, <2>3, FlatInOrder DEF QueueInv
  <1>6. outstanding' = outstanding \ {r}
    <2> HIDE DEF r
    <2>1. Elements(delivered') = Elements(delivered) \cup {r}
      BY <1>1, <1>4, BucketTypes, ElementsAppend
    <2> QED BY <1>1, <2>1 DEF outstanding
  <1> QED BY <1>1, <1>4, <1>5, <1>6 DEF PQ!Take

\* Every step is a step of the abstract queue or a stutter.
LEMMA RefineNext ==
  ASSUME TypeOK, TypeOK', QueueInv, [Next]_vars
  PROVE  [PQ!Next]_PQ!queueVars
  <1>1. ASSUME NEW t \in Callers, NEW id \in Ids, NEW p \in Priority, SubmitCheck(t, id, p)
        PROVE  [PQ!Next]_PQ!queueVars
    BY <1>1, RefineStutter DEF SubmitCheck
  <1>2. ASSUME NEW t \in Callers, NEW id \in Ids, CancelCheck(t, id)
        PROVE  [PQ!Next]_PQ!queueVars
    BY <1>2, RefineStutter DEF CancelCheck
  <1>3. ASSUME NEW t \in Callers, ShutdownStore(t) PROVE [PQ!Next]_PQ!queueVars
    BY <1>3, RefineStutter DEF ShutdownStore
  <1>4. ASSUME NEW t \in Callers, CallerStep(t) PROVE [PQ!Next]_PQ!queueVars
    <2>1. CASE SubmitPush(t)
      <3>1. caller[t].id \in Ids /\ caller[t].priority \in {"High", "Normal", "Low"}
        BY <2>1, CallerStateType DEF SubmitPush, TypeOK, Priority
      <3> QED BY <2>1, <3>1, RefinePush DEF PQ!Next
    <2>2. CASE CancelMark(t)
      <3>1. caller[t].id \in Ids
        BY <2>2, CallerStateType DEF CancelMark, TypeOK
      <3> QED BY <2>2, <3>1, RefineMark DEF PQ!Next
    <2>3. CASE SubmitQueueFull(t) \/ SubmitNotify(t) \/ CancelNotFound(t) \/ ShutdownNotify(t)
      BY <2>3, RefineStutter DEF SubmitQueueFull, SubmitNotify, CancelNotFound, ShutdownNotify
    <2> QED BY <1>4, <2>1, <2>2, <2>3 DEF CallerStep
  <1>5. ASSUME NEW c \in Consumers, ConsumerStep(c) PROVE [PQ!Next]_PQ!queueVars
    <2>1. CASE NextTake(c)
      BY <2>1, RefineTake DEF PQ!Next
    <2>2. CASE NextCreate(c) \/ NextEmpty(c) \/ NextPoll(c) \/ NextWake(c)
      BY <2>2, RefineStutter DEF NextCreate, NextEmpty, NextPoll, NextWake
    <2> QED BY <1>5, <2>1, <2>2 DEF ConsumerStep
  <1>6. ASSUME NEW c \in Consumers, NextTimeout(c) PROVE [PQ!Next]_PQ!queueVars
    BY <1>6, RefineStutter DEF NextTimeout
  <1>7. CASE UNCHANGED vars
    BY <1>7, RefineStutter DEF vars
  <1> QED BY <1>1, <1>2, <1>3, <1>4, <1>5, <1>6, <1>7 DEF Next

\* While no id is submitted twice, the scheduler is a bounded priority queue:
\* every behaviour of its threads and tasks, whatever they interleave, is one
\* of PriorityQueue, where a request leaves in the order of priority and
\* submission, once, and never after it was withdrawn.
THEOREM SchedulerImplementsPriorityQueue ==
  ASSUME ReuseIds = FALSE
  PROVE  Spec => ImplementsPriorityQueue
  <1>1. TypeOK /\ TypeOK' /\ QueueInv /\ [Next]_vars => [PQ!Next]_PQ!queueVars
    BY RefineNext
  <1> QED BY <1>1, RefineInit, SchedulerQueueInvariant, PTL
          DEF Spec, ImplementsPriorityQueue, PQ!Spec
=============================================================================
