----------------------------- MODULE MCScheduler -----------------------------
(***************************************************************************)
(* The TLC instance of Scheduler.  One behaviour involves one of four casts *)
(* drawn from the constants, each large in what it is there for: more       *)
(* requests than the queue holds, two threads that race in submit(),        *)
(* cancel() and shutdown(), two tasks that race in next(), and both races   *)
(* over a single request.                                                   *)
(***************************************************************************)
EXTENDS Scheduler

CONSTANTS a, b, d, t1, t2, c1, c2

VARIABLE cast   \* who takes part in this behaviour

Cast(ids, priorities, callers, consumers) ==
    [ids |-> ids, priorities |-> priorities, callers |-> callers, consumers |-> consumers]

Casts ==
    {Cast({a, b, d}, {"High", "Low"}, {t1}, {c1}),
     Cast({a, b}, Priority, {t1, t2}, {c1}),
     Cast({a, b}, Priority, {t1}, {c1, c2}),
     Cast({a}, Priority, {t1, t2}, {c1, c2})}

MCInit == Init /\ cast \in Casts

MCNext ==
    /\ \/ \E t \in cast.callers :
            \/ \E id \in cast.ids, p \in cast.priorities : SubmitCheck(t, id, p)
            \/ \E id \in cast.ids : CancelCheck(t, id)
            \/ ShutdownStore(t)
            \/ CallerStep(t)
       \/ \E c \in cast.consumers : ConsumerStep(c) \/ NextTimeout(c)
    /\ UNCHANGED cast

mcVars == <<vars, cast>>

\* The fairness of Scheduler!LiveSpec, for the tasks of the cast.
MCSpec ==
    /\ MCInit /\ [][MCNext]_mcVars
    /\ \A t \in Callers : WF_mcVars(CallerStep(t) /\ UNCHANGED cast)
    /\ \A c \in Consumers :
         WF_mcVars(c \in cast.consumers /\ ConsumerStep(c) /\ UNCHANGED cast)
=============================================================================
