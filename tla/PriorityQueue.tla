---------------------------- MODULE PriorityQueue ----------------------------
(***************************************************************************)
(* What the scheduler promises its callers: a bounded queue that hands     *)
(* each accepted request out once, High before Normal before Low and in    *)
(* order of submission within a priority, unless it was withdrawn first.   *)
(***************************************************************************)
EXTENDS Integers, Sequences, FiniteSets

CONSTANTS Ids, Capacity

VARIABLES pending, taken, withdrawn

queueVars == <<pending, taken, withdrawn>>

Rank == [High |-> 0, Normal |-> 1, Low |-> 2]

\* Does request r leave before request s?
Precedes(r, s) ==
    \/ Rank[r.priority] < Rank[s.priority]
    \/ Rank[r.priority] = Rank[s.priority] /\ r.seq < s.seq

Init ==
    /\ pending = {}
    /\ taken = <<>>
    /\ withdrawn = {}

Submit(id, p) ==
    /\ Cardinality(pending) < Capacity
    /\ LET n == Cardinality(pending) + Len(taken) + Cardinality(withdrawn) + 1
       IN  pending' = pending \cup {[id |-> id, priority |-> p, seq |-> n]}
    /\ UNCHANGED <<taken, withdrawn>>

Take(r) ==
    /\ \A s \in pending \ {r} : Precedes(r, s)
    /\ pending' = pending \ {r}
    /\ taken' = Append(taken, r)
    /\ UNCHANGED withdrawn

Withdraw(id) ==
    LET gone == {r \in pending : r.id = id}
    IN  /\ gone # {}
        /\ pending' = pending \ gone
        /\ withdrawn' = withdrawn \cup gone
        /\ UNCHANGED taken

Next ==
    \/ \E id \in Ids, p \in {"High", "Normal", "Low"} : Submit(id, p)
    \/ \E r \in pending : Take(r)
    \/ \E id \in Ids : Withdraw(id)

Spec == Init /\ [][Next]_queueVars
=============================================================================
