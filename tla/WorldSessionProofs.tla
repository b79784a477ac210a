-------------------------- MODULE WorldSessionProofs --------------------------
(***************************************************************************)
(* Machine-checked facts about WorldSession, for every finite set of       *)
(* connections and every max_sessions.                                     *)
(***************************************************************************)
EXTENDS WorldSession, FiniteSetTheorems, TLAPS

(***************************************************************************)
(* The inductive invariant.  Its parts say of one connection what its      *)
(* place in the handler implies for the shared state.                      *)
(***************************************************************************)
\* The handlers that hold a slot, and those inside a build of the pipeline.
In(pcs) == {w \in Conns : conn[w].pc \in pcs}
Holders == In(SlotPcs)
Building == In({"build"})

\* Only handlers that found no pipeline build one, so the builds are bounded.
BuildsBounded == pipeline + Cardinality(Building) <= Cardinality(Conns) + 1

\* The places of a call beyond the check for a pipeline.
PipelinePcs == {"reset", "recondition", "infer", "swap_in", "forward", "swap_out", "returned"}
\* The places of a call whose session the pipeline has been asked to keep.
KeptPcs == {"infer", "swap_in", "forward", "swap_out", "returned"}

\* Where a handler is and what it knows of its session.
Lifecycle(w) ==
    /\ conn[w].pc = "await_action" => conn[w].opened
    /\ conn[w].pc \in {"new", "await_reset"} => ~conn[w].opened
    /\ conn[w].pc \in CallPcs => (conn[w].op = "step" <=> conn[w].opened)
    /\ conn[w].pc = "reset" => conn[w].op = "reset"
    /\ conn[w].pc = "recondition" => conn[w].op = "step"

\* Which tables hold the session, given where its handler is.
Residence(w) ==
    /\ w \in sessions =>
          \/ conn[w].pc \in SlotPcs /\ (conn[w].opened \/ conn[w].pc = "returned")
          \/ conn[w].pc = "release"
    /\ \A b \in Builds : <<b, w>> \in caches => b <= pipeline /\ conn[w].pc # "new"
    /\ conn[w].pc = "closed" /\ conn[w].opened => <<pipeline, w>> \notin caches
    /\ conn[w].pc \in PipelinePcs => pipeline >= 1
    /\ conn[w].pc \in KeptPcs /\ pipeline = 1 => <<pipeline, w>> \in caches
    /\ conn[w].pc = "returned" => w \in sessions
    /\ conn[w].opened /\ conn[w].pc \in SlotPcs \cup {"release"} =>
          /\ w \in sessions /\ pipeline >= 1
          /\ pipeline = 1 => <<pipeline, w>> \in caches

\* What the session's attributes hold, in the table and in the head.
OwnContent(w) == Content(w, conn[w].ran)
Isolated(w) ==
    /\ conn[w].used.of \in {w, Nobody}
    /\ swap[w].of \in {w, Nobody}
    /\ conn[w].pc \in {"new", "await_reset"} => conn[w].ran = 0
    /\ conn[w].pc \in {"require", "build", "reset"} /\ conn[w].op = "reset" => conn[w].ran = 0
    /\ conn[w].pc \in {"await_action", "recondition", "infer", "swap_in", "returned"} =>
          swap[w] = OwnContent(w)
    /\ conn[w].pc \in {"require", "build"} /\ conn[w].op = "step" => swap[w] = OwnContent(w)
    /\ conn[w].pc \in {"forward", "swap_out"} => head[conn[w].build] = OwnContent(w)

Inv ==
    /\ TypeOK
    /\ BuildsBounded
    /\ SlotsAreCounted
    /\ \A w \in Conns : Lifecycle(w) /\ Residence(w)
    /\ max_sessions = 1 => \A w \in Conns : Isolated(w)

(***************************************************************************)
(* Counting: what the step of one handler does to a set of handlers.       *)
(***************************************************************************)
\* If only w's place changes, a set of places gains or loses at most w.
LEMMA CountOneMove ==
  ASSUME NEW P, NEW w \in Conns,
         \A v \in Conns \ {w} : conn'[v].pc = conn[v].pc
  PROVE  /\ Cardinality(In(P)) \in Nat /\ Cardinality(In(P)') \in Nat
         /\ (conn[w].pc \in P <=> conn'[w].pc \in P)
               => Cardinality(In(P)') = Cardinality(In(P))
         /\ conn[w].pc \notin P /\ conn'[w].pc \in P
               => Cardinality(In(P)') = Cardinality(In(P)) + 1
         /\ conn[w].pc \in P /\ conn'[w].pc \notin P
               => Cardinality(In(P)') = Cardinality(In(P)) - 1
         /\ Cardinality(In(P)') <= Cardinality(Conns) /\ Cardinality(Conns) \in Nat
  <1> DEFINE A == In(P)
             B == In(P)'
  <1>1. IsFiniteSet(A) /\ IsFiniteSet(B) /\ Cardinality(B) <= Cardinality(Conns)
    <2>1. A \in SUBSET Conns /\ B \in SUBSET Conns
      BY DEF In
    <2> QED BY <2>1, SessionAssumption, FS_Subset
  <1>2. Cardinality(A) \in Nat /\ Cardinality(B) \in Nat /\ Cardinality(Conns) \in Nat
    BY <1>1, SessionAssumption, FS_CardinalityType
  <1>3. /\ (conn[w].pc \in P <=> conn'[w].pc \in P) => B = A
        /\ conn[w].pc \notin P /\ conn'[w].pc \in P => B = A \cup {w} /\ w \notin A
        /\ conn[w].pc \in P /\ conn'[w].pc \notin P => B = A \ {w} /\ w \in A
    BY DEF In
  <1> HIDE DEF A, B
  <1>4. conn[w].pc \notin P /\ conn'[w].pc \in P => Cardinality(B) = Cardinality(A) + 1
    BY <1>1, <1>3, FS_AddElement
  <1>5. conn[w].pc \in P /\ conn'[w].pc \notin P => Cardinality(B) = Cardinality(A) - 1
    BY <1>1, <1>3, FS_RemoveElement
  <1> QED BY <1>1, <1>2, <1>3, <1>4, <1>5 DEF A, B

\* With one slot, two handlers that hold one are the same handler.
LEMMA OneHolder ==
  ASSUME TypeOK, SlotsAreCounted, max_sessions = 1,
         NEW v \in Conns, NEW w \in Conns, conn[v].pc \in SlotPcs, conn[w].pc \in SlotPcs
  PROVE  v = w
  <1> SUFFICES ASSUME v # w PROVE FALSE
    OBVIOUS
  <1>1. {v, w} \in SUBSET Holders /\ Holders \in SUBSET Conns
    BY DEF Holders, In
  <1>2. IsFiniteSet(Holders)
    BY <1>1, SessionAssumption, FS_Subset
  <1>3. Cardinality({v, w}) = 2
    <2>1. IsFiniteSet({v}) /\ Cardinality({v}) = 1
      BY FS_Singleton
    <2>2. {v, w} = {v} \cup {w} /\ w \notin {v}
      OBVIOUS
    <2> QED BY <2>1, <2>2, FS_AddElement
  <1>4. Cardinality(Holders) >= 2
    BY <1>1, <1>2, <1>3, FS_Subset, FS_CardinalityType
  <1>5. Cardinality(Holders) <= 1
    BY DEF SlotsAreCounted, Holders, In
  <1> QED BY <1>2, <1>4, <1>5, FS_CardinalityType

(***************************************************************************)
(* The initial states.                                                     *)
(***************************************************************************)
LEMMA InvInit == Init => Inv
  <1> SUFFICES ASSUME Init PROVE Inv
    OBVIOUS
  <1> USE DEF Init
  <1>1. Cardinality(Conns) \in Nat
    BY SessionAssumption, FS_CardinalityType
  <1>2. TypeOK
    BY <1>1, SessionAssumption
       DEF TypeOK, Fresh, Content, ContentType, Builds, Pcs, SlotPcs, CallPcs
  <1>3. Holders = {} /\ Building = {}
    BY DEF Holders, Building, In, SlotPcs, CallPcs, Fresh
  <1>4. BuildsBounded /\ SlotsAreCounted
    BY <1>1, <1>3, FS_EmptySet, SessionAssumption
       DEF BuildsBounded, SlotsAreCounted, Holders, In
  <1>5. \A w \in Conns : Lifecycle(w) /\ Residence(w)
    BY DEF Lifecycle, Residence, Fresh, CallPcs, SlotPcs, PipelinePcs, KeptPcs
  <1>6. \A w \in Conns : Isolated(w)
    BY DEF Isolated, Fresh, Content
  <1> QED BY <1>2, <1>4, <1>5, <1>6 DEF Inv

(***************************************************************************)
(* The steps.                                                              *)
(***************************************************************************)
Steps(w) ==
    \/ Refuse(w) \/ Accept(w)
    \/ ResetMessage(w) \/ ActionMessage(w) \/ InvalidAction(w)
    \/ Leave(w) \/ Answer(w) \/ Raised(w)
    \/ EngineStep(w)

\* A handler's step moves that handler only.
LEMMA OthersStay ==
  ASSUME TypeOK, NEW w \in Conns, Steps(w)
  PROVE  \A v \in Conns \ {w} : conn'[v] = conn[v]
  BY DEF Steps, EngineStep, Refuse, Accept, ResetMessage, ActionMessage, InvalidAction,
         Leave, Answer, Raised, Finally, Require, Build, PipelineReset, Recondition, Infer,
         SwapIn, Forward, SwapOut, Release, PipelineClose, Goto, engine, TypeOK

\* The counter and the handlers that hold a slot change together.
LEMMA SlotsNext ==
  ASSUME TypeOK, SlotsAreCounted, NEW w \in Conns, Steps(w)
  PROVE  SlotsAreCounted'
  <1> DEFINE Before == In(SlotPcs)
             After == In(SlotPcs)'
  <1>1. \A v \in Conns \ {w} : conn'[v].pc = conn[v].pc
    BY OthersStay
  <1>2. /\ Cardinality(Before) \in Nat /\ Cardinality(After) \in Nat
        /\ (conn[w].pc \in SlotPcs <=> conn'[w].pc \in SlotPcs)
              => Cardinality(After) = Cardinality(Before)
        /\ conn[w].pc \notin SlotPcs /\ conn'[w].pc \in SlotPcs
              => Cardinality(After) = Cardinality(Before) + 1
        /\ conn[w].pc \in SlotPcs /\ conn'[w].pc \notin SlotPcs
              => Cardinality(After) = Cardinality(Before) - 1
    BY <1>1, CountOneMove
  <1>3. active_sessions = Cardinality(Before) /\ active_sessions <= max_sessions
        /\ max_sessions \in Nat
    BY SessionAssumption DEF SlotsAreCounted, TypeOK, In
  <1> HIDE DEF Before, After
  <1> USE DEF At, Goto, SlotPcs, CallPcs, TypeOK
  \* The two steps that take or give back a slot.
  <1>4. CASE Accept(w)
    <2>1. conn[w].pc \notin SlotPcs /\ conn'[w].pc \in SlotPcs
      BY <1>4 DEF Accept
    <2> QED BY <1>2, <1>3, <1>4, <2>1 DEF Accept, SlotsAreCounted, After, In
  <1>5. ASSUME NEW opened \in BOOLEAN, conn[w].pc \in SlotPcs, Finally(w, opened),
               max_sessions' = max_sessions
        PROVE  SlotsAreCounted'
    <2>1. conn'[w].pc \notin SlotPcs
      BY <1>5 DEF Finally
    <2> QED BY <1>2, <1>3, <1>5, <2>1 DEF Finally, SlotsAreCounted, After, In
  \* Every other step keeps the handler on its side of the count.
  <1>6. ASSUME conn[w].pc \in SlotPcs <=> conn'[w].pc \in SlotPcs,
               UNCHANGED <<active_sessions, max_sessions>>
        PROVE  SlotsAreCounted'
    BY <1>2, <1>3, <1>6 DEF SlotsAreCounted, After, In
  <1>7. CASE Leave(w)
    BY <1>5, <1>7 DEF Leave
  <1>8. CASE Answer(w)
    BY <1>5, <1>6, <1>8 DEF Answer
  <1>9. CASE Raised(w)
    BY <1>5, <1>9 DEF Raised
  <1>10. CASE Refuse(w) \/ ResetMessage(w) \/ ActionMessage(w) \/ InvalidAction(w)
    BY <1>6, <1>10 DEF Refuse, ResetMessage, ActionMessage, InvalidAction
  <1>11. CASE EngineStep(w)
    BY <1>6, <1>11 DEF EngineStep, Require, Build, PipelineReset, Recondition, Infer,
                      SwapIn, Forward, SwapOut, Release, PipelineClose, FirstOf
  <1> QED BY <1>4, <1>7, <1>8, <1>9, <1>10, <1>11 DEF Steps

\* A handler enters the build only while there is no pipeline, and each build
\* is made by one that leaves it.
LEMMA BuildsNext ==
  ASSUME TypeOK, BuildsBounded, NEW w \in Conns, Steps(w)
  PROVE  BuildsBounded'
  <1> DEFINE Before == In({"build"})
             After == In({"build"})'
  <1>1. \A v \in Conns \ {w} : conn'[v].pc = conn[v].pc
    BY OthersStay
  <1>2. /\ Cardinality(Before) \in Nat /\ Cardinality(After) \in Nat
        /\ (conn[w].pc \in {"build"} <=> conn'[w].pc \in {"build"})
              => Cardinality(After) = Cardinality(Before)
        /\ conn[w].pc \in {"build"} /\ conn'[w].pc \notin {"build"}
              => Cardinality(After) = Cardinality(Before) - 1
        /\ Cardinality(After) <= Cardinality(Conns) /\ Cardinality(Conns) \in Nat
    BY <1>1, CountOneMove
  <1>3. Before = Building /\ After = Building'
    BY DEF Building, In
  <1> HIDE DEF Before, After
  <1>4. pipeline + Cardinality(Before) <= Cardinality(Conns) + 1 /\ pipeline \in Nat
    BY <1>2, <1>3 DEF BuildsBounded, TypeOK, Builds
  <1> HIDE DEF Before, After
  <1> USE DEF At, Goto, TypeOK
  <1>5. CASE Require(w)
    <2>1. CASE pipeline = 0
      BY <1>2, <1>3, <1>5, <2>1 DEF Require, engine, BuildsBounded
    <2>2. CASE pipeline # 0
      BY <1>2, <1>3, <1>4, <1>5, <2>2 DEF Require, engine, FirstOf, BuildsBounded
    <2> QED BY <2>1, <2>2
  <1>6. CASE Build(w)
    <2>1. conn[w].pc \in {"build"} /\ conn'[w].pc \notin {"build"}
      BY <1>6 DEF Build, FirstOf
    <2>2. pipeline' <= pipeline + 1 /\ pipeline' \in Nat
      BY <1>4, <1>6 DEF Build
    <2> QED BY <1>2, <1>3, <1>4, <2>1, <2>2 DEF BuildsBounded
  <1>7. ASSUME conn[w].pc # "build", conn'[w].pc # "build", pipeline' = pipeline
        PROVE  BuildsBounded'
    BY <1>2, <1>3, <1>4, <1>7 DEF BuildsBounded
  <1>8. CASE Refuse(w) \/ Accept(w) \/ ResetMessage(w) \/ ActionMessage(w) \/ InvalidAction(w)
             \/ Leave(w) \/ Answer(w) \/ Raised(w)
    BY <1>7, <1>8 DEF Refuse, Accept, ResetMessage, ActionMessage, InvalidAction, Leave,
                      Answer, Raised, Finally, engine
  <1>9. CASE PipelineReset(w) \/ Recondition(w) \/ Infer(w) \/ SwapIn(w) \/ Forward(w)
             \/ SwapOut(w) \/ Release(w) \/ PipelineClose(w)
    BY <1>7, <1>9 DEF PipelineReset, Recondition, Infer, SwapIn, Forward, SwapOut, Release,
                      PipelineClose, engine
  <1> QED BY <1>5, <1>6, <1>8, <1>9 DEF Steps, EngineStep

\* Types.  The counter stays a natural number because it counts handlers, and
\* the number of a build stays in Builds because who builds is counted.
LEMMA TypeNext ==
  ASSUME TypeOK, BuildsBounded, SlotsAreCounted, NEW w \in Conns, Steps(w)
  PROVE  TypeOK'
  <1>0. Cardinality(Conns) \in Nat /\ active_sessions' \in Nat /\ pipeline' \in Builds
    <2>1. /\ Cardinality(In(SlotPcs)') \in Nat /\ Cardinality(In({"build"})') \in Nat
          /\ Cardinality(Conns) \in Nat
      BY OthersStay, CountOneMove
    <2>2. active_sessions' = Cardinality(In(SlotPcs)')
      BY SlotsNext DEF SlotsAreCounted, In
    <2>3. pipeline' + Cardinality(In({"build"})') <= Cardinality(Conns) + 1
      BY BuildsNext DEF BuildsBounded, Building
    <2>4. pipeline \in Nat
      BY <2>1 DEF TypeOK, Builds
    <2>5. pipeline' = pipeline \/ pipeline' = pipeline + 1
      BY DEF Steps, EngineStep, Refuse, Accept, ResetMessage, ActionMessage,
             InvalidAction, Leave, Answer, Raised, Require, Build, PipelineReset, Recondition,
             Infer, SwapIn, Forward, SwapOut, Release, PipelineClose, engine
    <2> QED BY <2>1, <2>2, <2>3, <2>4, <2>5 DEF Builds
  <1> USE DEF TypeOK, At, Goto, engine, Pcs, SlotPcs, CallPcs
  <1>1. CASE Refuse(w) \/ Accept(w) \/ Raised(w)
    BY <1>0, <1>1 DEF Refuse, Accept, Raised, Finally
  <1>2. CASE ResetMessage(w) \/ ActionMessage(w) \/ InvalidAction(w)
    BY <1>2, SessionAssumption DEF ResetMessage, ActionMessage, InvalidAction
  <1>m. ASSUME NEW p \in Pcs, NEW opened \in BOOLEAN,
               conn' = [conn EXCEPT ![w].pc = p, ![w].opened = opened],
               UNCHANGED <<max_sessions, engine>>
        PROVE  TypeOK'
    <2> DEFINE T == [pc : Pcs, opened : BOOLEAN, op : {"reset", "step"}, build : Builds,
                     used : ContentType, ran : Nat, messages : 0 .. MaxMessages]
    <2> HIDE DEF At, Goto, Pcs, SlotPcs, CallPcs
    <2>1. conn \in [Conns -> T] /\ conn[w] \in T
      OBVIOUS
    <2>2. [conn[w] EXCEPT !.pc = p, !.opened = opened] \in T
      BY <1>m, <2>1
    <2>3. conn' \in [Conns -> T]
      <3> HIDE DEF T
      <3>1. conn' = [conn EXCEPT ![w] = [conn[w] EXCEPT !.pc = p, !.opened = opened]]
        BY <1>m, <2>1
      <3> QED BY <2>1, <2>2, <3>1
    <2> QED BY <1>0, <1>m, <2>3
  <1>3. CASE Leave(w)
    <2>1. conn[w].opened \in BOOLEAN
      OBVIOUS
    <2> QED BY <2>1, <1>m, <1>3 DEF Leave, Finally
  <1>10. CASE Answer(w)
    BY <1>m, <1>10 DEF Answer, Finally
  <1>4. CASE Require(w) \/ Build(w)
    BY <1>0, <1>4 DEF Require, Build, FirstOf
  <1>5. CASE PipelineReset(w)
    <2>1. Content(w, 0) \in ContentType
      BY DEF Content, ContentType
    <2> QED BY <1>5, <2>1 DEF PipelineReset
  <1>6. CASE Recondition(w) \/ Infer(w)
    BY <1>6 DEF Recondition, Infer
  <1>7. CASE SwapIn(w) \/ SwapOut(w)
    BY <1>7 DEF SwapIn, SwapOut
  <1>8. CASE Forward(w)
    <2>1. conn[w].build \in Builds /\ head[conn[w].build] \in ContentType
      OBVIOUS
    <2>2. head' \in [Builds -> ContentType]
      BY <1>8, <2>1 DEF Forward, ContentType
    <2>3. conn' \in [Conns -> [pc : Pcs, opened : BOOLEAN, op : {"reset", "step"},
                               build : Builds, used : ContentType, ran : Nat,
                               messages : 0 .. MaxMessages]]
      BY <1>8, <2>1 DEF Forward
    <2> QED BY <1>8, <2>2, <2>3 DEF Forward
  <1>9. CASE Release(w) \/ PipelineClose(w)
    BY <1>9 DEF Release, PipelineClose
  <1> QED BY <1>1, <1>2, <1>3, <1>4, <1>5, <1>6, <1>7, <1>8, <1>9, <1>10 DEF Steps, EngineStep

\* A handler's place and what it knows of its session agree at every step.
LEMMA LifecycleNext ==
  ASSUME TypeOK, NEW w \in Conns, Steps(w), \A v \in Conns : Lifecycle(v)
  PROVE  \A v \in Conns : Lifecycle(v)'
  <1>1. \A v \in Conns \ {w} : Lifecycle(v)'
    BY OthersStay DEF Lifecycle
  <1>2. Lifecycle(w)'
    <2> USE DEF TypeOK, At, Goto, Lifecycle, CallPcs, FirstOf
    <2>1. CASE Refuse(w) \/ Accept(w) \/ ResetMessage(w) \/ ActionMessage(w)
               \/ InvalidAction(w) \/ Leave(w) \/ Answer(w) \/ Raised(w)
      BY <2>1 DEF Refuse, Accept, ResetMessage, ActionMessage, InvalidAction, Leave, Answer,
                  Raised, Finally
    <2>2. CASE EngineStep(w)
      BY <2>2 DEF EngineStep, Require, Build, PipelineReset, Recondition, Infer, SwapIn,
                  Forward, SwapOut, Release, PipelineClose
    <2> QED BY <2>1, <2>2 DEF Steps
  <1> QED BY <1>1, <1>2

\* The tables hold a session from its reset to its release: the steps that
\* write them write the entry of the handler that takes the step, and a build
\* leaves the entries of the earlier ones behind.
LEMMA ResidenceNext ==
  ASSUME TypeOK, NEW w \in Conns, Steps(w), pipeline' \in Builds,
         NEW v \in Conns, Lifecycle(v), Residence(v)
  PROVE  Residence(v)'
  <1>0. v # w => conn'[v] = conn[v]
    BY OthersStay
  <1>b. Builds \subseteq Nat
    BY DEF Builds
  <1> USE <1>b DEF TypeOK, At, Goto, engine, Residence, Lifecycle, SlotPcs, CallPcs,
                   PipelinePcs, KeptPcs
  <1>1. CASE Refuse(w)
    BY <1>0, <1>1 DEF Refuse
  <1>2. CASE Accept(w)
    BY <1>0, <1>2 DEF Accept
  <1>3. CASE ResetMessage(w)
    BY <1>0, <1>3 DEF ResetMessage
  <1>4. CASE ActionMessage(w) \/ InvalidAction(w)
    BY <1>0, <1>4 DEF ActionMessage, InvalidAction
  <1>5. CASE Leave(w)
    BY <1>0, <1>5 DEF Leave, Finally
  <1>6. CASE Answer(w)
    BY <1>0, <1>6 DEF Answer, Finally
  <1>7. CASE Raised(w)
    BY <1>0, <1>7 DEF Raised, Finally
  <1>8. CASE Require(w)
    BY <1>0, <1>8 DEF Require, FirstOf
  <1>9. CASE Build(w)
    <2>1. CASE pipeline' = pipeline
      BY <1>0, <1>9, <2>1 DEF Build, FirstOf
    <2>2. CASE pipeline' = pipeline + 1 /\ Goto(w, FirstOf(conn[w].op))
      <3>1. pipeline \in Nat /\ \A b \in Builds : <<b, v>> \in caches => b <= pipeline
        OBVIOUS
      <3>4. <<pipeline', v>> \notin caches
        BY <2>2, <3>1
      <3>5. caches' = caches /\ sessions' = sessions /\ pipeline' = pipeline + 1
        BY <1>9, <2>2 DEF Build
      <3>2. CASE v = w
        <4>1. conn[v].pc = "build" /\ conn'[v] = [conn[v] EXCEPT !.pc = FirstOf(conn[v].op)]
          BY <1>9, <2>2, <3>2 DEF Build
        <4> QED BY <3>1, <3>4, <3>5, <4>1 DEF FirstOf
      <3>3. CASE v # w
        <4>1. conn'[v] = conn[v]
          BY <1>0, <3>3
        <4>2. conn[v].pc \in KeptPcs => pipeline' # 1
          BY <3>1, <3>5
        <4>3. conn[v].opened /\ conn[v].pc \in SlotPcs \cup {"release"} => pipeline' # 1
          BY <3>1, <3>5
        <4> QED BY <3>1, <3>4, <3>5, <4>1, <4>2, <4>3
      <3> QED BY <3>2, <3>3
    <2> QED BY <1>9, <2>1, <2>2 DEF Build
  <1>10. CASE PipelineReset(w)
    BY <1>0, <1>10 DEF PipelineReset
  <1>11. CASE Recondition(w)
    BY <1>0, <1>11 DEF Recondition
  <1>12. CASE Infer(w)
    BY <1>0, <1>12 DEF Infer
  <1>13. CASE SwapIn(w)
    BY <1>0, <1>13 DEF SwapIn
  <1>14. CASE Forward(w)
    BY <1>0, <1>14 DEF Forward
  <1>15. CASE SwapOut(w)
    BY <1>0, <1>15 DEF SwapOut
  <1>16. CASE Release(w)
    BY <1>0, <1>16 DEF Release
  <1>17. CASE PipelineClose(w)
    BY <1>0, <1>17 DEF PipelineClose
  <1> QED BY <1>1, <1>2, <1>3, <1>4, <1>5, <1>6, <1>7, <1>8, <1>9, <1>10, <1>11, <1>12,
             <1>13, <1>14, <1>15, <1>16, <1>17 DEF Steps, EngineStep

\* With one slot, the head belongs to one call from its swap-in to its
\* swap-out: any other handler that could load or advance it would hold a
\* second slot.
LEMMA IsolatedNext ==
  ASSUME TypeOK, SlotsAreCounted, max_sessions = 1, NEW w \in Conns, Steps(w),
         NEW v \in Conns, Lifecycle(v), Isolated(v)
  PROVE  Isolated(v)'
  <1>0. v # w => conn'[v] = conn[v]
    BY OthersStay
  <1>1. v # w => ~ (conn[v].pc \in {"forward", "swap_out"} /\ conn[w].pc \in SlotPcs)
    BY OneHolder DEF SlotPcs, CallPcs
  <1>t. conn[v].ran \in Nat /\ swap[v] \in ContentType
    BY DEF TypeOK
  <1> USE DEF TypeOK, At, Goto, engine, Isolated, OwnContent, Lifecycle, CallPcs
  <1>3. CASE Refuse(w) \/ Accept(w) \/ InvalidAction(w)
    BY <1>0, <1>3 DEF Refuse, Accept, InvalidAction
  <1>4. CASE ResetMessage(w)
    BY <1>0, <1>4 DEF ResetMessage
  <1>5. CASE ActionMessage(w)
    BY <1>0, <1>5 DEF ActionMessage
  <1>6. CASE Leave(w) \/ Raised(w)
    BY <1>0, <1>6 DEF Leave, Raised, Finally
  <1>7. CASE Answer(w)
    BY <1>0, <1>7 DEF Answer, Finally
  <1>8. CASE Require(w) \/ Build(w)
    BY <1>0, <1>8 DEF Require, Build, FirstOf
  <1>9. CASE PipelineReset(w)
    BY <1>0, <1>9 DEF PipelineReset, Content
  <1>10. CASE Recondition(w) \/ Infer(w)
    BY <1>0, <1>10 DEF Recondition, Infer
  <1>11. CASE SwapIn(w)
    <2>1. conn[w].build \in Builds /\ conn[w].pc \in SlotPcs
      BY <1>11 DEF SwapIn, SlotPcs
    <2> QED BY <1>0, <1>1, <1>11, <2>1 DEF SwapIn
  <1>12. CASE Forward(w)
    <2>1. conn[w].build \in Builds /\ conn[w].pc \in SlotPcs
      BY <1>12 DEF Forward, SlotPcs
    <2>2. CASE v # w
      BY <1>0, <1>1, <1>12, <2>1, <2>2 DEF Forward
    <2>3. CASE v = w
      BY <1>t, <1>12, <2>1, <2>3 DEF Forward, Content
    <2> QED BY <2>2, <2>3
  <1>13. CASE SwapOut(w)
    BY <1>0, <1>13 DEF SwapOut, Content
  <1>14. CASE Release(w) \/ PipelineClose(w)
    BY <1>0, <1>14 DEF Release, PipelineClose
  <1> QED BY <1>3, <1>4, <1>5, <1>6, <1>7, <1>8, <1>9, <1>10, <1>11, <1>12, <1>13, <1>14
          DEF Steps, EngineStep

\* Every step keeps the invariant.
LEMMA InvNext == Inv /\ [Next]_vars => Inv'
  <1> SUFFICES ASSUME Inv, [Next]_vars PROVE Inv'
    OBVIOUS
  <1>1. ASSUME NEW w \in Conns, Steps(w) PROVE Inv'
    <2> USE <1>1 DEF Inv
    <2>1. TypeOK'
      BY TypeNext
    <2>2. BuildsBounded' /\ SlotsAreCounted'
      BY BuildsNext, SlotsNext
    <2>3. \A v \in Conns : Lifecycle(v)'
      BY LifecycleNext
    <2>4. \A v \in Conns : Residence(v)'
      BY <2>1, ResidenceNext DEF TypeOK
    <2>5. max_sessions' = max_sessions
      BY DEF Steps, EngineStep, Refuse, Accept, ResetMessage, ActionMessage, InvalidAction,
             Leave, Answer, Raised, Require, Build, PipelineReset, Recondition, Infer,
             SwapIn, Forward, SwapOut, Release, PipelineClose
    <2>6. max_sessions' = 1 => \A v \in Conns : Isolated(v)'
      BY <2>5, IsolatedNext
    <2> QED BY <2>1, <2>2, <2>3, <2>4, <2>6
  <1>2. CASE UNCHANGED vars
    BY <1>2 DEF vars, Inv, TypeOK, BuildsBounded, Building, SlotsAreCounted, In, Lifecycle,
                Residence, Isolated, OwnContent
  <1> QED BY <1>1, <1>2 DEF Next, Steps

\* The slots, both session tables, the builds and the head are as the parts of
\* Inv say in every reachable state of the websocket handlers and the engine.
THEOREM SessionInvariant == Spec => []Inv
  BY InvInit, InvNext, PTL DEF Spec

(***************************************************************************)
(* What follows.                                                           *)
(***************************************************************************)
\* Every reachable state is well typed, for any number of connections: the
\* slot counter never goes below zero and the pipeline is built at most once
\* per connection, plus the build the engine may start with.
THEOREM SessionTypeCorrect == Spec => []TypeOK
  BY SessionInvariant, PTL DEF Inv

\* However handlers end (timeout, disconnect, cancellation, an engine call
\* that raises, an answer that cannot be sent), the counter of create_app is
\* the number of handlers that hold a slot, and at most max_sessions.
THEOREM SlotsAlwaysCounted == Spec => []SlotsAreCounted
  BY SessionInvariant, PTL DEF Inv

\* The engine's and the pipeline's tables hold a session while its client can
\* use it, and an entry that outlives its handler is one whose reset raised.
THEOREM ResidentStateOwned == Spec => []ResidentStateHasAnOwner
  <1>1. Inv => ResidentStateHasAnOwner
    <2> SUFFICES ASSUME Inv PROVE ResidentStateHasAnOwner
      OBVIOUS
    <2>1. \A w \in sessions : conn[w].pc \in SlotPcs \cup {"release"}
      BY DEF Inv, Residence, TypeOK
    <2>2. ASSUME NEW w \in Conns, <<pipeline, w>> \in caches
          PROVE  \/ conn[w].pc \in SlotPcs \cup {"release", "close"}
                 \/ At(w, "closed") /\ ~conn[w].opened
      <3>1. Residence(w) /\ pipeline \in Builds /\ conn[w].pc \in Pcs
        BY DEF Inv, TypeOK
      <3> QED BY <2>2, <3>1 DEF Residence, Pcs, At
    <2>3. ASSUME pipeline <= 1, NEW w \in Conns, conn[w].opened,
                 conn[w].pc \in SlotPcs \cup {"release"}
          PROVE  w \in sessions /\ <<pipeline, w>> \in caches
      <3>1. Residence(w) /\ pipeline \in Nat
        BY DEF Inv, TypeOK, Builds
      <3> QED BY <2>3, <3>1 DEF Residence
    <2> QED BY <2>1, <2>2, <2>3 DEF ResidentStateHasAnOwner
  <1> QED BY <1>1, SessionInvariant, PTL

\* With one slot the swaps of _infer never overlap, although the next session
\* may start while the last one is still being released: every forward runs
\* on its own session's caches, and what is saved is what it computed.
THEOREM OneSlotIsolates == Spec => []OneSlotIsIsolated
  <1>1. Inv => OneSlotIsIsolated
    BY DEF Inv, OneSlotIsIsolated, SessionIsolation, Isolated, OwnContent
  <1> QED BY <1>1, SessionInvariant, PTL
=============================================================================
