----------------------------- MODULE WorldSession -----------------------------
(***************************************************************************)
(* Interactive sessions: the /v2/world/session websocket handler           *)
(* (serving/app.py) over the DreamZero engine (models/dreamzero.py) and    *)
(* its pipeline (models/dreamzero_pipeline.py).                            *)
(*                                                                         *)
(* The handlers run on the event loop; each engine call runs on a          *)
(* threadpool thread of its own, so the calls of different connections     *)
(* interleave at every step while those of one connection follow each      *)
(* other.  Cancelling a handler does not interrupt an engine call          *)
(* (anyio shields the thread's result).                                    *)
(*                                                                         *)
(* The action head is one nn.Module whose caches are plain attributes; a   *)
(* call loads the session's saved attributes into it, runs, and saves them *)
(* back.  Their content is abstracted to the session they belong to and    *)
(* the number of blocks computed into them.                                *)
(***************************************************************************)
EXTENDS Integers, FiniteSets

CONSTANTS
    Conns,        \* websocket connections; also the session ids reset() draws
    MaxSessions,  \* bound: the largest max_sessions
    MaxMessages   \* bound: Action messages one client sends

ASSUME SessionAssumption ==
    /\ IsFiniteSet(Conns)
    /\ MaxSessions \in Nat \ {0}
    /\ MaxMessages \in Nat

VARIABLES
    max_sessions,     \* create_app's argument
    active_sessions,  \* the handlers' shared counter
    conn,             \* each connection: its handler and the engine call it awaits
    sessions,         \* DreamZeroEngine._sessions
    pipeline,         \* DreamZeroEngine._pipeline: 0 for None, or which build it is
    caches,           \* DreamZeroPipeline._sessions of every build: <<build, id>>
    swap,             \* the saved attributes of each session
    head              \* the attributes of each build's action head

vars == <<max_sessions, active_sessions, conn, sessions, pipeline, caches, swap, head>>
engine == <<sessions, pipeline, caches, swap, head>>

Builds == 0 .. Cardinality(Conns) + 1
Nobody == "nobody"
Content(of, blocks) == [of |-> of, blocks |-> blocks]

\* opened: opened_state is set; op: the engine call; build: the pipeline the
\* call is in; used: what its forward ran on; ran: the session's forwards.
Fresh == [pc |-> "new", opened |-> FALSE, op |-> "reset", build |-> 0,
          used |-> Content(Nobody, 0), ran |-> 0, messages |-> 0]

\* The engine given to create_app is loaded already or loads on first use.
Init ==
    /\ max_sessions \in 1 .. MaxSessions
    /\ active_sessions = 0
    /\ conn = [w \in Conns |-> Fresh]
    /\ sessions = {}
    /\ pipeline \in {0, 1}
    /\ caches = {}
    /\ swap = [w \in Conns |-> Content(Nobody, 0)]
    /\ head = [b \in Builds |-> Content(Nobody, 0)]

At(w, pc) == conn[w].pc = pc
Goto(w, pc) == conn' = [conn EXCEPT ![w].pc = pc]

(***************************************************************************)
(* The handler                                                             *)
(***************************************************************************)
\* A bad token or no free slot: refused, with nothing held.
Refuse(w) ==
    /\ At(w, "new")
    /\ Goto(w, "closed")
    /\ UNCHANGED <<max_sessions, active_sessions, engine>>

\* No await separates the comparison from the increment.
Accept(w) ==
    /\ At(w, "new")
    /\ active_sessions < max_sessions
    /\ active_sessions' = active_sessions + 1
    /\ Goto(w, "await_reset")
    /\ UNCHANGED <<max_sessions, engine>>

\* Mutant: only the exits after a session has been opened give the slot back.
FinallyOpenedOnly(w, opened) ==
    /\ active_sessions' = IF opened THEN active_sessions - 1 ELSE active_sessions
    /\ conn' = [conn EXCEPT ![w].pc = IF opened THEN "release" ELSE "closed",
                            ![w].opened = opened]

\* The finally block up to its await: the slot is free before the release.
Finally(w, opened) ==
    /\ active_sessions' = active_sessions - 1
    /\ conn' = [conn EXCEPT ![w].pc = IF opened THEN "release" ELSE "closed",
                            ![w].opened = opened]

\* Mutant: the idle timeout covers the action loop and not the first message.
LeaveLoopOnly(w) ==
    /\ At(w, "await_action")
    /\ Finally(w, conn[w].opened)
    /\ UNCHANGED <<max_sessions, engine>>

\* The idle timeout, a disconnect, a cancelled handler, or a first message
\* that is not a ResetRequest.
Leave(w) ==
    /\ At(w, "await_reset") \/ At(w, "await_action")
    /\ Finally(w, conn[w].opened)
    /\ UNCHANGED <<max_sessions, engine>>

ResetMessage(w) ==
    /\ At(w, "await_reset")
    /\ conn' = [conn EXCEPT ![w].pc = "require", ![w].op = "reset"]
    /\ UNCHANGED <<max_sessions, active_sessions, engine>>

ActionMessage(w) ==
    /\ At(w, "await_action")
    /\ conn[w].messages < MaxMessages
    /\ conn' = [conn EXCEPT ![w].pc = "require", ![w].op = "step",
                            ![w].messages = @ + 1]
    /\ UNCHANGED <<max_sessions, active_sessions, engine>>

\* An Action that does not validate is answered and the loop goes on.
InvalidAction(w) ==
    /\ At(w, "await_action")
    /\ conn[w].messages < MaxMessages
    /\ conn' = [conn EXCEPT ![w].messages = @ + 1]
    /\ UNCHANGED <<max_sessions, active_sessions, engine>>

\* The engine call has returned: opened_state is set and the answer sent, or
\* the send fails because the client has gone.
Answer(w) ==
    /\ At(w, "returned")
    /\ \/ /\ conn' = [conn EXCEPT ![w].pc = "await_action", ![w].opened = TRUE]
          /\ UNCHANGED active_sessions
       \/ Finally(w, TRUE)
    /\ UNCHANGED <<max_sessions, engine>>

\* The engine call has raised: nothing catches it but the finally block.
Raised(w) ==
    /\ At(w, "raised")
    /\ Finally(w, conn[w].opened)
    /\ UNCHANGED <<max_sessions, engine>>

(***************************************************************************)
(* The engine call, on its thread                                          *)
(***************************************************************************)
FirstOf(op) == IF op = "reset" THEN "reset" ELSE "recondition"

\* _require_pipeline and load(): the check, and the build that may take
\* minutes and may fail, with no lock around the two.
Require(w) ==
    /\ At(w, "require")
    /\ Goto(w, IF pipeline = 0 THEN "build" ELSE FirstOf(conn[w].op))
    /\ UNCHANGED <<max_sessions, active_sessions, engine>>

Build(w) ==
    /\ At(w, "build")
    /\ \/ /\ pipeline' = pipeline + 1
          /\ Goto(w, FirstOf(conn[w].op))
       \/ /\ Goto(w, "raised")
          /\ UNCHANGED pipeline
    /\ UNCHANGED <<max_sessions, active_sessions, sessions, caches, swap, head>>

PipelineReset(w) ==
    /\ At(w, "reset")
    /\ caches' = caches \cup {<<pipeline, w>>}
    /\ swap' = [swap EXCEPT ![w] = Content(w, 0)]
    /\ Goto(w, "infer")
    /\ UNCHANGED <<max_sessions, active_sessions, sessions, pipeline, head>>

\* step(): an unknown session or a chunk of the wrong length raises;
\* recondition() only sets what infer_chunk starts from.
Recondition(w) ==
    /\ At(w, "recondition")
    /\ \/ w \in sessions /\ <<pipeline, w>> \in caches /\ Goto(w, "infer")
       \/ Goto(w, "raised")
    /\ UNCHANGED <<max_sessions, active_sessions, engine>>

\* encode_observation or infer_chunk up to _infer: the session is looked up
\* in the pipeline of the moment; a seed observation may be missing.
Infer(w) ==
    /\ At(w, "infer")
    /\ \/ /\ <<pipeline, w>> \in caches
          /\ conn' = [conn EXCEPT ![w].pc = "swap_in", ![w].build = pipeline]
       \/ /\ conn[w].op = "reset" \/ <<pipeline, w>> \notin caches
          /\ Goto(w, "raised")
    /\ UNCHANGED <<max_sessions, active_sessions, engine>>

\* Mutant: the saved attributes are not loaded before the forward.
SwapInForgotten(w) ==
    /\ At(w, "swap_in")
    /\ Goto(w, "forward")
    /\ UNCHANGED <<max_sessions, active_sessions, engine>>

SwapIn(w) ==
    /\ At(w, "swap_in")
    /\ head' = [head EXCEPT ![conn[w].build] = swap[w]]
    /\ Goto(w, "forward")
    /\ UNCHANGED <<max_sessions, active_sessions, sessions, pipeline, caches, swap>>

\* lazy_joint_video_action: one more block in the head's caches, or an
\* exception that skips _swap_out.
Forward(w) ==
    LET b == conn[w].build
    IN  /\ At(w, "forward")
        /\ \/ /\ conn' = [conn EXCEPT ![w].pc = "swap_out", ![w].used = head[b],
                                      ![w].ran = @ + 1]
              /\ head' = [head EXCEPT ![b].blocks = @ + 1]
           \/ /\ Goto(w, "raised")
              /\ UNCHANGED head
        /\ UNCHANGED <<max_sessions, active_sessions, sessions, pipeline, caches, swap>>

\* The attributes are saved and the call returns; reset() files the session.
SwapOut(w) ==
    /\ At(w, "swap_out")
    /\ swap' = [swap EXCEPT ![w] = head[conn[w].build]]
    /\ sessions' = IF conn[w].op = "reset" THEN sessions \cup {w} ELSE sessions
    /\ Goto(w, "returned")
    /\ UNCHANGED <<max_sessions, active_sessions, pipeline, caches, head>>

Release(w) ==
    /\ At(w, "release")
    /\ sessions' = sessions \ {w}
    /\ Goto(w, "close")
    /\ UNCHANGED <<max_sessions, active_sessions, pipeline, caches, swap, head>>

\* Mutant: the session is dropped by the engine and kept by the pipeline.
PipelineCloseForgotten(w) ==
    /\ At(w, "close")
    /\ Goto(w, "closed")
    /\ UNCHANGED <<max_sessions, active_sessions, engine>>

PipelineClose(w) ==
    /\ At(w, "close")
    /\ caches' = caches \ {<<pipeline, w>>}
    /\ Goto(w, "closed")
    /\ UNCHANGED <<max_sessions, active_sessions, sessions, pipeline, swap, head>>

EngineStep(w) ==
    \/ Require(w) \/ Build(w) \/ PipelineReset(w) \/ Recondition(w) \/ Infer(w)
    \/ SwapIn(w) \/ Forward(w) \/ SwapOut(w) \/ Release(w) \/ PipelineClose(w)

Next == \E w \in Conns :
    \/ Refuse(w) \/ Accept(w)
    \/ ResetMessage(w) \/ ActionMessage(w) \/ InvalidAction(w)
    \/ Leave(w) \/ Answer(w) \/ Raised(w)
    \/ EngineStep(w)

\* The loop resumes a handler whose call is over and its idle timers fire;
\* engine calls end.
Fairness == \A w \in Conns :
    WF_vars(Leave(w)) /\ WF_vars(Answer(w) \/ Raised(w)) /\ WF_vars(EngineStep(w))

Spec == Init /\ [][Next]_vars /\ Fairness

(***************************************************************************)
(* Properties                                                              *)
(***************************************************************************)
CallPcs == {"require", "build", "reset", "recondition", "infer", "swap_in", "forward",
            "swap_out", "returned", "raised"}
SlotPcs == CallPcs \cup {"await_reset", "await_action"}
Pcs == SlotPcs \cup {"new", "release", "close", "closed"}

ContentType == [of : Conns \cup {Nobody}, blocks : Nat]

\* The handlers, both session tables and the head are well typed.
TypeOK ==
    /\ max_sessions \in 1 .. MaxSessions
    /\ active_sessions \in Nat
    /\ conn \in [Conns -> [pc : Pcs, opened : BOOLEAN, op : {"reset", "step"},
                           build : Builds, used : ContentType, ran : Nat,
                           messages : 0 .. MaxMessages]]
    /\ sessions \subseteq Conns
    /\ pipeline \in Builds
    /\ caches \subseteq Builds \X Conns
    /\ swap \in [Conns -> ContentType]
    /\ head \in [Builds -> ContentType]

\* Capacity (active_sessions): whichever way handlers end, the counter is the
\* number of connections that hold a slot, and never above max_sessions.
SlotsAreCounted ==
    /\ active_sessions = Cardinality({w \in Conns : conn[w].pc \in SlotPcs})
    /\ active_sessions <= max_sessions

\* Server-side state and its owners: an entry of the engine or of the pipeline
\* in use belongs to a connection that holds a slot, to one whose release is
\* under way, or to one whose reset raised between pipeline.reset and the
\* engine's own entry (the handler has no state to release then); and until
\* its release both tables hold a session its client has been told of, unless
\* the pipeline was built twice (load() is not atomic, and a second build
\* replaces the first with its sessions).
ResidentStateHasAnOwner ==
    /\ \A w \in sessions : conn[w].pc \in SlotPcs \cup {"release"}
    /\ \A w \in Conns : <<pipeline, w>> \in caches =>
          \/ conn[w].pc \in SlotPcs \cup {"release", "close"}
          \/ At(w, "closed") /\ ~conn[w].opened
    /\ pipeline <= 1 => \A w \in Conns :
          conn[w].opened /\ conn[w].pc \in SlotPcs \cup {"release"} =>
              w \in sessions /\ <<pipeline, w>> \in caches

\* What a session computes is computed from its own caches, and what is saved
\* for it is its own (dreamzero_pipeline.py: "one resident model serves N
\* sessions without cross-talk").
SessionIsolation == \A w \in Conns :
    /\ conn[w].used.of \in {w, Nobody}
    /\ swap[w].of \in {w, Nobody}
    /\ conn[w].pc \in {"returned", "await_action"} =>
          swap[w] = Content(w, conn[w].ran)

\* With one slot the swaps of _infer never overlap, although the next session
\* may start while the last one is still being released: sessions are
\* isolated then.
OneSlotIsIsolated == max_sessions = 1 => SessionIsolation

\* A client that stops sending loses its slot and its state is released
\* (session_idle_timeout_s), whatever engine calls raise.
SilentClientsAreFreed ==
    \A w \in Conns : conn[w].pc \in SlotPcs ~> At(w, "closed")
=============================================================================
