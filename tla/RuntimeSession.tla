--------------------------- MODULE RuntimeSession ---------------------------
(***************************************************************************)
(* A call in an IVR flow.  The script managecall_entry.lua runs on the     *)
(* channel: it starts a session, performs the action of the answer and     *)
(* reports how it went, until there is no next action.  IvrRuntimeService  *)
(* walks the graph the session is pinned to and keeps the session and its  *)
(* steps, in two statements that are not a transaction.                    *)
(*                                                                         *)
(* The graph does not change under a session: PinnedGraphUnchanged of      *)
(* PublishLifecycle.  Which branch a silent node takes (digits, the hour,  *)
(* schedules, the number of the caller) and whether what an action refers  *)
(* to is active are left open.                                             *)
(***************************************************************************)
EXTENDS Naturals, Sequences

CONSTANTS
    Calls,              \* channels that reach the flow
    Prompts,            \* play_prompt nodes
    Collects,           \* play_collect nodes
    Terminals,          \* transfer_extension, queue, voicemail_drop nodes
    Hangups,            \* hangup nodes
    Silents,            \* nodes the API walks through without an action
    NoNode, Missing,    \* no edge; an edge to a node that is not there
    Entry,              \* entry_node_id
    OnDone,             \* next_node_id of prompts and collects
    OnTimeout,          \* timeout_node_id or default_node_id of collects
    Branches,           \* where the edges of a silent node lead
    WalkLimit,          \* silent nodes in a row (100 in the code)
    MaxSteps,           \* bound: actions of a call before the caller leaves
    MaxEntries          \* bound: how often a channel is sent to an IVR

Actions == Prompts \cup Collects \cup Terminals \cup Hangups
Targets == Actions \cup Silents \cup {NoNode, Missing}

ASSUME GraphAssumption ==
    /\ {NoNode, Missing} \cap (Actions \cup Silents) = {}
    /\ NoNode # Missing
    /\ Entry \in Targets
    /\ OnDone \in [Prompts \cup Collects -> Targets]
    /\ OnTimeout \in [Collects -> Targets]
    /\ Branches \in [Silents -> SUBSET Targets]
    /\ WalkLimit \in Nat \ {0}
    /\ MaxSteps \in Nat
    /\ MaxEntries \in Nat \ {0}

VARIABLES
    call,       \* the script on each channel
    up,         \* channels whose caller has not hung up
    entries,    \* how often the script was run on each channel
    request,    \* the request of each channel the API works on
    session,    \* ivr_flow_sessions, one row per call_id
    steps       \* ivr_flow_session_steps, by session

vars == <<call, up, entries, request, session, steps>>

Outcomes == {"completed", "digits", "timeout"}

Script  == [pc : {"ready", "waiting", "executing", "over"}, node : Actions \cup {NoNode}]
Request == [pc : {"idle", "read", "insert", "complete", "update", "record", "reply"},
            kind : {"start", "advance"}, node : Actions \cup {NoNode},
            outcome : Outcomes, to : Actions \cup {NoNode}]
Session == [status : {"absent", "running", "completed"}, node : Actions \cup {NoNode}]
Step    == [node : Actions \cup {NoNode}, outcome : Outcomes \cup {"start"},
            to : Actions \cup {NoNode}]

IdleRequest == [pc |-> "idle", kind |-> "start", node |-> NoNode,
                outcome |-> "completed", to |-> NoNode]
At(pc, n)   == [pc |-> pc, node |-> n]

TypeOK ==
    /\ call \in [Calls -> Script]
    /\ up \subseteq Calls
    /\ entries \in [Calls -> 0..MaxEntries]
    /\ request \in [Calls -> Request]
    /\ session \in [Calls -> Session]
    /\ steps \in [Calls -> Seq(Step)]

Init ==
    /\ call = [c \in Calls |-> At("ready", NoNode)]
    /\ up = Calls
    /\ entries = [c \in Calls |-> 0]
    /\ request = [c \in Calls |-> IdleRequest]
    /\ session = [c \in Calls |-> [status |-> "absent", node |-> NoNode]]
    /\ steps = [c \in Calls |-> <<>>]

ScriptAt(c, pc, n)   == call' = [call EXCEPT ![c] = At(pc, n)]
RequestAt(c, pc)     == request' = [request EXCEPT ![c].pc = pc]
SetSession(c, st, n) == session' = [session EXCEPT ![c] = [status |-> st, node |-> n]]

-----------------------------------------------------------------------------
(* The walk of resolveNextAction.  Arrive[k][t] is the set of what may come *)
(* of following an edge to t with k rounds of the loop left: an action     *)
(* node, NoNode (the flow has ended), or Missing (an error).               *)

Arrive[k \in 0..WalkLimit] ==
    [t \in Targets |->
        IF k = 0 \/ t = Missing THEN {Missing}
        ELSE IF t = NoNode THEN {NoNode}
        ELSE IF t \in Silents THEN {Missing} \cup UNION {Arrive[k - 1][b] : b \in Branches[t]}
        ELSE {t, Missing}]

Walk(t) == Arrive[WalkLimit][t]

\* What comes after node n when its action ended with outcome.
NextOf(n, outcome) ==
    IF n \in Terminals \cup Hangups THEN {NoNode}
    ELSE IF n \in Collects /\ outcome = "timeout" THEN Walk(OnTimeout[n])
    ELSE Walk(OnDone[n])

-----------------------------------------------------------------------------
(* IvrRuntimeService, one statement of a request at a time.                *)

\* The script executes hangup and ends.
EndCall(c) ==
    /\ ScriptAt(c, "over", NoNode)
    /\ up' = up \ {c}

\* findActiveFlowVersion and the walk from the entry; nothing is written.
StartRead(c, to) ==
    /\ request[c].pc = "read" /\ request[c].kind = "start"
    /\ to \in Walk(Entry) \ {Missing}
    /\ request' = [request EXCEPT ![c].pc = "insert", ![c].to = to]
    /\ UNCHANGED <<call, up, entries, session, steps>>

\* Slip: the row of an earlier session of the call is overwritten.
StartInsertAny(c) ==
    /\ request[c].pc = "insert"
    /\ SetSession(c, "running", request[c].to)
    /\ RequestAt(c, IF request[c].to = NoNode THEN "complete" ELSE "record")
    /\ UNCHANGED <<call, up, entries, steps>>

\* createSession.  A call_id has one session: a second one is refused.
StartInsert(c) ==
    /\ request[c].pc = "insert"
    /\ session[c].status = "absent"
    /\ SetSession(c, "running", request[c].to)
    /\ RequestAt(c, IF request[c].to = NoNode THEN "complete" ELSE "record")
    /\ UNCHANGED <<call, up, entries, steps>>

\* The entry leads nowhere: updateSessionState of startSession.
StartComplete(c) ==
    /\ request[c].pc = "complete"
    /\ SetSession(c, "completed", NoNode)
    /\ RequestAt(c, "record")
    /\ UNCHANGED <<call, up, entries, steps>>

\* findSessionById, the two checks, getFlowGraphForSession, the walk.
AdvanceRead(c, to) ==
    /\ request[c].pc = "read" /\ request[c].kind = "advance"
    /\ session[c].status = "running"
    /\ session[c].node = request[c].node
    /\ to \in NextOf(request[c].node, request[c].outcome) \ {Missing}
    /\ request' = [request EXCEPT ![c].pc = "update", ![c].to = to]
    /\ UNCHANGED <<call, up, entries, session, steps>>

\* Slip: current_node_id is left as it was read.
AdvanceUpdateStale(c) ==
    /\ request[c].pc = "update"
    /\ SetSession(c, IF request[c].to = NoNode THEN "completed" ELSE "running", request[c].node)
    /\ RequestAt(c, "record")
    /\ UNCHANGED <<call, up, entries, steps>>

\* updateSessionState of advanceSession.
AdvanceUpdate(c) ==
    /\ request[c].pc = "update"
    /\ SetSession(c, IF request[c].to = NoNode THEN "completed" ELSE "running", request[c].to)
    /\ RequestAt(c, "record")
    /\ UNCHANGED <<call, up, entries, steps>>

\* Slip: the step is recorded as one of the node the session stands at now.
RecordStepAfter(c) ==
    /\ request[c].pc = "record"
    /\ steps' = [steps EXCEPT ![c] = Append(@,
           [node |-> session[c].node, to |-> request[c].to,
            outcome |-> IF request[c].kind = "start" THEN "start" ELSE request[c].outcome])]
    /\ RequestAt(c, "reply")
    /\ UNCHANGED <<call, up, entries, session>>

\* recordSessionStep: the index is one more than the largest.
RecordStep(c) ==
    /\ request[c].pc = "record"
    /\ steps' = [steps EXCEPT ![c] = Append(@,
           [node |-> request[c].node, to |-> request[c].to,
            outcome |-> IF request[c].kind = "start" THEN "start" ELSE request[c].outcome])]
    /\ RequestAt(c, "reply")
    /\ UNCHANGED <<call, up, entries, session>>

\* The request ends with an error, and the script that waits for it ends the
\* call: the walk fails, a statement fails, the API process ends, no version is
\* published, there already is a session, a check of advanceSession fails.
RequestFails(c) ==
    /\ request[c].pc \notin {"idle", "reply"}
    /\ request' = [request EXCEPT ![c] = IdleRequest]
    /\ IF call[c].pc = "waiting" THEN EndCall(c) ELSE UNCHANGED <<call, up>>
    /\ UNCHANGED <<entries, session, steps>>

-----------------------------------------------------------------------------
(* managecall_entry.lua.                                                   *)

\* Slip: the loop does not ask session:ready().
LoopNextUnready(c, n) ==
    IF n # NoNode THEN ScriptAt(c, "executing", n) ELSE ScriptAt(c, "over", NoNode)

\* session:ready() at the head of the loop, then the action, if there is one.
LoopNext(c, n) ==
    IF n # NoNode /\ c \in up THEN ScriptAt(c, "executing", n)
    ELSE ScriptAt(c, "over", NoNode)

Send(c, kind, n, outcome) ==
    /\ request' = [request EXCEPT ![c] = [IdleRequest EXCEPT
           !.pc = "read", !.kind = kind, !.node = n, !.outcome = outcome]]
    /\ ScriptAt(c, "waiting", n)

\* The dialplan runs the script; again when the channel is transferred to a
\* number that leads to an IVR.
Enter(c) ==
    /\ c \in up
    /\ \/ call[c].pc = "ready"
       \/ call[c].pc = "over" /\ request[c].pc = "idle"
    /\ entries[c] < MaxEntries
    /\ entries' = [entries EXCEPT ![c] = @ + 1]
    /\ Send(c, "start", NoNode, "completed")
    /\ UNCHANGED <<up, session, steps>>

\* The answer arrives.  After a hangup node the script hangs up in any case.
Reply(c) ==
    /\ request[c].pc = "reply"
    /\ request' = [request EXCEPT ![c] = IdleRequest]
    /\ \/ call[c].pc # "waiting" /\ UNCHANGED <<call, up>>
       \/ call[c].pc = "waiting" /\ request[c].node \in Hangups /\ EndCall(c)
       \/ /\ call[c].pc = "waiting" /\ request[c].node \notin Hangups
          /\ LoopNext(c, request[c].to)
          /\ UNCHANGED up
    /\ UNCHANGED <<entries, session, steps>>

\* Bound: StepsLeft(c) holds until the caller has heard MaxSteps actions, and
\* leaves the script room to end after the caller has gone.
StepsLeft(c) == Len(steps[c]) < MaxSteps + (IF c \in up THEN 0 ELSE 2)

\* The action of node n ends, or the caller has hung up in its course; the
\* script reports it in both cases, without asking session:ready().  What was
\* not collected is reported as a timeout; invalid is never reported.
ActionEnds(c, n, outcome) ==
    /\ call[c] = At("executing", n)
    /\ StepsLeft(c)
    /\ IF n \in Collects THEN outcome \in {"digits", "timeout"} ELSE outcome = "completed"
    /\ Send(c, "advance", n, outcome)
    /\ UNCHANGED <<up, entries, session, steps>>

\* An argument that is not safe for FreeSWITCH: the script hangs up.
ActionRefused(c, n) ==
    /\ call[c] = At("executing", n)
    /\ n \in Terminals
    /\ EndCall(c)
    /\ UNCHANGED <<entries, request, session, steps>>

\* luasocket gives up waiting and the script ends the call; the API works on.
TimeOut(c) ==
    /\ call[c].pc = "waiting"
    /\ EndCall(c)
    /\ UNCHANGED <<entries, request, session, steps>>

HangUp(c) ==
    /\ c \in up
    /\ up' = up \ {c}
    /\ UNCHANGED <<call, entries, request, session, steps>>

-----------------------------------------------------------------------------
ApiStep(c) ==
    \/ \E to \in Actions \cup {NoNode} : StartRead(c, to) \/ AdvanceRead(c, to)
    \/ StartInsert(c) \/ StartComplete(c) \/ AdvanceUpdate(c)
    \/ RecordStep(c) \/ RequestFails(c) \/ Reply(c)

ScriptStep(c) == \E n \in Actions :
    \/ \E outcome \in Outcomes : ActionEnds(c, n, outcome)
    \/ ActionRefused(c, n)

Next == \E c \in Calls : ApiStep(c) \/ ScriptStep(c) \/ Enter(c) \/ TimeOut(c) \/ HangUp(c)

\* A request of the API goes on or fails.  While the caller is there an action
\* may last as long as it likes; once the caller has gone every application of
\* FreeSWITCH returns.
Spec == Init /\ [][Next]_vars /\ \A c \in Calls :
            WF_vars(ApiStep(c)) /\ WF_vars(c \notin up /\ ScriptStep(c))

-----------------------------------------------------------------------------
(* Properties.                                                             *)

\* While the caller hears the action of a node, the session stands at that
\* node and its last step says so: no request that failed half way, timed out
\* or arrived late has moved one without the others.
Last(s) == s[Len(s)]

InStep == \A c \in Calls : call[c].pc = "executing" =>
    /\ session[c] = [status |-> "running", node |-> call[c].node]
    /\ steps[c] # <<>> /\ Last(steps[c]).to = call[c].node

\* The replay of a session is one walk through its graph, from the entry, with
\* no step missing between two others.
ReplayIsPath == \A c \in Calls : \A i \in 1..Len(steps[c]) :
    LET step == steps[c][i] IN
    IF i = 1 THEN step.outcome = "start" /\ step.to \in Walk(Entry)
    ELSE step.node = steps[c][i - 1].to /\ step.to \in NextOf(step.node, step.outcome)

\* A completed session stays completed and gets no step but the one that
\* completed it.
CompletedIsFinal == [][\A c \in Calls : session[c].status = "completed" =>
    /\ session'[c] = session[c]
    /\ steps'[c] # steps[c] => Last(steps'[c]).to = NoNode]_vars

\* The script of a caller who has gone ends, though the graph has cycles.
HangupEndsScript == \A c \in Calls :
    c \notin up ~> call[c].pc \in {"ready", "over"}

\* What the documents promise and the code does not keep: no session dangles.
SessionEnds == \A c \in Calls : c \notin up ~> session[c].status # "running"
=============================================================================
