---------------------------- MODULE GatewayApply ----------------------------
(***************************************************************************)
(* A change of a SIP trunk on its way to the FreeSWITCH nodes.             *)
(* SipTrunkService stores the change, RuntimeApplyService asks every       *)
(* active node to rescan its gateways, the freeswitch-agent of a node      *)
(* polls, claims, sends the rescan and reports, and FreeSWITCH fetches the *)
(* trunks of that moment from the API.                                     *)
(*                                                                         *)
(* As in OutboundDispatch an HTTP call of an agent either completes in one *)
(* step or is abandoned, and may then still reach the API at any later     *)
(* time.                                                                   *)
(***************************************************************************)
EXTENDS Naturals, FiniteSets

CONSTANTS
    Nodes,              \* rows of freeswitch_nodes, each with its agent
    NoNode,
    Editors,            \* API requests that change the trunk concurrently
    MaxChanges,         \* bound: changes of the trunk that are stored
    MaxRequests,        \* bound: rows of runtime_apply_requests
    BatchLimit,         \* LIMIT of the poll
    MaxFaults           \* bound: crashes and abandoned HTTP calls

ASSUME ApplyAssumption ==
    /\ NoNode \notin Nodes
    /\ MaxChanges \in Nat
    /\ MaxRequests \in Nat
    /\ BatchLimit \in Nat \ {0}
    /\ MaxFaults \in Nat

VARIABLES
    trunk,      \* the trunk as stored: the number of changes made to it
    active,     \* nodes with status 'active'
    editor,     \* the locals of each change
    row,        \* runtime_apply_requests, in the order of created_at
    agent,      \* the locals of the ApplyDispatcher loop of each node
    late,       \* abandoned HTTP calls that may still reach the API
    outcome,    \* what SendAPICommand returned to the agent, by request
    runs,       \* rescans FreeSWITCH received, by request
    loaded,     \* the trunk the node has loaded
    ignored,    \* requests whose rescan was answered and loaded nothing
    faults

apiVars     == <<trunk, active, editor>>
historyVars == <<outcome, runs, loaded, ignored>>
vars        == <<apiVars, row, agent, late, historyVars, faults>>

Requests  == 1..MaxRequests
NoRequest == 0
Changes   == 0..MaxChanges
Results   == {"applied", "failed"}

Editor   == [pc : {"idle", "list", "insert"}, change : Changes, todo : SUBSET Nodes]
Row      == [status : Results \cup {"absent", "pending", "applying"},
             node : Nodes \cup {NoNode}, change : Changes]
Agent    == [pc : {"poll", "claim", "execute", "report"}, todo : SUBSET Requests,
             current : Requests \cup {NoRequest}, result : Results]
HttpCall == [call : {"claim"} \cup Results, request : Requests]

IdleEditor == [pc |-> "idle", change |-> 0, todo |-> {}]
IdleAgent  == [pc |-> "poll", todo |-> {}, current |-> NoRequest, result |-> "failed"]

TypeOK ==
    /\ trunk \in Changes
    /\ active \subseteq Nodes
    /\ editor \in [Editors -> Editor]
    /\ row \in [Requests -> Row]
    /\ agent \in [Nodes -> Agent]
    /\ late \subseteq HttpCall
    /\ outcome \in [Requests -> {"none", "answered", "error"}]
    /\ runs \in [Requests -> Nat]
    /\ loaded \in [Nodes -> Changes]
    /\ ignored \subseteq Requests
    /\ faults \in 0..MaxFaults

Init ==
    /\ trunk = 0
    /\ active = Nodes
    /\ editor = [e \in Editors |-> IdleEditor]
    /\ row = [r \in Requests |-> [status |-> "absent", node |-> NoNode, change |-> 0]]
    /\ agent = [n \in Nodes |-> IdleAgent]
    /\ late = {}
    /\ outcome = [r \in Requests |-> "none"]
    /\ runs = [r \in Requests |-> 0]
    /\ loaded = [n \in Nodes |-> 0]
    /\ ignored = {}
    /\ faults = 0

SetStatus(r, status) == row' = [row EXCEPT ![r].status = status]
Fault == faults < MaxFaults /\ faults' = faults + 1

-----------------------------------------------------------------------------
(* SipTrunkService.create, update, deactivate: the statement on sip_trunks, *)
(* then RuntimeApplyService.createForTrunkChange, one INSERT per node.      *)

EditorStep(e, next) == editor' = [editor EXCEPT ![e] = next]

StoreTrunk(e) ==
    /\ editor[e].pc = "idle"
    /\ trunk < MaxChanges
    /\ trunk' = trunk + 1
    /\ EditorStep(e, [pc |-> "list", change |-> trunk + 1, todo |-> {}])
    /\ UNCHANGED <<active, row, agent, late, historyVars, faults>>

\* listActiveNodes.
ListNodes(e) ==
    /\ editor[e].pc = "list"
    /\ EditorStep(e, IF active = {} THEN IdleEditor
                     ELSE [editor[e] EXCEPT !.pc = "insert", !.todo = active])
    /\ UNCHANGED <<trunk, active, row, agent, late, historyVars, faults>>

\* RuntimeApplyRepository.create for the next node of the list.
InsertRequest(e, n, r) ==
    /\ editor[e].pc = "insert"
    /\ n \in editor[e].todo
    /\ row[r].status = "absent"
    /\ \A q \in Requests : q < r => row[q].status # "absent"
    /\ row' = [row EXCEPT ![r] = [status |-> "pending", node |-> n, change |-> editor[e].change]]
    /\ EditorStep(e, IF editor[e].todo = {n} THEN IdleEditor
                     ELSE [editor[e] EXCEPT !.todo = @ \ {n}])
    /\ UNCHANGED <<trunk, active, agent, late, historyVars, faults>>

\* A statement fails, or the API process ends: the trunk stays changed and
\* the nodes that are left are not asked.
FanOutFails(e) ==
    /\ editor[e].pc # "idle"
    /\ EditorStep(e, IdleEditor)
    /\ UNCHANGED <<trunk, active, row, agent, late, historyVars, faults>>

\* NodeRegistryService.update of the status, by a platform admin.
SwitchNode(n) ==
    /\ active' = IF n \in active THEN active \ {n} ELSE active \cup {n}
    /\ UNCHANGED <<trunk, editor, row, agent, late, historyVars, faults>>

-----------------------------------------------------------------------------
(* The statements behind the runtime endpoints.                            *)

\* Slip: the UPDATE has lost its status = 'pending'.
ClaimAny(r) ==
    /\ row[r].status # "absent"
    /\ SetStatus(r, "applying")

\* claim: UPDATE ... WHERE status = 'pending'.
Claim(r) ==
    /\ row[r].status = "pending"
    /\ SetStatus(r, "applying")

\* Slip: the UPDATE asks for status = 'pending'.
ApplyResultUnclaimed(r, result) ==
    IF row[r].status = "pending" THEN SetStatus(r, result) ELSE UNCHANGED row

\* applyResult: UPDATE ... WHERE status = 'applying'; otherwise a 404 the agent
\* does not look at.
ApplyResult(r, result) ==
    IF row[r].status = "applying" THEN SetStatus(r, result) ELSE UNCHANGED row

\* An abandoned call reaches the API after all.
LateArrives(m) ==
    /\ m \in late
    /\ late' = late \ {m}
    /\ \/ m.call \in Results /\ ApplyResult(m.request, m.call)
       \/ m.call = "claim" /\ Claim(m.request)
       \/ m.call = "claim" /\ row[m.request].status # "pending" /\ UNCHANGED row
    /\ UNCHANGED <<apiVars, agent, historyVars, faults>>

-----------------------------------------------------------------------------
(* ApplyDispatcher.poll and processRequest, for the agent of node n.        *)

Pending(n) == {r \in Requests : row[r].status = "pending" /\ row[r].node = n}

\* Slip: the page of the poll starts one row too late.
PollResultOffByOne(n) ==
    {r \in Pending(n) : Cardinality({q \in Pending(n) : q < r}) \in 1..BatchLimit}

\* listPendingForNode: oldest first, at most BatchLimit.
PollResult(n) ==
    {r \in Pending(n) : Cardinality({q \in Pending(n) : q < r}) < BatchLimit}

Poll(n) ==
    /\ agent[n].pc = "poll"
    /\ PollResult(n) # {}
    /\ agent' = [agent EXCEPT ![n].pc = "claim", ![n].todo = PollResult(n)]
    /\ UNCHANGED <<apiVars, row, late, historyVars, faults>>

\* The request of the answer the loop is at.
Claiming(n, r) ==
    /\ agent[n].pc = "claim"
    /\ r \in agent[n].todo
    /\ \A q \in agent[n].todo : r <= q

\* The loop goes on with the next request, or back to the ticker.
NextRequest(n, r) ==
    agent' = [agent EXCEPT ![n] =
        IF agent[n].todo \ {r} = {} THEN IdleAgent
        ELSE [IdleAgent EXCEPT !.pc = "claim", !.todo = agent[n].todo \ {r}]]

ClaimWon(n, r) ==
    /\ Claiming(n, r)
    /\ Claim(r)
    /\ agent' = [agent EXCEPT ![n].pc = "execute", ![n].current = r]
    /\ UNCHANGED <<apiVars, late, historyVars, faults>>

ClaimRefused(n, r) ==
    /\ Claiming(n, r)
    /\ row[r].status # "pending"
    /\ NextRequest(n, r)
    /\ UNCHANGED <<apiVars, row, late, historyVars, faults>>

\* Slip: the claims of the page are sent together, and given up together.
ClaimPageAbandoned(n, r) ==
    /\ Claiming(n, r)
    /\ Fault
    /\ late' = late \cup [call : {"claim"}, request : agent[n].todo]
    /\ agent' = [agent EXCEPT ![n] = IdleAgent]
    /\ UNCHANGED <<apiVars, row, historyVars>>

ClaimAbandoned(n, r) ==
    /\ Claiming(n, r)
    /\ Fault
    /\ late' = late \cup {[call |-> "claim", request |-> r]}
    /\ NextRequest(n, r)
    /\ UNCHANGED <<apiVars, row, historyVars>>

Executing(n, r) == agent[n].pc = "execute" /\ agent[n].current = r
Run(r)          == runs' = [runs EXCEPT ![r] = @ + 1]

\* FreeSWITCH fetches sofia.conf from the configuration endpoint, which
\* renders the trunks of that moment.
Load(n) == loaded' = [loaded EXCEPT ![n] = trunk]

\* Slip: the result is prepared before the command is sent.
ReportAsApplied(n, r, result) ==
    /\ agent' = [agent EXCEPT ![n].pc = "report", ![n].result = "applied"]
    /\ outcome' = [outcome EXCEPT ![r] = IF result = "applied" THEN "answered" ELSE "error"]

\* What the agent will report of the command.
WillReport(n, r, result) ==
    /\ agent' = [agent EXCEPT ![n].pc = "report", ![n].result = result]
    /\ outcome' = [outcome EXCEPT ![r] = IF result = "applied" THEN "answered" ELSE "error"]

\* The command is answered.  Whatever the answer says, -ERR included,
\* executeAction returns it without an error.
ExecuteAnswered(n, r) ==
    /\ Executing(n, r)
    /\ Run(r)
    /\ \/ Load(n) /\ UNCHANGED ignored
       \/ ignored' = ignored \cup {r} /\ UNCHANGED loaded
    /\ WillReport(n, r, "applied")
    /\ UNCHANGED <<apiVars, row, late, faults>>

\* The ESL connection fails, before FreeSWITCH received the command or after.
ExecuteFails(n, r) ==
    /\ Executing(n, r)
    /\ \/ Run(r) /\ (Load(n) \/ UNCHANGED loaded)
       \/ UNCHANGED <<runs, loaded>>
    /\ WillReport(n, r, "failed")
    /\ UNCHANGED <<apiVars, row, late, ignored, faults>>

Reporting(n, r) == agent[n].pc = "report" /\ agent[n].current = r

ReportResult(n, r) ==
    /\ Reporting(n, r)
    /\ ApplyResult(r, agent[n].result)
    /\ NextRequest(n, r)
    /\ UNCHANGED <<apiVars, late, historyVars, faults>>

\* The error of the report is not looked at.
ReportAbandoned(n, r) ==
    /\ Reporting(n, r)
    /\ Fault
    /\ late' = late \cup {[call |-> agent[n].result, request |-> r]}
    /\ NextRequest(n, r)
    /\ UNCHANGED <<apiVars, row, historyVars>>

\* The agent ends and starts again; what it had sent may be on its way.
Crash(n) ==
    /\ agent[n] # IdleAgent
    /\ Fault
    /\ agent' = [agent EXCEPT ![n] = IdleAgent]
    /\ \/ UNCHANGED <<late, runs, loaded>>
       \/ \E r \in Requests :
             \/ /\ Claiming(n, r)
                /\ late' = late \cup {[call |-> "claim", request |-> r]}
                /\ UNCHANGED <<runs, loaded>>
             \/ /\ Executing(n, r)
                /\ Run(r) /\ (Load(n) \/ UNCHANGED loaded)
                /\ UNCHANGED late
             \/ /\ Reporting(n, r)
                /\ late' = late \cup {[call |-> agent[n].result, request |-> r]}
                /\ UNCHANGED <<runs, loaded>>
    /\ UNCHANGED <<apiVars, row, outcome, ignored>>

-----------------------------------------------------------------------------
ApiStep ==
    \/ \E e \in Editors :
          \/ StoreTrunk(e) \/ ListNodes(e) \/ FanOutFails(e)
          \/ \E n \in Nodes, r \in Requests : InsertRequest(e, n, r)
    \/ \E n \in Nodes : SwitchNode(n)
    \/ \E m \in late : LateArrives(m)

\* What the loop does of itself, without a fault.
AgentStep(n) ==
    \/ Poll(n)
    \/ \E r \in Requests :
          \/ ClaimWon(n, r) \/ ClaimRefused(n, r)
          \/ ExecuteAnswered(n, r) \/ ExecuteFails(n, r) \/ ReportResult(n, r)

FaultStep(n) ==
    \/ \E r \in Requests : ClaimAbandoned(n, r) \/ ReportAbandoned(n, r)
    \/ Crash(n)

Next == ApiStep \/ (\E n \in Nodes : AgentStep(n) \/ FaultStep(n))

\* Each loop goes on: its ticker never stops and every HTTP and ESL call has
\* a timeout.  Nobody has to change a trunk, switch a node or crash.
Spec == Init /\ [][Next]_vars /\ \A n \in Nodes : WF_vars(AgentStep(n))

-----------------------------------------------------------------------------
(* Properties.                                                             *)

\* An applying request nobody works on is lost.
PhaseOf(r) ==
    CASE row[r].status = "absent"   -> "absent"
      [] row[r].status = "pending"  -> "waiting"
      [] row[r].status \in Results  -> row[r].status
      [] row[r].status = "applying" ->
            IF outcome[r] = "answered" THEN "answered"
            ELSE IF outcome[r] = "error" THEN "refused"
            ELSE IF \E n \in Nodes : Executing(n, r) THEN "taken" ELSE "lost"

Promise == INSTANCE ApplyOnce WITH
    phase <- [r \in Requests |-> PhaseOf(r)], runs <- runs

\* The rescan of a request is sent at most once, and its row ends as applied
\* or failed only as the command did, whatever was lost, late or restarted.
AppliesOnce == Promise!Spec

\* The node of a request that is recorded as applied has loaded the trunk with
\* the request's change in it, unless FreeSWITCH answered the rescan of that
\* very request and loaded nothing.  A change that is stored meanwhile, a late
\* or lost report, a crash or a rescan that failed never shows as applied.
AppliedOrIgnored ==
    \A r \in Requests : row[r].status = "applied" =>
        row[r].change <= loaded[row[r].node] \/ r \in ignored

\* No request waits for ever behind others or behind a failed claim.
PendingIsClaimed ==
    \A r \in Requests : row[r].status = "pending" ~> row[r].status # "pending"

\* The request somebody works on is recorded, or its agent had a fault.
Working(r) == \E n \in Nodes : agent[n].current = r
ClaimedIsRecorded ==
    \A r \in Requests : Working(r) /\ faults = MaxFaults ~> row[r].status \in Results

\* A fault strands one request at most: that which the agent works on or
\* claims, never the rest of its page, whatever claims and reports arrive
\* late.  Without a fault none is stranded.
Stranded == {r \in Requests : row[r].status = "applying" /\ ~ Working(r)}
StrandedByFaults == Cardinality(Stranded) <= faults

\* What the documents promise and the code does not keep: an applied request
\* means that the node has loaded the change.
AppliedIsLoaded ==
    \A r \in Requests : row[r].status = "applied" => row[r].change <= loaded[row[r].node]
=============================================================================
