------------------------- MODULE GatewayApplyProofs -------------------------
(***************************************************************************)
(* Proofs that a rescan is sent at most once and recorded as it went, and  *)
(* that the node of a request recorded as applied has loaded the change    *)
(* unless it ignored that rescan, for every number of nodes, editors,      *)
(* requests and faults.                                                    *)
(***************************************************************************)
EXTENDS GatewayApply, FiniteSetTheorems, TLAPS

-----------------------------------------------------------------------------
(* The invariant.  The argument: a row belongs to one node from its insert *)
(* on and leaves pending once, so one agent at most executes it, and none  *)
(* did before; what is reported of it, in time or late, is the outcome.    *)
(* The trunk and what a node has loaded only grow, so what was recent      *)
(* enough stays so.                                                        *)

OwnRow(n, r)  == row[r].status # "absent" /\ row[r].node = n
Shows(result) == IF result = "applied" THEN "answered" ELSE "error"

\* What the locals of an agent say of the requests in them.
HolderInv == \A n \in Nodes, r \in Requests :
    /\ r \in agent[n].todo => OwnRow(n, r)
    /\ Executing(n, r) => /\ OwnRow(n, r) /\ row[r].status = "applying"
                          /\ outcome[r] = "none" /\ runs[r] = 0
    /\ Reporting(n, r) => outcome[r] = Shows(agent[n].result)

\* A report that is still on its way tells the outcome.
LateInv == \A m \in late : m.call \in Results => outcome[m.request] = Shows(m.call)

RowInv == \A r \in Requests :
    /\ row[r].status \in {"absent", "pending"} => outcome[r] = "none" /\ runs[r] = 0
    /\ row[r].status \in Results => outcome[r] = Shows(row[r].status)
    /\ runs[r] \in 0..1
    /\ outcome[r] = "answered" => runs[r] = 1

CurrentInv ==
    /\ \A r \in Requests : row[r].change <= trunk
    /\ \A e \in Editors : editor[e].change <= trunk
    /\ \A n \in Nodes : loaded[n] <= trunk
    /\ \A r \in Requests : outcome[r] = "answered" =>
          /\ row[r].node \in Nodes
          /\ row[r].change <= loaded[row[r].node] \/ r \in ignored

ApplyInv == TypeOK /\ HolderInv /\ LateInv /\ RowInv /\ CurrentInv

\* No agent has begun and no request exists.
LEMMA InitApply == Init => ApplyInv
<1> SUFFICES ASSUME Init PROVE ApplyInv
    OBVIOUS
<1> USE DEF Init, IdleAgent, IdleEditor
<1>1. TypeOK
    BY ApplyAssumption DEF TypeOK, Row, Agent, Editor, Changes, Results
<1>2. HolderInv /\ LateInv
    BY DEF HolderInv, LateInv, Executing, Reporting
<1>3. RowInv
    BY DEF RowInv, Results
<1>4. CurrentInv
    BY ApplyAssumption DEF CurrentInv, Changes
<1> QED
    BY <1>1, <1>2, <1>3, <1>4 DEF ApplyInv

-----------------------------------------------------------------------------
(* Types.                                                                  *)

\* The request is a row, not the mark of none.
LEMMA RequestFacts == Requests \subseteq Nat \ {0} /\ NoRequest \notin Requests
BY ApplyAssumption DEF Requests, NoRequest

\* The statements on runtime_apply_requests keep its columns.
LEMMA RowTypes ==
    ASSUME TypeOK, NEW r \in Requests,
           Claim(r) \/ (\E result \in Results : ApplyResult(r, result)) \/ UNCHANGED row
    PROVE  row' \in [Requests -> Row]
<1>1. row \in [Requests -> Row]
    BY DEF TypeOK
<1>2. ASSUME NEW status \in Results \cup {"applying"}, SetStatus(r, status)
      PROVE  row' \in [Requests -> Row]
    BY <1>1, <1>2 DEF SetStatus, Row
<1> QED
    BY <1>1, <1>2 DEF Claim, ApplyResult

\* The loop's ways on keep the type of its locals.
LEMMA AgentTypes ==
    ASSUME TypeOK, NEW n \in Nodes, NEW r \in Requests,
           \/ NextRequest(n, r)
           \/ agent' = [agent EXCEPT ![n] = IdleAgent]
           \/ agent' = [agent EXCEPT ![n].pc = "execute", ![n].current = r]
           \/ \E result \in Results : WillReport(n, r, result)
    PROVE  agent' \in [Nodes -> Agent]
<1>1. agent \in [Nodes -> Agent] /\ agent[n] \in Agent
    BY DEF TypeOK
<1>2. IdleAgent \in Agent
    BY DEF IdleAgent, Agent, Results
<1>3. ASSUME NEW a \in Agent, agent' = [agent EXCEPT ![n] = a] PROVE agent' \in [Nodes -> Agent]
    BY <1>1, <1>3
<1>4. CASE NextRequest(n, r)
    <2>1. [IdleAgent EXCEPT !.pc = "claim", !.todo = agent[n].todo \ {r}] \in Agent
        BY <1>1 DEF IdleAgent, Agent, Results
    <2> QED
        BY <1>2, <1>3, <1>4, <2>1 DEF NextRequest
<1>5. CASE agent' = [agent EXCEPT ![n].pc = "execute", ![n].current = r]
    BY <1>1, <1>5 DEF Agent
<1>6. ASSUME NEW result \in Results, WillReport(n, r, result) PROVE agent' \in [Nodes -> Agent]
    BY <1>1, <1>6 DEF WillReport, Agent
<1> QED
    BY <1>2, <1>3, <1>4, <1>5, <1>6

\* The steps of the API keep the types.
LEMMA ApiTypes == TypeOK /\ ApiStep => TypeOK'
<1> SUFFICES ASSUME TypeOK, ApiStep PROVE TypeOK'
    OBVIOUS
<1>0. IdleEditor \in Editor /\ trunk \in Nat /\ Changes \subseteq Nat /\ MaxChanges \in Nat
    BY ApplyAssumption DEF IdleEditor, Editor, Changes, TypeOK
<1>e. ASSUME NEW e \in Editors, NEW next \in Editor, EditorStep(e, next)
      PROVE  editor' \in [Editors -> Editor]
    BY <1>e DEF TypeOK, EditorStep
<1>r. \A e \in Editors : editor[e] \in Editor
    BY DEF TypeOK
<1>1. ASSUME NEW e \in Editors, StoreTrunk(e) PROVE TypeOK'
    <2>1. trunk + 1 \in Changes
        BY <1>0, <1>1 DEF StoreTrunk, Changes
    <2>2. [pc |-> "list", change |-> trunk + 1, todo |-> {}] \in Editor
        BY <2>1 DEF Editor
    <2> QED
        BY <1>1, <1>e, <2>1, <2>2 DEF StoreTrunk, TypeOK, historyVars
<1>2. ASSUME NEW e \in Editors, ListNodes(e) PROVE TypeOK'
    <2>1. [editor[e] EXCEPT !.pc = "insert", !.todo = active] \in Editor
        BY <1>r DEF TypeOK, Editor
    <2> QED
        BY <1>0, <1>2, <1>e, <2>1 DEF ListNodes, TypeOK, historyVars
<1>3. ASSUME NEW e \in Editors, NEW n \in Nodes, NEW r \in Requests, InsertRequest(e, n, r)
      PROVE  TypeOK'
    <2>1. [editor[e] EXCEPT !.todo = @ \ {n}] \in Editor
        BY <1>r DEF Editor
    <2>2. [status |-> "pending", node |-> n, change |-> editor[e].change] \in Row
        BY <1>r DEF Editor, Row
    <2>3. row' \in [Requests -> Row]
        BY <1>3, <2>2 DEF TypeOK, InsertRequest
    <2> QED
        BY <1>0, <1>3, <1>e, <2>1, <2>3 DEF InsertRequest, TypeOK, historyVars
<1>4. ASSUME NEW e \in Editors, FanOutFails(e) PROVE TypeOK'
    BY <1>0, <1>4, <1>e DEF FanOutFails, TypeOK, historyVars
<1>5. ASSUME NEW n \in Nodes, SwitchNode(n) PROVE TypeOK'
    BY <1>5 DEF SwitchNode, TypeOK, historyVars
<1>6. ASSUME NEW m \in late, LateArrives(m) PROVE TypeOK'
    <2>1. m.request \in Requests /\ late' \subseteq HttpCall
        BY <1>6 DEF TypeOK, HttpCall, LateArrives
    <2>2. row' \in [Requests -> Row]
        BY <1>6, <2>1, RowTypes DEF LateArrives
    <2> QED
        BY <1>6, <2>1, <2>2 DEF LateArrives, TypeOK, apiVars, historyVars
<1> QED
    BY <1>1, <1>2, <1>3, <1>4, <1>5, <1>6 DEF ApiStep

\* The steps of an agent keep the types.
LEMMA AgentStepTypes ==
    ASSUME TypeOK, NEW n \in Nodes, AgentStep(n) \/ FaultStep(n)
    PROVE  TypeOK'
<1>0. agent[n] \in Agent /\ trunk \in Changes
    BY DEF TypeOK
<1>a. ASSUME NEW r \in Requests, Run(r) PROVE runs' \in [Requests -> Nat]
    BY <1>a DEF TypeOK, Run
<1>b. ASSUME NEW r \in Requests, NEW result, WillReport(n, r, result)
      PROVE  outcome' \in [Requests -> {"none", "answered", "error"}]
    BY <1>b DEF TypeOK, WillReport
<1>c. ASSUME Load(n) \/ UNCHANGED loaded PROVE loaded' \in [Nodes -> Changes]
    BY <1>c DEF TypeOK, Load
<1>d. ASSUME Fault PROVE faults' \in 0..MaxFaults
    BY <1>d, ApplyAssumption DEF TypeOK, Fault
<1>e. ASSUME NEW r \in Requests, NEW call \in {"claim"} \cup Results,
             late' = late \cup {[call |-> call, request |-> r]}
      PROVE  late' \subseteq HttpCall
    BY <1>e DEF TypeOK, HttpCall
<1>f. agent[n].result \in Results /\ {"applied", "failed"} \subseteq Results
    BY <1>0 DEF Agent, Results
<1>1. CASE Poll(n)
    <2>1. PollResult(n) \subseteq Requests
        BY DEF PollResult, Pending
    <2>2. agent' \in [Nodes -> Agent]
        BY <1>0, <1>1, <2>1 DEF Poll, TypeOK, Agent
    <2> QED
        BY <1>1, <2>2 DEF Poll, TypeOK, apiVars, historyVars
<1>2. ASSUME NEW r \in Requests, ClaimWon(n, r) PROVE TypeOK'
    BY <1>2, RowTypes, AgentTypes DEF ClaimWon, TypeOK, apiVars, historyVars
<1>3. ASSUME NEW r \in Requests, ClaimRefused(n, r) PROVE TypeOK'
    BY <1>3, AgentTypes DEF ClaimRefused, TypeOK, apiVars, historyVars
<1>4. ASSUME NEW r \in Requests, ExecuteAnswered(n, r) PROVE TypeOK'
    <2>1. ignored' \subseteq Requests /\ loaded' \in [Nodes -> Changes]
        BY <1>4, <1>c DEF ExecuteAnswered, TypeOK
    <2>2. agent' \in [Nodes -> Agent]
        BY <1>4, <1>f, AgentTypes DEF ExecuteAnswered
    <2> QED
        BY <1>4, <1>a, <1>b, <2>1, <2>2 DEF ExecuteAnswered, TypeOK, apiVars
<1>5. ASSUME NEW r \in Requests, ExecuteFails(n, r) PROVE TypeOK'
    <2>1. agent' \in [Nodes -> Agent]
        BY <1>5, <1>f, AgentTypes DEF ExecuteFails
    <2>2. runs' \in [Requests -> Nat]
        BY <1>5, <1>a DEF ExecuteFails, TypeOK
    <2> QED
        BY <1>5, <1>b, <1>c, <2>1, <2>2 DEF ExecuteFails, TypeOK, apiVars
<1>6. ASSUME NEW r \in Requests, ReportResult(n, r) PROVE TypeOK'
    BY <1>6, <1>f, RowTypes, AgentTypes DEF ReportResult, TypeOK, apiVars, historyVars
<1>7. ASSUME NEW r \in Requests, ClaimAbandoned(n, r) PROVE TypeOK'
    BY <1>7, <1>d, <1>e, AgentTypes DEF ClaimAbandoned, TypeOK, apiVars, historyVars
<1>8. ASSUME NEW r \in Requests, ReportAbandoned(n, r) PROVE TypeOK'
    BY <1>8, <1>d, <1>e, <1>f, AgentTypes DEF ReportAbandoned, TypeOK, apiVars, historyVars
<1>9. CASE Crash(n)
    <2>1. late' \subseteq HttpCall
        BY <1>9, <1>e, <1>f DEF Crash, TypeOK
    <2>2. runs' \in [Requests -> Nat] /\ loaded' \in [Nodes -> Changes]
        BY <1>9, <1>a, <1>c DEF Crash, TypeOK
    <2>3. agent' \in [Nodes -> Agent]
        BY <1>9 DEF Crash, TypeOK, IdleAgent, Agent, Results
    <2> QED
        BY <1>9, <1>d, <2>1, <2>2, <2>3 DEF Crash, TypeOK, apiVars
<1> QED
    BY <1>1, <1>2, <1>3, <1>4, <1>5, <1>6, <1>7, <1>8, <1>9 DEF AgentStep, FaultStep

\* Every step keeps the types.
LEMMA NextTypes == TypeOK /\ [Next]_vars => TypeOK'
<1> SUFFICES ASSUME TypeOK, [Next]_vars PROVE TypeOK'
    OBVIOUS
<1>1. CASE UNCHANGED vars
    BY <1>1 DEF TypeOK, vars, apiVars, historyVars
<1> QED
    BY <1>1, ApiTypes, AgentStepTypes DEF Next

-----------------------------------------------------------------------------
(* The steps of the API.                                                   *)

\* A change of the trunk leaves the agents, their history and the late calls
\* alone: it disturbs at most what is said of the rows.
LEMMA EditorSteps ==
    ASSUME ApplyInv, NEW e \in Editors,
           \/ StoreTrunk(e) \/ ListNodes(e) \/ FanOutFails(e)
           \/ \E n \in Nodes, r \in Requests : InsertRequest(e, n, r)
    PROVE  HolderInv' /\ LateInv' /\ RowInv' /\ CurrentInv'
<1>0. TypeOK /\ HolderInv /\ LateInv /\ RowInv /\ CurrentInv
    BY DEF ApplyInv
<1>1. /\ trunk \in Nat /\ editor \in [Editors -> Editor] /\ row \in [Requests -> Row]
      /\ \A r \in Requests : row[r].change \in Nat
      /\ \A d \in Editors : editor[d].change \in Nat
      /\ \A n \in Nodes : loaded[n] \in Nat
    BY <1>0, ApplyAssumption DEF TypeOK, Changes, Editor, Row
<1>2. UNCHANGED <<agent, late, historyVars>>
    BY DEF StoreTrunk, ListNodes, FanOutFails, InsertRequest
<1> USE <1>2 DEF historyVars
<1>3. CASE StoreTrunk(e) \/ ListNodes(e) \/ FanOutFails(e)
    <2>1. /\ UNCHANGED row /\ trunk' \in Nat /\ trunk <= trunk'
          /\ \A d \in Editors : editor'[d].change <= trunk'
        <3>1. CASE StoreTrunk(e)
            BY <1>0, <1>1, <3>1 DEF StoreTrunk, EditorStep, CurrentInv
        <3>2. CASE ListNodes(e)
            BY <1>0, <1>1, <3>2 DEF ListNodes, EditorStep, IdleEditor, CurrentInv, Editor
        <3>3. CASE FanOutFails(e)
            BY <1>0, <1>1, <3>3 DEF FanOutFails, EditorStep, IdleEditor, CurrentInv
        <3> QED
            BY <1>3, <3>1, <3>2, <3>3
    <2>2. HolderInv' /\ LateInv' /\ RowInv'
        BY <1>0, <2>1 DEF HolderInv, LateInv, RowInv, Executing, Reporting, OwnRow
    <2>3. CurrentInv'
        BY <1>0, <1>1, <2>1 DEF CurrentInv
    <2> QED
        BY <2>2, <2>3
<1>4. ASSUME NEW n \in Nodes, NEW r \in Requests, InsertRequest(e, n, r)
      PROVE  HolderInv' /\ LateInv' /\ RowInv' /\ CurrentInv'
    <2>1. /\ row[r].status = "absent" /\ UNCHANGED trunk
          /\ row' = [row EXCEPT ![r] = [status |-> "pending", node |-> n, change |-> editor[e].change]]
          /\ \A d \in Editors : editor'[d].change <= trunk
        BY <1>0, <1>1, <1>4, ApplyAssumption DEF InsertRequest, EditorStep, IdleEditor, CurrentInv
    <2>2. /\ row'[r].status = "pending" /\ row'[r].change <= trunk
          /\ \A q \in Requests \ {r} : row'[q] = row[q]
        BY <1>0, <1>1, <2>1 DEF CurrentInv
    <2>3. outcome[r] = "none" /\ runs[r] = 0
        BY <1>0, <2>1 DEF RowInv
    <2>4. HolderInv'
        BY <1>0, <2>1, <2>2 DEF HolderInv, Executing, Reporting, OwnRow
    <2>5. LateInv' /\ RowInv'
        BY <1>0, <2>2, <2>3 DEF LateInv, RowInv, Results
    <2>6. CurrentInv'
        BY <1>0, <2>1, <2>2, <2>3 DEF CurrentInv
    <2> QED
        BY <2>4, <2>5, <2>6
<1> QED
    BY <1>3, <1>4

\* A row keeps its node and change, and while its outcome is open it stays
\* with who executes it.
RowsGoOn == \A q \in Requests :
    /\ row'[q].node = row[q].node /\ row'[q].change = row[q].change
    /\ row[q].status # "absent" => row'[q].status # "absent"
    /\ row[q].status = "applying" /\ outcome[q] = "none" => row'[q].status = "applying"

\* What a node has loaded grows, up to the trunk as it is stored.
LoadsOn == \A n \in Nodes : /\ loaded[n] \in Nat /\ loaded'[n] \in Nat
                            /\ loaded[n] <= loaded'[n] /\ loaded'[n] <= trunk

LEMMA LoadingOn ==
    ASSUME ApplyInv, NEW n \in Nodes, Load(n) \/ UNCHANGED loaded
    PROVE  LoadsOn
<1>1. trunk \in Nat /\ loaded \in [Nodes -> Nat] /\ \A k \in Nodes : loaded[k] <= trunk
    BY DEF ApplyInv, TypeOK, Changes, CurrentInv
<1>2. \A k \in Nodes : loaded'[k] = loaded[k] \/ loaded'[k] = trunk
    BY <1>1 DEF Load
<1> QED
    BY <1>1, <1>2 DEF LoadsOn

\* Then what was answered stays loaded or ignored.
LEMMA CurrentKeeps ==
    ASSUME ApplyInv, LoadsOn, RowsGoOn, UNCHANGED <<trunk, editor, ignored>>,
           \A q \in Requests : outcome'[q] = "answered" => outcome[q] = "answered"
    PROVE  CurrentInv'
<1>1. CurrentInv /\ \A q \in Requests : row[q].change \in Nat
    BY DEF ApplyInv, TypeOK, Row, Changes
<1> QED
    BY <1>1 DEF CurrentInv, LoadsOn, RowsGoOn

\* A claim or a report that reaches the API, if what it reports is the outcome,
\* keeps the rows true.
LEMMA StatementKeeps ==
    ASSUME TypeOK, RowInv, NEW r \in Requests,
           \/ Claim(r)
           \/ \E result \in Results : ApplyResult(r, result) /\ outcome[r] = Shows(result)
           \/ UNCHANGED row,
           UNCHANGED <<outcome, runs>>
    PROVE  /\ RowInv'
           /\ RowsGoOn
<1>1. row \in [Requests -> Row]
    BY DEF TypeOK
<1>2. CASE Claim(r)
    BY <1>1, <1>2 DEF Claim, SetStatus, RowInv, RowsGoOn, Results, Row
<1>3. ASSUME NEW result \in Results, ApplyResult(r, result), outcome[r] = Shows(result),
             row[r].status = "applying"
      PROVE  /\ RowInv'
             /\ RowsGoOn
    <2>1. /\ row'[r].status = result /\ row'[r].node = row[r].node /\ row'[r].change = row[r].change
          /\ \A q \in Requests \ {r} : row'[q] = row[q]
        BY <1>1, <1>3 DEF ApplyResult, SetStatus, Row
    <2>2. outcome[r] # "none" /\ result \notin {"absent", "pending", "applying"}
        BY <1>3 DEF Shows, Results
    <2> QED
        BY <1>3, <2>1, <2>2 DEF RowInv, RowsGoOn, Results
<1>4. CASE UNCHANGED row
    BY <1>4 DEF RowInv, RowsGoOn
<1> QED
    BY <1>2, <1>3, <1>4 DEF ApplyResult

\* What an abandoned call does when it reaches the API.
LEMMA LateArrivesStep ==
    ASSUME ApplyInv, NEW m \in late, LateArrives(m)
    PROVE  HolderInv' /\ LateInv' /\ RowInv' /\ CurrentInv'
<1>0. TypeOK /\ HolderInv /\ LateInv /\ RowInv /\ CurrentInv
    BY DEF ApplyInv
<1>1. UNCHANGED <<agent, outcome, runs, loaded, ignored, trunk, editor>> /\ late' \subseteq late
    BY DEF LateArrives, apiVars, historyVars
<1>2. /\ RowInv'
      /\ RowsGoOn
    <2>1. m.request \in Requests
        BY <1>0 DEF TypeOK, HttpCall
    <2>2. \/ Claim(m.request)
          \/ \E result \in Results : ApplyResult(m.request, result) /\ outcome[m.request] = Shows(result)
          \/ UNCHANGED row
        BY <1>0 DEF LateArrives, LateInv
    <2> QED
        BY <1>0, <1>1, <2>1, <2>2, StatementKeeps
<1>3. HolderInv'
    BY <1>0, <1>1, <1>2 DEF HolderInv, Executing, Reporting, OwnRow, RowsGoOn
<1>4. LateInv'
    BY <1>0, <1>1 DEF LateInv
<1>5. CurrentInv'
    BY <1>0, <1>1, <1>2 DEF CurrentInv, RowsGoOn
<1> QED
    BY <1>2, <1>3, <1>4, <1>5

-----------------------------------------------------------------------------
(* The steps of an agent.                                                  *)

\* The agent of n is done with the request it was at.
LetsGo(n) ==
    /\ \A k \in Nodes \ {n} : agent'[k] = agent[k]
    /\ agent'[n].todo \subseteq agent[n].todo
    /\ agent'[n].pc \notin {"execute", "report"}

LEMMA LettingGo ==
    ASSUME TypeOK, NEW n \in Nodes,
           \/ \E r \in Requests : NextRequest(n, r)
           \/ agent' = [agent EXCEPT ![n] = IdleAgent]
    PROVE  LetsGo(n)
<1>1. agent \in [Nodes -> Agent]
    BY DEF TypeOK
<1>2. CASE agent' = [agent EXCEPT ![n] = IdleAgent]
    BY <1>1, <1>2 DEF LetsGo, IdleAgent
<1>3. ASSUME NEW r \in Requests, NextRequest(n, r) PROVE LetsGo(n)
    BY <1>1, <1>3 DEF NextRequest, LetsGo, IdleAgent
<1> QED
    BY <1>2, <1>3

\* An agent that executes a request is the only one.
LEMMA OneExecutor ==
    ASSUME ApplyInv, NEW n \in Nodes, NEW k \in Nodes, NEW r \in Requests,
           Executing(n, r), Executing(k, r)
    PROVE  n = k
BY DEF ApplyInv, HolderInv, OwnRow

\* An agent that lets go of its request, having run it or not, having sent a
\* report or not, says nothing false.
LEMMA ReleaseKeeps ==
    ASSUME ApplyInv, NEW n \in Nodes, LetsGo(n), RowsGoOn,
           UNCHANGED <<trunk, editor, outcome, ignored>>, LoadsOn,
           \A q \in Requests : runs'[q] = runs[q] \/ Executing(n, q),
           \A m \in late' : m \in late \/ m.call \notin Results \/
               (m.request \in Requests /\ Reporting(n, m.request) /\ m.call = agent[n].result)
    PROVE  HolderInv' /\ LateInv' /\ CurrentInv'
<1>0. TypeOK /\ HolderInv /\ LateInv /\ RowInv /\ CurrentInv
    BY DEF ApplyInv
<1>1. HolderInv'
    <2> SUFFICES ASSUME NEW k \in Nodes, NEW r \in Requests
                 PROVE  /\ r \in agent'[k].todo => OwnRow(k, r)'
                        /\ Executing(k, r)' => /\ OwnRow(k, r)' /\ row'[r].status = "applying"
                                               /\ outcome'[r] = "none" /\ runs'[r] = 0
                        /\ Reporting(k, r)' => outcome'[r] = Shows(agent'[k].result)
        BY DEF HolderInv
    <2>1. OwnRow(k, r) => OwnRow(k, r)'
        BY DEF RowsGoOn, OwnRow
    <2>2. CASE k = n
        BY <1>0, <2>1, <2>2 DEF HolderInv, LetsGo, Executing, Reporting
    <2>3. CASE k # n
        <3>1. agent'[k] = agent[k] /\ (Executing(k, r) => runs'[r] = runs[r])
            BY <2>3, OneExecutor DEF LetsGo
        <3> QED
            BY <1>0, <2>1, <3>1 DEF HolderInv, RowsGoOn, Executing, Reporting
    <2> QED
        BY <2>2, <2>3
<1>2. LateInv'
    BY <1>0 DEF LateInv, HolderInv
<1>3. CurrentInv'
    BY CurrentKeeps
<1> QED
    BY <1>1, <1>2, <1>3

\* A command that has ended, with what the agent will report of it.
LEMMA ExecutedKeeps ==
    ASSUME ApplyInv, NEW n \in Nodes, NEW r \in Requests, NEW result \in Results,
           Executing(n, r), WillReport(n, r, result), UNCHANGED <<row, late>>,
           \A q \in Requests \ {r} : runs'[q] = runs[q],
           runs'[r] \in 0..1, result = "applied" => runs'[r] = 1
    PROVE  /\ HolderInv' /\ LateInv' /\ RowInv'
           /\ outcome'[r] = Shows(result) /\ \A q \in Requests \ {r} : outcome'[q] = outcome[q]
<1>0. TypeOK /\ HolderInv /\ LateInv /\ RowInv
    BY DEF ApplyInv
<1>1. /\ OwnRow(n, r) /\ row[r].status = "applying" /\ outcome[r] = "none"
      /\ \A k \in Nodes \ {n} : ~ Executing(k, r)
    BY <1>0, OneExecutor DEF HolderInv
<1>2. outcome'[r] = Shows(result) /\ \A q \in Requests \ {r} : outcome'[q] = outcome[q]
    BY <1>0 DEF TypeOK, WillReport, Shows
<1>3. /\ agent'[n].pc = "report" /\ agent'[n].result = result
      /\ agent'[n].todo = agent[n].todo /\ agent'[n].current = r
      /\ \A k \in Nodes \ {n} : agent'[k] = agent[k]
    BY <1>0 DEF TypeOK, Agent, WillReport, Executing
<1>4. HolderInv'
    <2> SUFFICES ASSUME NEW k \in Nodes, NEW q \in Requests
                 PROVE  /\ q \in agent'[k].todo => OwnRow(k, q)'
                        /\ Executing(k, q)' => /\ OwnRow(k, q)' /\ row'[q].status = "applying"
                                               /\ outcome'[q] = "none" /\ runs'[q] = 0
                        /\ Reporting(k, q)' => outcome'[q] = Shows(agent'[k].result)
        BY DEF HolderInv
    <2>1. CASE k = n
        BY <1>0, <1>2, <1>3, <2>1 DEF HolderInv, OwnRow, Executing, Reporting
    <2>2. CASE k # n
        <3>1. agent'[k] = agent[k]
            BY <1>3, <2>2
        <3>2. Executing(k, q) => q # r
            BY <1>1, <2>2
        <3>3. Reporting(k, q) => q # r
            BY <1>0, <1>1 DEF HolderInv, Shows
        <3> QED
            BY <1>0, <1>2, <3>1, <3>2, <3>3 DEF HolderInv, OwnRow, Executing, Reporting
    <2> QED
        BY <2>1, <2>2
<1>5. LateInv'
    BY <1>0, <1>1, <1>2 DEF LateInv, Shows, TypeOK, HttpCall
<1>6. RowInv'
    BY <1>0, <1>1, <1>2 DEF RowInv, Shows, Results
<1> QED
    BY <1>2, <1>4, <1>5, <1>6

\* The loop, its faults included, keeps what is said of it.
LEMMA AgentStepKeeps ==
    ASSUME ApplyInv, NEW n \in Nodes, AgentStep(n) \/ FaultStep(n)
    PROVE  HolderInv' /\ LateInv' /\ RowInv' /\ CurrentInv'
<1>0. TypeOK /\ HolderInv /\ LateInv /\ RowInv /\ CurrentInv /\ agent \in [Nodes -> Agent]
    BY DEF ApplyInv, TypeOK
<1>a. UNCHANGED loaded => LoadsOn
    BY LoadingOn
<1>1. CASE Poll(n)
    <2>1. PollResult(n) \subseteq {r \in Requests : OwnRow(n, r)}
        BY DEF PollResult, Pending, OwnRow
    <2>2. UNCHANGED <<apiVars, row, late, historyVars>>
        BY <1>1 DEF Poll
    <2>3. /\ agent'[n].pc = "claim" /\ agent'[n].todo = PollResult(n)
          /\ \A k \in Nodes \ {n} : agent'[k] = agent[k]
        BY <1>0, <1>1 DEF Poll, Agent
    <2>4. HolderInv'
        BY <1>0, <2>1, <2>2, <2>3 DEF HolderInv, Executing, Reporting, OwnRow, historyVars
    <2>5. LateInv' /\ RowInv' /\ CurrentInv'
        BY <1>0, <2>2 DEF LateInv, RowInv, CurrentInv, apiVars, historyVars
    <2> QED
        BY <2>4, <2>5
<1>2. ASSUME NEW r \in Requests, ClaimWon(n, r)
      PROVE  HolderInv' /\ LateInv' /\ RowInv' /\ CurrentInv'
    <2>1. UNCHANGED <<apiVars, late, historyVars>> /\ Claim(r) /\ Claiming(n, r)
        BY <1>2 DEF ClaimWon
    <2>2. RowInv' /\ RowsGoOn
        BY <1>0, <2>1, StatementKeeps DEF historyVars
    <2>3. /\ agent'[n].pc = "execute" /\ agent'[n].todo = agent[n].todo /\ agent'[n].current = r
          /\ \A k \in Nodes \ {n} : agent'[k] = agent[k]
        BY <1>0, <1>2 DEF ClaimWon, Agent
    <2>4. /\ row[r].status = "pending" /\ row'[r].status = "applying" /\ OwnRow(n, r)
          /\ outcome[r] = "none" /\ runs[r] = 0
        BY <1>0, <2>1 DEF Claim, SetStatus, Claiming, HolderInv, RowInv, TypeOK, Row
    <2>5. HolderInv'
        BY <1>0, <2>1, <2>2, <2>3, <2>4
           DEF HolderInv, Executing, Reporting, OwnRow, RowsGoOn, historyVars
    <2>6. LateInv' /\ CurrentInv'
        BY <1>0, <2>1, <2>2 DEF LateInv, CurrentInv, RowsGoOn, apiVars, historyVars
    <2> QED
        BY <2>2, <2>5, <2>6
<1>3. ASSUME NEW r \in Requests, ClaimRefused(n, r) \/ ClaimAbandoned(n, r)
      PROVE  HolderInv' /\ LateInv' /\ RowInv' /\ CurrentInv'
    <2>1. /\ UNCHANGED <<apiVars, row, historyVars>> /\ NextRequest(n, r)
          /\ \A m \in late' : m \in late \/ m.call = "claim"
        BY <1>3 DEF ClaimRefused, ClaimAbandoned
    <2>2. RowInv' /\ RowsGoOn /\ LetsGo(n)
        BY <1>0, <2>1, StatementKeeps, LettingGo DEF historyVars
    <2> QED
        BY <1>a, <2>1, <2>2, ReleaseKeeps DEF apiVars, historyVars, Results
<1>4. ASSUME NEW r \in Requests, ExecuteAnswered(n, r)
      PROVE  HolderInv' /\ LateInv' /\ RowInv' /\ CurrentInv'
    <2>1. /\ Executing(n, r) /\ UNCHANGED <<apiVars, row, late>> /\ WillReport(n, r, "applied")
          /\ runs[r] = 0 /\ OwnRow(n, r)
        BY <1>0, <1>4 DEF ExecuteAnswered, HolderInv
    <2>2. runs'[r] = 1 /\ \A q \in Requests \ {r} : runs'[q] = runs[q]
        BY <1>0, <1>4, <2>1 DEF ExecuteAnswered, Run, TypeOK
    <2>3. /\ HolderInv' /\ LateInv' /\ RowInv'
          /\ \A q \in Requests \ {r} : outcome'[q] = outcome[q]
        BY <2>1, <2>2, ExecutedKeeps DEF Results
    <2>4. LoadsOn /\ ignored \subseteq ignored' /\ (loaded'[n] = trunk \/ r \in ignored')
        <3>1. LoadsOn
            BY <1>4, LoadingOn DEF ExecuteAnswered
        <3> QED
            BY <1>0, <1>4, <3>1 DEF ExecuteAnswered, Load, TypeOK
    <2>5. \A q \in Requests : row[q].change \in Nat /\ row[q].change <= trunk
        BY <1>0 DEF TypeOK, Changes, Row, CurrentInv
    <2>6. \A q \in Requests : outcome'[q] = "answered" =>
              row[q].node \in Nodes /\ (row[q].change <= loaded'[row[q].node] \/ q \in ignored')
        <3> SUFFICES ASSUME NEW q \in Requests, outcome'[q] = "answered"
                     PROVE  row[q].node \in Nodes /\ (row[q].change <= loaded'[row[q].node] \/ q \in ignored')
            OBVIOUS
        <3>1. CASE q = r
            BY <2>1, <2>4, <2>5, <3>1 DEF OwnRow
        <3>2. CASE q # r
            BY <1>0, <2>3, <2>4, <2>5, <3>2 DEF CurrentInv, LoadsOn
        <3> QED
            BY <3>1, <3>2
    <2>7. CurrentInv'
        BY <1>0, <2>1, <2>4, <2>6 DEF CurrentInv, LoadsOn, apiVars
    <2> QED
        BY <2>3, <2>7
<1>5. ASSUME NEW r \in Requests, ExecuteFails(n, r)
      PROVE  HolderInv' /\ LateInv' /\ RowInv' /\ CurrentInv'
    <2>1. /\ Executing(n, r) /\ UNCHANGED <<apiVars, row, late, ignored>> /\ WillReport(n, r, "failed")
          /\ runs[r] = 0
        BY <1>0, <1>5 DEF ExecuteFails, HolderInv
    <2>2. runs'[r] \in 0..1 /\ \A q \in Requests \ {r} : runs'[q] = runs[q]
        BY <1>0, <1>5, <2>1 DEF ExecuteFails, Run, TypeOK
    <2>3. /\ HolderInv' /\ LateInv' /\ RowInv' /\ outcome'[r] = "error"
          /\ \A q \in Requests \ {r} : outcome'[q] = outcome[q]
        BY <2>1, <2>2, ExecutedKeeps DEF Results, Shows
    <2>4. LoadsOn /\ RowsGoOn
        BY <1>5, <2>1, LoadingOn DEF ExecuteFails, RowsGoOn
    <2>5. CurrentInv'
        BY <2>1, <2>3, <2>4, CurrentKeeps DEF apiVars
    <2> QED
        BY <2>3, <2>5
<1>6. ASSUME NEW r \in Requests, ReportResult(n, r)
      PROVE  HolderInv' /\ LateInv' /\ RowInv' /\ CurrentInv'
    <2>1. /\ UNCHANGED <<apiVars, late, historyVars>> /\ NextRequest(n, r)
          /\ ApplyResult(r, agent[n].result) /\ agent[n].result \in Results
          /\ outcome[r] = Shows(agent[n].result)
        BY <1>0, <1>6 DEF ReportResult, HolderInv, Agent
    <2>2. RowInv' /\ RowsGoOn /\ LetsGo(n)
        BY <1>0, <2>1, StatementKeeps, LettingGo DEF historyVars
    <2> QED
        BY <1>a, <2>1, <2>2, ReleaseKeeps DEF apiVars, historyVars
<1>7. ASSUME NEW r \in Requests, ReportAbandoned(n, r)
      PROVE  HolderInv' /\ LateInv' /\ RowInv' /\ CurrentInv'
    <2>1. /\ UNCHANGED <<apiVars, row, historyVars>> /\ NextRequest(n, r) /\ Reporting(n, r)
          /\ late' = late \cup {[call |-> agent[n].result, request |-> r]}
        BY <1>7 DEF ReportAbandoned
    <2>2. RowInv' /\ RowsGoOn /\ LetsGo(n)
        BY <1>0, <2>1, StatementKeeps, LettingGo DEF historyVars
    <2> QED
        BY <1>a, <2>1, <2>2, ReleaseKeeps DEF apiVars, historyVars
<1>8. CASE Crash(n)
    <2>1. UNCHANGED <<apiVars, row, outcome, ignored>> /\ LetsGo(n)
        BY <1>0, <1>8, LettingGo DEF Crash
    <2>5. LoadsOn
        BY <1>8, LoadingOn DEF Crash
    <2>2. /\ RowsGoOn
          /\ \A q \in Requests : runs'[q] = runs[q] \/ (Executing(n, q) /\ runs'[q] = runs[q] + 1)
        BY <1>0, <1>8, <2>1 DEF Crash, RowsGoOn, Run, TypeOK
    <2>3. RowInv'
        BY <1>0, <2>1, <2>2 DEF RowInv, HolderInv, Results
    <2>4. \A m \in late' : m \in late \/ m.call \notin Results \/
              (m.request \in Requests /\ Reporting(n, m.request) /\ m.call = agent[n].result)
        BY <1>8 DEF Crash, Results
    <2> QED
        BY <2>1, <2>2, <2>3, <2>4, <2>5, ReleaseKeeps DEF apiVars
<1> QED
    BY <1>1, <1>2, <1>3, <1>4, <1>5, <1>6, <1>7, <1>8 DEF AgentStep, FaultStep

\* Every step keeps the invariant.
LEMMA NextApply == ApplyInv /\ [Next]_vars => ApplyInv'
<1> SUFFICES ASSUME ApplyInv, [Next]_vars PROVE ApplyInv'
    OBVIOUS
<1>1. TypeOK'
    BY NextTypes DEF ApplyInv
<1>2. CASE UNCHANGED vars
    BY <1>1, <1>2 DEF ApplyInv, HolderInv, LateInv, RowInv, CurrentInv, OwnRow, Executing, Reporting,
       vars, apiVars, historyVars
<1>3. ASSUME NEW n \in Nodes, SwitchNode(n) PROVE ApplyInv'
    BY <1>1, <1>3 DEF SwitchNode, ApplyInv, HolderInv, LateInv, RowInv, CurrentInv, OwnRow,
       Executing, Reporting, historyVars
<1> QED
    BY <1>1, <1>2, <1>3, EditorSteps, LateArrivesStep, AgentStepKeeps DEF Next, ApiStep, ApplyInv

\* In every behaviour of the system the invariant holds.
THEOREM ApplyInvariant == Spec => []ApplyInv
BY InitApply, NextApply, PTL DEF Spec

\* The state has its type: the tables and the agents hold what they may.
THEOREM TypeCorrect == Spec => []TypeOK
BY ApplyInvariant, PTL DEF ApplyInv

\* The node of a request recorded as applied has loaded its change, unless it
\* answered that rescan and loaded nothing.
THEOREM AppliedLoaded == Spec => []AppliedOrIgnored
<1>1. ApplyInv => AppliedOrIgnored
    BY DEF ApplyInv, RowInv, CurrentInv, AppliedOrIgnored, Shows, Results
<1> QED
    BY <1>1, ApplyInvariant, PTL

-----------------------------------------------------------------------------
(* How many requests are stranded.  The argument: a step without a fault   *)
(* strands only a request whose late claim arrives, and that claim was     *)
(* paid for with a fault when it was abandoned; a step with a fault        *)
(* strands what its agent works on, or leaves one claim behind.            *)

\* Stranded, or about to be by a claim nobody waits for any more.
LateClaims == {r \in Requests : [call |-> "claim", request |-> r] \in late}
Owed       == Stranded \cup LateClaims

\* An agent that is not at a request holds none.
AtNone(n) == agent[n].pc \in {"poll", "claim"} => agent[n].current = NoRequest

OwedInv ==
    /\ \A n \in Nodes : AtNone(n)
    /\ Cardinality(Owed) <= faults

\* What a step may add to what is owed: nothing, or for a fault one request.
OwesNoMore == Owed' \subseteq Owed /\ faults' = faults
OwesOneMore ==
    /\ Owed' \subseteq Owed \/ \E r \in Requests : Owed' \subseteq Owed \cup {r}
    /\ faults' = faults + 1

\* There are finitely many requests to be owed.
LEMMA OwedFinite == IsFiniteSet(Owed) /\ IsFiniteSet(Stranded) /\ Stranded \subseteq Owed
<1>1. IsFiniteSet(Requests)
    BY ApplyAssumption, FS_Interval DEF Requests
<1>2. Owed \subseteq Requests /\ Stranded \subseteq Owed
    BY DEF Owed, Stranded, LateClaims
<1> QED
    BY <1>1, <1>2, FS_Subset

\* An agent that lets go of its request works on none.
LEMMA HandsEmpty ==
    ASSUME TypeOK, NEW n \in Nodes,
           \/ \E r \in Requests : NextRequest(n, r)
           \/ agent' = [agent EXCEPT ![n] = IdleAgent]
    PROVE  /\ agent'[n].current = NoRequest
           /\ \A k \in Nodes \ {n} : agent'[k] = agent[k]
<1>1. agent \in [Nodes -> Agent]
    BY DEF TypeOK
<1>2. CASE agent' = [agent EXCEPT ![n] = IdleAgent]
    BY <1>1, <1>2 DEF IdleAgent
<1>3. ASSUME NEW r \in Requests, NextRequest(n, r)
      PROVE  /\ agent'[n].current = NoRequest
             /\ \A k \in Nodes \ {n} : agent'[k] = agent[k]
    BY <1>1, <1>3 DEF NextRequest, IdleAgent
<1> QED
    BY <1>2, <1>3

\* Rows and late claims that go nowhere, while agents keep what they work on
\* or let go of what is not applying, leave nothing more owed.
LEMMA NothingOwed ==
    ASSUME faults' = faults, LateClaims' \subseteq LateClaims,
           \A r \in Requests : row'[r].status = "applying" /\ ~ Working(r)' => r \in Owed
    PROVE  OwesNoMore
BY DEF OwesNoMore, Owed, Stranded

\* A step of the API strands no request that was not owed.
LEMMA ApiOwes ==
    ASSUME TypeOK, ApiStep
    PROVE  OwesNoMore /\ agent' = agent
<1>0. row \in [Requests -> Row] /\ late \subseteq HttpCall
    BY DEF TypeOK
<1>1. agent' = agent /\ faults' = faults
    BY DEF ApiStep, StoreTrunk, ListNodes, FanOutFails, InsertRequest, SwitchNode, LateArrives
<1>2. \A r \in Requests : Working(r)' <=> Working(r)
    BY <1>1 DEF Working
<1>3. ASSUME NEW e \in Editors, NEW n \in Nodes, NEW r \in Requests, InsertRequest(e, n, r)
      PROVE  OwesNoMore
    <2>1. \A q \in Requests : row'[q].status = "applying" => row[q].status = "applying"
        BY <1>0, <1>3 DEF InsertRequest
    <2>2. LateClaims' = LateClaims
        BY <1>3 DEF InsertRequest, LateClaims
    <2> QED
        BY <1>1, <1>2, <2>1, <2>2, NothingOwed DEF Owed, Stranded
<1>4. ASSUME NEW m \in late, LateArrives(m) PROVE OwesNoMore
    <2>1. m.request \in Requests /\ late' \subseteq late
        BY <1>0, <1>4 DEF HttpCall, LateArrives
    <2>2. LateClaims' \subseteq LateClaims
        BY <2>1 DEF LateClaims
    <2>3. CASE m.call = "claim"
        <3>1. m = [call |-> "claim", request |-> m.request]
            BY <1>0, <2>3 DEF HttpCall
        <3>2. m.request \in LateClaims
            BY <2>1, <3>1 DEF LateClaims
        <3>3. \A q \in Requests \ {m.request} : row'[q] = row[q]
            BY <1>0, <1>4, <2>1, <2>3 DEF LateArrives, Claim, SetStatus, Results
        <3> QED
            BY <1>1, <1>2, <2>2, <3>2, <3>3, NothingOwed DEF Owed, Stranded
    <2>4. CASE m.call # "claim"
        <3>1. m.call \in Results /\ ApplyResult(m.request, m.call)
            BY <1>4, <2>4 DEF LateArrives
        <3>2. \A q \in Requests : row'[q].status = "applying" => row[q].status = "applying"
            BY <1>0, <2>1, <3>1 DEF ApplyResult, SetStatus, Row, Results
        <3> QED
            BY <1>1, <1>2, <2>2, <3>2, NothingOwed DEF Owed, Stranded
    <2> QED
        BY <2>3, <2>4
<1>5. ASSUME UNCHANGED <<row, late>> PROVE OwesNoMore
    <2>1. LateClaims' = LateClaims
        BY <1>5 DEF LateClaims
    <2> QED
        BY <1>1, <1>2, <1>5, <2>1, NothingOwed DEF Owed, Stranded
<1> QED
    BY <1>1, <1>3, <1>4, <1>5 DEF ApiStep, StoreTrunk, ListNodes, FanOutFails, SwitchNode

\* A step of the loop without a fault leaves nothing more owed: what it claims
\* it works on, and what it lets go of it has recorded.
LEMMA LoopOwes ==
    ASSUME TypeOK, NEW n \in Nodes, AtNone(n), AgentStep(n)
    PROVE  /\ OwesNoMore
           /\ AtNone(n)' /\ \A k \in Nodes \ {n} : agent'[k] = agent[k]
<1>0. row \in [Requests -> Row] /\ agent \in [Nodes -> Agent] /\ NoRequest \notin Requests
    BY RequestFacts DEF TypeOK
<1>1. faults' = faults /\ late' = late
    BY DEF AgentStep, Poll, ClaimWon, ClaimRefused, ExecuteAnswered, ExecuteFails, ReportResult
<1>2. LateClaims' = LateClaims
    BY <1>1 DEF LateClaims
<1>3. ASSUME UNCHANGED row, \A k \in Nodes \ {n} : agent'[k] = agent[k],
             \/ agent'[n].current = agent[n].current
             \/ \A r \in Requests : agent[n].current = r => row[r].status # "applying"
      PROVE  OwesNoMore
    <2> SUFFICES ASSUME NEW r \in Requests, row[r].status = "applying", ~ Working(r)'
                 PROVE  ~ Working(r)
        BY <1>1, <1>2, <1>3, NothingOwed DEF Owed, Stranded
    <2> QED
        BY <1>3 DEF Working
<1>4. CASE Poll(n)
    <2>1. agent'[n].current = agent[n].current /\ agent'[n].pc = "claim"
          /\ \A k \in Nodes \ {n} : agent'[k] = agent[k]
        BY <1>0, <1>4 DEF Poll, Agent
    <2>2. UNCHANGED row
        BY <1>4 DEF Poll
    <2> QED
        BY <1>3, <1>4, <2>1, <2>2 DEF AtNone, Poll
<1>5. ASSUME NEW r \in Requests, ClaimWon(n, r)
      PROVE  OwesNoMore /\ AtNone(n)' /\ \A k \in Nodes \ {n} : agent'[k] = agent[k]
    <2>1. agent'[n].current = r /\ agent'[n].pc = "execute"
          /\ \A k \in Nodes \ {n} : agent'[k] = agent[k]
        BY <1>0, <1>5 DEF ClaimWon, Agent
    <2>2. agent[n].current = NoRequest
        BY <1>5 DEF ClaimWon, Claiming, AtNone
    <2>3. \A q \in Requests \ {r} : row'[q] = row[q]
        BY <1>0, <1>5 DEF ClaimWon, Claim, SetStatus
    <2>4. Working(r)'
        BY <2>1 DEF Working
    <2>5. \A q \in Requests : Working(q) => Working(q)'
        BY <1>0, <2>1, <2>2 DEF Working
    <2>6. \A q \in Requests : row'[q].status = "applying" /\ ~ Working(q)' => q \in Owed
        BY <2>3, <2>4, <2>5 DEF Owed, Stranded
    <2> QED
        BY <1>1, <1>2, <2>1, <2>6, NothingOwed DEF AtNone
<1>6. ASSUME NEW r \in Requests, ClaimRefused(n, r)
      PROVE  OwesNoMore /\ AtNone(n)' /\ \A k \in Nodes \ {n} : agent'[k] = agent[k]
    <2>1. agent'[n].current = NoRequest /\ agent[n].current = NoRequest
          /\ \A k \in Nodes \ {n} : agent'[k] = agent[k]
        BY <1>6, HandsEmpty DEF ClaimRefused, Claiming, AtNone
    <2>2. UNCHANGED row
        BY <1>6 DEF ClaimRefused
    <2> QED
        BY <1>3, <2>1, <2>2 DEF AtNone
<1>7. ASSUME NEW r \in Requests, ExecuteAnswered(n, r) \/ ExecuteFails(n, r)
      PROVE  OwesNoMore /\ AtNone(n)' /\ \A k \in Nodes \ {n} : agent'[k] = agent[k]
    <2>1. PICK result : WillReport(n, r, result)
        BY <1>7 DEF ExecuteAnswered, ExecuteFails
    <2>2. agent'[n].current = agent[n].current /\ agent'[n].pc = "report"
          /\ \A k \in Nodes \ {n} : agent'[k] = agent[k]
        BY <1>0, <2>1 DEF WillReport, Agent
    <2>3. UNCHANGED row
        BY <1>7 DEF ExecuteAnswered, ExecuteFails
    <2> QED
        BY <1>3, <2>2, <2>3 DEF AtNone
<1>8. ASSUME NEW r \in Requests, ReportResult(n, r)
      PROVE  OwesNoMore /\ AtNone(n)' /\ \A k \in Nodes \ {n} : agent'[k] = agent[k]
    <2>1. agent'[n].current = NoRequest /\ agent[n].current = r
          /\ \A k \in Nodes \ {n} : agent'[k] = agent[k]
        BY <1>8, HandsEmpty DEF ReportResult, Reporting
    <2>2. agent[n].result \in Results
        BY <1>0 DEF Agent
    <2>3. /\ row'[r].status # "applying"
          /\ \A q \in Requests \ {r} : row'[q] = row[q]
        BY <1>0, <1>8, <2>2 DEF ReportResult, ApplyResult, SetStatus, Row, Results
    <2>4. \A q \in Requests \ {r} : Working(q) => Working(q)'
        BY <2>1 DEF Working
    <2>5. \A q \in Requests : row'[q].status = "applying" /\ ~ Working(q)' => q \in Owed
        BY <2>3, <2>4 DEF Owed, Stranded
    <2> QED
        BY <1>1, <1>2, <2>1, <2>5, NothingOwed DEF AtNone
<1> QED
    BY <1>4, <1>5, <1>6, <1>7, <1>8 DEF AgentStep, Poll, Agent

\* A fault adds one request at most, whatever the agent had polled.
LEMMA FaultOwes ==
    ASSUME TypeOK, NEW n \in Nodes, AtNone(n), FaultStep(n)
    PROVE  /\ OwesOneMore
           /\ AtNone(n)' /\ \A k \in Nodes \ {n} : agent'[k] = agent[k]
<1>0. agent \in [Nodes -> Agent] /\ late \subseteq HttpCall /\ NoRequest \notin Requests
    BY RequestFacts DEF TypeOK
<1>1. row' = row /\ faults' = faults + 1
    BY DEF FaultStep, ClaimAbandoned, ReportAbandoned, Crash, Fault
<1>2. /\ agent'[n].current = NoRequest
      /\ \A k \in Nodes \ {n} : agent'[k] = agent[k]
    BY HandsEmpty DEF FaultStep, ClaimAbandoned, ReportAbandoned, Crash
<1>3. \A q \in Requests : Working(q) /\ agent[n].current # q => Working(q)'
    BY <1>2 DEF Working
<1>4. ASSUME NEW r \in Requests, agent[n].current = NoRequest,
             late' \subseteq late \cup {[call |-> "claim", request |-> r]}
      PROVE  OwesOneMore
    <2>1. LateClaims' \subseteq LateClaims \cup {r}
        BY <1>4 DEF LateClaims
    <2>2. Stranded' \subseteq Stranded
        BY <1>0, <1>1, <1>3, <1>4 DEF Stranded
    <2> QED
        BY <1>1, <2>1, <2>2 DEF OwesOneMore, Owed
<1>5. ASSUME NEW r \in Requests, agent[n].current = r, LateClaims' \subseteq LateClaims
      PROVE  OwesOneMore
    <2>1. Stranded' \subseteq Stranded \cup {r}
        BY <1>1, <1>3, <1>5 DEF Stranded
    <2> QED
        BY <1>1, <1>5, <2>1 DEF OwesOneMore, Owed
<1>6. ASSUME NEW r \in Requests, NEW call \in Results,
             late' = late \cup {[call |-> call, request |-> r]}
      PROVE  LateClaims' \subseteq LateClaims
    BY <1>6 DEF LateClaims, Results
<1>7. agent[n].result \in Results /\ agent[n].current \in Requests \cup {NoRequest}
    BY <1>0 DEF Agent
<1>8. ASSUME NEW r \in Requests, ClaimAbandoned(n, r) PROVE OwesOneMore
    BY <1>4, <1>8 DEF ClaimAbandoned, Claiming, AtNone
<1>9. ASSUME NEW r \in Requests, ReportAbandoned(n, r) PROVE OwesOneMore
    BY <1>5, <1>6, <1>7, <1>9 DEF ReportAbandoned, Reporting
<1>10. ASSUME Crash(n) PROVE OwesOneMore
    <2>1. ASSUME late' = late PROVE OwesOneMore
        <3>1. LateClaims' = LateClaims
            BY <2>1 DEF LateClaims
        <3>2. CASE agent[n].current \in Requests
            BY <1>5, <3>1, <3>2
        <3>3. CASE agent[n].current = NoRequest
            <4>1. Stranded' \subseteq Stranded
                BY <1>0, <1>1, <1>3, <3>3 DEF Stranded
            <4> QED
                BY <1>1, <3>1, <4>1 DEF OwesOneMore, Owed
        <3> QED
            BY <1>7, <3>2, <3>3
    <2>2. ASSUME NEW r \in Requests, Claiming(n, r),
                 late' = late \cup {[call |-> "claim", request |-> r]}
          PROVE  OwesOneMore
        BY <1>4, <2>2 DEF Claiming, AtNone
    <2>3. ASSUME NEW r \in Requests, Reporting(n, r),
                 late' = late \cup {[call |-> agent[n].result, request |-> r]}
          PROVE  OwesOneMore
        BY <1>5, <1>6, <1>7, <2>3 DEF Reporting
    <2> QED
        BY <1>10, <2>1, <2>2, <2>3 DEF Crash
<1> QED
    BY <1>2, <1>8, <1>9, <1>10 DEF FaultStep, AtNone

\* What is owed grows by one request at most when the faults grow by one.
LEMMA NextOwed ==
    ASSUME TypeOK, OwedInv, [Next]_vars
    PROVE  OwedInv'
<1>0. /\ \A n \in Nodes : AtNone(n)
      /\ Cardinality(Owed) <= faults /\ faults \in Nat
    BY ApplyAssumption DEF OwedInv, TypeOK
<1>1. IsFiniteSet(Owed) /\ Cardinality(Owed) \in Nat
    BY OwedFinite, FS_CardinalityType
<1>2. ASSUME OwesNoMore PROVE Cardinality(Owed') <= faults'
    <2>1. Cardinality(Owed') <= Cardinality(Owed) /\ Cardinality(Owed') \in Nat
        BY <1>1, <1>2, FS_Subset, FS_CardinalityType DEF OwesNoMore
    <2>2. faults' = faults
        BY <1>2 DEF OwesNoMore
    <2> QED
        BY <1>0, <1>1, <2>1, <2>2
<1>3. ASSUME OwesOneMore PROVE Cardinality(Owed') <= faults'
    <2>1. CASE Owed' \subseteq Owed
        <3>1. Cardinality(Owed') <= Cardinality(Owed) /\ Cardinality(Owed') \in Nat
            BY <1>1, <2>1, FS_Subset, FS_CardinalityType
        <3>2. faults' = faults + 1
            BY <1>3 DEF OwesOneMore
        <3> QED
            BY <1>0, <1>1, <3>1, <3>2
    <2>2. ASSUME NEW r \in Requests, Owed' \subseteq Owed \cup {r}
          PROVE  Cardinality(Owed') <= faults'
        <3>1. /\ IsFiniteSet(Owed \cup {r})
              /\ Cardinality(Owed \cup {r}) <= Cardinality(Owed) + 1
              /\ Cardinality(Owed \cup {r}) \in Nat
            BY <1>1, FS_AddElement, FS_CardinalityType
        <3>2. Cardinality(Owed') <= Cardinality(Owed \cup {r}) /\ Cardinality(Owed') \in Nat
            BY <2>2, <3>1, FS_Subset, FS_CardinalityType
        <3>3. faults' = faults + 1
            BY <1>3 DEF OwesOneMore
        <3> QED
            BY <1>0, <1>1, <3>1, <3>2, <3>3
    <2> QED
        BY <1>3, <2>1, <2>2 DEF OwesOneMore
<1>4. CASE ApiStep
    BY <1>0, <1>2, <1>4, ApiOwes DEF OwedInv, AtNone
<1>5. ASSUME NEW n \in Nodes, AgentStep(n) \/ FaultStep(n) PROVE OwedInv'
    <2>1. OwesNoMore \/ OwesOneMore
        BY <1>0, <1>5, LoopOwes, FaultOwes
    <2>2. AtNone(n)' /\ \A k \in Nodes \ {n} : agent'[k] = agent[k]
        BY <1>0, <1>5, LoopOwes, FaultOwes
    <2>3. \A k \in Nodes : AtNone(k)'
        BY <1>0, <2>2 DEF AtNone
    <2> QED
        BY <1>2, <1>3, <2>1, <2>3 DEF OwedInv
<1>6. CASE UNCHANGED vars
    <2>1. Owed' = Owed /\ \A n \in Nodes : AtNone(n)'
        BY <1>0, <1>6 DEF vars, Owed, Stranded, LateClaims, Working, AtNone
    <2> QED
        BY <1>0, <1>6, <2>1 DEF OwedInv, vars
<1> QED
    BY <1>4, <1>5, <1>6 DEF Next

\* In every behaviour at most as many requests are stranded as there were
\* faults: a crash costs the request the agent works on, not its page.
THEOREM FaultsStrand == Spec => []StrandedByFaults
<1>1. Init => OwedInv
    <2> SUFFICES ASSUME Init PROVE OwedInv
        OBVIOUS
    <2>1. Owed = {}
        BY DEF Init, Owed, Stranded, LateClaims
    <2>2. \A n \in Nodes : AtNone(n)
        BY DEF Init, AtNone, IdleAgent
    <2> QED
        BY <2>1, <2>2, FS_EmptySet DEF OwedInv, Init
<1>2. TypeOK /\ OwedInv => StrandedByFaults
    <2> SUFFICES ASSUME TypeOK, OwedInv PROVE StrandedByFaults
        OBVIOUS
    <2>1. Cardinality(Stranded) <= Cardinality(Owed)
          /\ Cardinality(Stranded) \in Nat /\ Cardinality(Owed) \in Nat
        BY OwedFinite, FS_Subset, FS_CardinalityType
    <2>2. faults \in Nat
        BY ApplyAssumption DEF TypeOK
    <2> QED
        BY <2>1, <2>2 DEF OwedInv, StrandedByFaults
<1>3. TypeOK /\ OwedInv /\ [Next]_vars => OwedInv'
    BY NextOwed
<1> QED
    BY <1>1, <1>2, <1>3, TypeCorrect, PTL DEF Spec

-----------------------------------------------------------------------------
(* The refinement: each step is a step of ApplyOnce, or a stutter.         *)

\* A request whose row, outcome and executor a step keeps keeps its phase.
LEMMA PhaseKept ==
    ASSUME NEW r \in Requests, row'[r].status = row[r].status, outcome'[r] = outcome[r],
           \A n \in Nodes : Executing(n, r)' <=> Executing(n, r)
    PROVE  PhaseOf(r)' = PhaseOf(r)
BY DEF PhaseOf

\* One request that changes its phase is a Move of ApplyOnce.
LEMMA OneMove ==
    ASSUME NEW r \in Requests, NEW from, NEW to, PhaseOf(r) = from, PhaseOf(r)' = to,
           \A q \in Requests \ {r} : PhaseOf(q)' = PhaseOf(q)
    PROVE  Promise!Move(r, from, to)
BY DEF Promise!Move

\* The phase of a request, by its row, its outcome and who executes it.
LEMMA PhaseFacts ==
    ASSUME ApplyInv, NEW r \in Requests
    PROVE  /\ row[r].status = "absent" => PhaseOf(r) = "absent"
           /\ row[r].status = "pending" => PhaseOf(r) = "waiting"
           /\ row[r].status \in Results => PhaseOf(r) = row[r].status
           /\ row[r].status = "applying" /\ outcome[r] = "answered" => PhaseOf(r) = "answered"
           /\ row[r].status = "applying" /\ outcome[r] = "error" => PhaseOf(r) = "refused"
           /\ row[r].status = "applying" /\ outcome[r] = "none" =>
                 PhaseOf(r) = IF \E n \in Nodes : Executing(n, r) THEN "taken" ELSE "lost"
           /\ (\E n \in Nodes : Executing(n, r)) => PhaseOf(r) = "taken"
<1>1. row[r].status \in Results \cup {"absent", "pending", "applying"}
    BY DEF ApplyInv, TypeOK, Row
<1>2. \A n \in Nodes : Executing(n, r) => row[r].status = "applying" /\ outcome[r] = "none"
    BY DEF ApplyInv, HolderInv
<1> QED
    BY <1>1, <1>2 DEF PhaseOf, Results

\* The phases after the step.
LEMMA PhaseFactsNext ==
    ASSUME ApplyInv', NEW r \in Requests
    PROVE  /\ row'[r].status = "pending" => PhaseOf(r)' = "waiting"
           /\ row'[r].status \in Results => PhaseOf(r)' = row'[r].status
           /\ row'[r].status = "applying" /\ outcome'[r] = "answered" => PhaseOf(r)' = "answered"
           /\ row'[r].status = "applying" /\ outcome'[r] = "error" => PhaseOf(r)' = "refused"
           /\ row'[r].status = "applying" /\ outcome'[r] = "none" =>
                 PhaseOf(r)' = IF \E n \in Nodes : Executing(n, r)' THEN "taken" ELSE "lost"
<1>1. row'[r].status \in Results \cup {"absent", "pending", "applying"}
    BY DEF ApplyInv, TypeOK, Row
<1> QED
    BY <1>1 DEF PhaseOf, Results

\* A statement of a claim or a report while nobody executes the request.
LEMMA StatementPromised ==
    ASSUME ApplyInv, ApplyInv', NEW r \in Requests,
           \/ Claim(r)
           \/ \E result \in Results : ApplyResult(r, result) /\ outcome[r] = Shows(result)
           \/ UNCHANGED row,
           UNCHANGED <<outcome, runs>>,
           \A n \in Nodes, q \in Requests : Executing(n, q)' <=> Executing(n, q)
    PROVE  Promise!Lose(r) \/ Promise!Record(r) \/ UNCHANGED Promise!vars
<1>0. row \in [Requests -> Row] /\ HolderInv /\ RowInv
    BY DEF ApplyInv, TypeOK
<1>1. CASE Claim(r)
    <2>1. /\ row[r].status = "pending" /\ row'[r].status = "applying" /\ outcome[r] = "none"
          /\ \A q \in Requests \ {r} : row'[q].status = row[q].status
          /\ \A n \in Nodes : ~ Executing(n, r)
        BY <1>0, <1>1 DEF Claim, SetStatus, Row, RowInv, HolderInv
    <2>2. \A q \in Requests \ {r} : PhaseOf(q)' = PhaseOf(q)
        BY <2>1, PhaseKept
    <2>3. PhaseOf(r) = "waiting" /\ PhaseOf(r)' = "lost"
        BY <2>1, PhaseFacts, PhaseFactsNext
    <2> QED
        BY <2>2, <2>3, OneMove DEF Promise!Lose, Promise!Quietly
<1>2. ASSUME NEW result \in Results, ApplyResult(r, result), outcome[r] = Shows(result),
             row[r].status = "applying"
      PROVE  Promise!Record(r)
    <2>1. /\ row'[r].status = result
          /\ \A q \in Requests \ {r} : row'[q].status = row[q].status
        BY <1>0, <1>2 DEF ApplyResult, SetStatus, Row
    <2>2. \A q \in Requests \ {r} : PhaseOf(q)' = PhaseOf(q)
        BY <2>1, PhaseKept
    <2>3. PhaseOf(r)' = result
        BY <2>1, PhaseFactsNext
    <2>4. \/ result = "applied" /\ PhaseOf(r) = "answered"
          \/ result = "failed" /\ PhaseOf(r) = "refused"
        BY <1>2, PhaseFacts DEF Results, Shows
    <2> QED
        BY <2>2, <2>3, <2>4, OneMove DEF Promise!Record, Promise!Quietly
<1>3. CASE UNCHANGED row
    <2>1. \A q \in Requests : PhaseOf(q)' = PhaseOf(q)
        BY <1>3, PhaseKept
    <2> QED
        BY <2>1 DEF Promise!vars
<1> QED
    BY <1>1, <1>2, <1>3 DEF ApplyResult

\* A step of the API.
LEMMA ApiPromised ==
    ASSUME ApplyInv, ApplyInv', ApiStep
    PROVE  [Promise!Next]_(Promise!vars)
<1>0. row \in [Requests -> Row] /\ LateInv /\ late \subseteq HttpCall
    BY DEF ApplyInv, TypeOK
<1>1. UNCHANGED <<agent, outcome, runs>>
    BY DEF ApiStep, StoreTrunk, ListNodes, FanOutFails, InsertRequest, SwitchNode, LateArrives,
       historyVars
<1>2. \A n \in Nodes, q \in Requests : Executing(n, q)' <=> Executing(n, q)
    BY <1>1 DEF Executing
<1>3. ASSUME NEW e \in Editors, NEW n \in Nodes, NEW r \in Requests, InsertRequest(e, n, r)
      PROVE  Promise!Submit(r)
    <2>1. /\ row[r].status = "absent" /\ row'[r].status = "pending"
          /\ \A q \in Requests \ {r} : row'[q].status = row[q].status
        BY <1>0, <1>3 DEF InsertRequest
    <2>2. \A q \in Requests \ {r} : PhaseOf(q)' = PhaseOf(q)
        BY <1>1, <1>2, <2>1, PhaseKept
    <2>3. PhaseOf(r) = "absent" /\ PhaseOf(r)' = "waiting"
        BY <2>1, PhaseFacts, PhaseFactsNext
    <2> QED
        BY <1>1, <2>2, <2>3, OneMove DEF Promise!Submit, Promise!Quietly
<1>4. ASSUME NEW m \in late, LateArrives(m) PROVE [Promise!Next]_(Promise!vars)
    <2>1. m.request \in Requests
        BY <1>0 DEF HttpCall
    <2>2. \/ Claim(m.request)
          \/ \E result \in Results : ApplyResult(m.request, result) /\ outcome[m.request] = Shows(result)
          \/ UNCHANGED row
        BY <1>0, <1>4 DEF LateArrives, LateInv
    <2> QED
        BY <1>1, <1>2, <2>1, <2>2, StatementPromised DEF Promise!Next
<1>5. CASE UNCHANGED row
    <2>1. \A q \in Requests : PhaseOf(q)' = PhaseOf(q)
        BY <1>1, <1>2, <1>5, PhaseKept
    <2> QED
        BY <1>1, <2>1 DEF Promise!vars
<1> QED
    BY <1>3, <1>4, <1>5 DEF ApiStep, StoreTrunk, ListNodes, FanOutFails, SwitchNode, Promise!Next

\* An agent that lets go while it executes nothing.
LEMMA ExecutorsKept ==
    ASSUME NEW n \in Nodes, LetsGo(n), agent[n].pc # "execute"
    PROVE  \A k \in Nodes, q \in Requests : Executing(k, q)' <=> Executing(k, q)
BY DEF LetsGo, Executing

\* A command that has ended, well or not, or whose agent has.
LEMMA ExecutionPromised ==
    ASSUME ApplyInv, ApplyInv', NEW n \in Nodes, NEW r \in Requests, Executing(n, r),
           UNCHANGED row, Run(r) \/ UNCHANGED runs,
           \A q \in Requests \ {r} : outcome'[q] = outcome[q],
           \A k \in Nodes \ {n} : agent'[k] = agent[k],
           agent'[n].pc # "execute",
           \/ outcome'[r] = "answered" /\ Run(r)
           \/ outcome'[r] \in {"error", "none"}
    PROVE  Promise!Answer(r) \/ Promise!Refuse(r) \/ Promise!Lose(r)
<1>1. row[r].status = "applying" /\ PhaseOf(r) = "taken"
    BY PhaseFacts DEF ApplyInv, HolderInv
<1>2. /\ \A k \in Nodes : ~ Executing(k, r)'
      /\ \A k \in Nodes, q \in Requests \ {r} : Executing(k, q)' <=> Executing(k, q)
    BY OneExecutor DEF Executing
<1>3. \A q \in Requests \ {r} : PhaseOf(q)' = PhaseOf(q)
    BY <1>2, PhaseKept
<1>4. CASE outcome'[r] = "answered" /\ Run(r)
    <2>1. PhaseOf(r)' = "answered"
        BY <1>1, <1>4, PhaseFactsNext
    <2> QED
        BY <1>1, <1>3, <1>4, <2>1, OneMove DEF Promise!Answer, Promise!Run, Run
<1>5. CASE outcome'[r] = "error"
    <2>1. PhaseOf(r)' = "refused"
        BY <1>1, <1>5, PhaseFactsNext
    <2> QED
        BY <1>1, <1>3, <2>1, OneMove DEF Promise!Refuse, Promise!Run, Run
<1>6. CASE outcome'[r] = "none"
    <2>1. PhaseOf(r)' = "lost"
        BY <1>1, <1>2, <1>6, PhaseFactsNext
    <2> QED
        BY <1>1, <1>3, <2>1, OneMove DEF Promise!Lose, Promise!Run, Run
<1> QED
    BY <1>4, <1>5, <1>6

\* A step of an agent.
LEMMA AgentPromised ==
    ASSUME ApplyInv, ApplyInv', NEW n \in Nodes, AgentStep(n) \/ FaultStep(n)
    PROVE  [Promise!Next]_(Promise!vars)
<1>0. TypeOK /\ HolderInv /\ RowInv /\ agent \in [Nodes -> Agent] /\ row \in [Requests -> Row]
    BY DEF ApplyInv, TypeOK
<1>s. ASSUME UNCHANGED <<row, outcome, runs>>,
             \A k \in Nodes, q \in Requests : Executing(k, q)' <=> Executing(k, q)
      PROVE  UNCHANGED Promise!vars
    <2>1. \A q \in Requests : PhaseOf(q)' = PhaseOf(q)
        BY <1>s, PhaseKept
    <2> QED
        BY <1>s, <2>1 DEF Promise!vars
<1>1. CASE Poll(n)
    <2>1. \A k \in Nodes, q \in Requests : Executing(k, q)' <=> Executing(k, q)
        BY <1>0, <1>1 DEF Poll, Executing, Agent
    <2> QED
        BY <1>1, <1>s, <2>1 DEF Poll, historyVars
<1>2. ASSUME NEW r \in Requests, ClaimWon(n, r) PROVE Promise!Take(r)
    <2>1. /\ row[r].status = "pending" /\ row'[r].status = "applying"
          /\ outcome'[r] = "none" /\ UNCHANGED <<outcome, runs>>
          /\ \A q \in Requests \ {r} : row'[q].status = row[q].status
        BY <1>0, <1>2 DEF ClaimWon, Claim, SetStatus, RowInv, Row, historyVars
    <2>2. /\ Executing(n, r)'
          /\ \A k \in Nodes, q \in Requests \ {r} : Executing(k, q)' <=> Executing(k, q)
        BY <1>0, <1>2 DEF ClaimWon, Claiming, Executing, Agent
    <2>3. \A q \in Requests \ {r} : PhaseOf(q)' = PhaseOf(q)
        BY <2>1, <2>2, PhaseKept
    <2>4. PhaseOf(r) = "waiting" /\ PhaseOf(r)' = "taken"
        BY <2>1, <2>2, PhaseFacts, PhaseFactsNext
    <2> QED
        BY <2>1, <2>3, <2>4, OneMove DEF Promise!Take, Promise!Quietly
<1>3. ASSUME NEW r \in Requests,
             ClaimRefused(n, r) \/ ClaimAbandoned(n, r) \/ ReportAbandoned(n, r)
      PROVE  UNCHANGED Promise!vars
    <2>1. /\ UNCHANGED <<row, historyVars>> /\ NextRequest(n, r) /\ agent[n].pc # "execute"
        BY <1>3 DEF ClaimRefused, ClaimAbandoned, ReportAbandoned, Claiming, Reporting
    <2>2. \A k \in Nodes, q \in Requests : Executing(k, q)' <=> Executing(k, q)
        BY <1>0, <2>1, LettingGo, ExecutorsKept
    <2> QED
        BY <1>s, <2>1, <2>2 DEF historyVars
<1>4. ASSUME NEW r \in Requests, ExecuteAnswered(n, r) \/ ExecuteFails(n, r)
      PROVE  [Promise!Next]_(Promise!vars)
    <2>1. /\ Executing(n, r) /\ UNCHANGED row /\ (Run(r) \/ UNCHANGED runs)
          /\ \/ WillReport(n, r, "applied") /\ Run(r)
             \/ WillReport(n, r, "failed")
        BY <1>4 DEF ExecuteAnswered, ExecuteFails
    <2>2. /\ \A q \in Requests \ {r} : outcome'[q] = outcome[q]
          /\ \A k \in Nodes \ {n} : agent'[k] = agent[k]
          /\ agent'[n].pc # "execute"
          /\ \/ outcome'[r] = "answered" /\ Run(r)
             \/ outcome'[r] \in {"error", "none"}
        BY <1>0, <2>1 DEF WillReport, TypeOK, Agent
    <2> QED
        BY <2>1, <2>2, ExecutionPromised DEF Promise!Next
<1>5. ASSUME NEW r \in Requests, ReportResult(n, r) PROVE [Promise!Next]_(Promise!vars)
    <2>1. /\ UNCHANGED <<outcome, runs>> /\ NextRequest(n, r) /\ agent[n].pc # "execute"
          /\ ApplyResult(r, agent[n].result) /\ agent[n].result \in Results
          /\ outcome[r] = Shows(agent[n].result)
        BY <1>0, <1>5 DEF ReportResult, Reporting, HolderInv, Agent, historyVars
    <2>2. \A k \in Nodes, q \in Requests : Executing(k, q)' <=> Executing(k, q)
        BY <1>0, <2>1, LettingGo, ExecutorsKept
    <2> QED
        BY <2>1, <2>2, StatementPromised DEF Promise!Next
<1>6. CASE Crash(n)
    <2>1. /\ UNCHANGED <<row, outcome>> /\ LetsGo(n)
          /\ UNCHANGED runs \/ \E r \in Requests : Executing(n, r) /\ Run(r)
        BY <1>0, <1>6, LettingGo DEF Crash
    <2>2. CASE \E r \in Requests : Executing(n, r)
        <3>1. PICK r \in Requests : Executing(n, r) /\ (Run(r) \/ UNCHANGED runs)
            BY <2>1, <2>2 DEF Executing
        <3>2. outcome'[r] = "none"
            BY <1>0, <2>1, <3>1 DEF HolderInv
        <3> QED
            BY <2>1, <3>1, <3>2, ExecutionPromised DEF Promise!Next, LetsGo
    <2>3. CASE \A r \in Requests : ~ Executing(n, r)
        <3>1. UNCHANGED runs /\ \A k \in Nodes, q \in Requests : Executing(k, q)' <=> Executing(k, q)
            BY <2>1, <2>3 DEF LetsGo, Executing
        <3> QED
            BY <1>s, <2>1, <3>1
    <2> QED
        BY <2>2, <2>3
<1> QED
    BY <1>1, <1>s, <1>2, <1>3, <1>4, <1>5, <1>6 DEF AgentStep, FaultStep, Promise!Next

\* The gateway changes implement ApplyOnce: no rescan is sent twice, and what
\* is recorded of it is what happened, whatever is lost, late or restarted.
THEOREM AppliesOnceHolds == Spec => AppliesOnce
<1>1. Init => Promise!Init
    BY DEF Init, Promise!Init, PhaseOf
<1>2. ApplyInv /\ ApplyInv' /\ [Next]_vars => [Promise!Next]_(Promise!vars)
    <2> SUFFICES ASSUME ApplyInv, ApplyInv', [Next]_vars PROVE [Promise!Next]_(Promise!vars)
        OBVIOUS
    <2>1. CASE UNCHANGED vars
        <3>1. \A q \in Requests : PhaseOf(q)' = PhaseOf(q)
            BY <2>1, PhaseKept DEF vars, historyVars, Executing
        <3> QED
            BY <2>1, <3>1 DEF vars, historyVars, Promise!vars
    <2> QED
        BY <2>1, ApiPromised, AgentPromised DEF Next
<1> QED
    BY <1>1, <1>2, ApplyInvariant, PTL DEF Spec, AppliesOnce, Promise!Spec
=============================================================================
