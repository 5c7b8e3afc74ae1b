------------------------------ MODULE FlowGraph ------------------------------
(***************************************************************************)
(* One IVR graph and the three programs that read it: validateIvrGraph     *)
(* with the checks of IvrFlowService.validate, simulateGraph, and          *)
(* resolveNextAction of the runtime, which plays the graph to a caller     *)
(* once it was validated or simulated.                                     *)
(*                                                                         *)
(* RuntimeSession leaves open where an edge leads; here every edge is in   *)
(* the graph.  PublishLifecycle leaves open which graphs pass.  The caller *)
(* does what the scenario of the simulation says, and the hour, the number *)
(* of the caller and the schedules are those of the scenario.  A switch    *)
(* looks at the last digits; its other inputs, and set_variable, go        *)
(* through code the simulator and the runtime share.                       *)
(***************************************************************************)
EXTENDS Naturals, Sequences, SequencesExt

CONSTANTS
    Nodes,          \* ids of nodes
    NoNode,         \* an edge that is not there
    Missing,        \* an edge to an id that no node has
    Keys,           \* the keys of the cases of a switch, in the order of the JSON
    NoDigits,
    Graphs,         \* the graphs a version may hold
    MaxDepth,       \* MAX_TRAVERSAL_DEPTH of the validator (50)
    WalkLimit,      \* nodes in a row, of simulator and runtime (100)
    MaxActions      \* bound: actions a caller hears

VARIABLES
    graph,          \* graph_json of the version
    traversal,      \* the depth-first search of a validator that runs
    verdict,        \* of validate
    simulation,     \* of simulate: its loop, and its outcome and path
    scenario,       \* of a simulation that runs or passed, and of the caller
    session         \* the call: its node, its digits, the steps it went through

graphVars == <<graph, traversal, verdict, simulation, scenario, session>>

Digits    == ToSet(Keys)  \* what a caller may enter
Targets   == Nodes \cup {NoNode, Missing}
Ends      == {"transfer_extension", "queue", "voicemail_drop", "hangup"}
Prompts   == {"play_prompt", "play_collect"}
Gateways  == {"business_hours", "caller_id_match"}
Supported == Ends \cup Prompts \cup Gateways \cup {"start", "set_variable", "switch"}

\* yes and no are the branches of a gateway.  ref tells whether the prompt,
\* target or schedule of the node is active, is not, or is not given (and, of
\* a set_variable or caller_id_match, whether its parameters are).
Node ==
    [type : Supported \cup {"webhook"}, ref : {"active", "inactive", "none"},
     next : Targets, timeout : Targets, invalid : Targets, default : Targets,
     fallback : Targets, cases : [Digits -> Targets], yes : Targets, no : Targets]

ASSUME GraphAssumption ==
    /\ NoNode \notin Nodes /\ Missing \notin Nodes \cup {NoNode}
    /\ Keys \in Seq(Digits)
    /\ Digits \cap {"timeout", "invalid", "none"} = {} /\ NoDigits \notin Digits
    /\ \A g \in Graphs : g.entry \in Targets /\ g.node \in [Nodes -> Node]
    /\ MaxDepth \in Nat /\ WalkLimit \in Nat \ {0} /\ MaxActions \in Nat

\* digits goes for every play_collect that has no answer of its own.
Scenario(g) ==
    [digits : Digits \cup {NoDigits}, holds : BOOLEAN,
     answer : [{n \in Nodes : g.node[n].type = "play_collect"} ->
                  Digits \cup {"timeout", "invalid", "none"}]]
NoScenario == [digits |-> NoDigits, holds |-> FALSE, answer |-> <<>>]

\* A node that simulator or runtime came to, and the last digits it had then.
Step == [node : Targets, digits : Digits \cup {NoDigits}]

\* stack: the nodes whose visit has not returned; followed: how many edges of a
\* node visit is done with.
NoTraversal  == [by |-> "nobody", stack |-> <<>>, followed |-> [n \in Nodes |-> 0],
                 reachable |-> {}, failed |-> FALSE]
\* Of a simulation that failed nothing but the failure is kept.
NoSimulation == [status |-> "none", at |-> NoNode, digits |-> NoDigits, path |-> <<>>]
NoSession    == [status |-> "none", at |-> NoNode, digits |-> NoDigits, path |-> <<>>,
                 rounds |-> 0, actions |-> 0, why |-> "none"]

GraphTypeOK ==
    /\ graph.entry \in Targets /\ graph.node \in [Nodes -> Node]
    /\ traversal \in [by : {"nobody", "validate", "simulate"}, stack : Seq(Nodes),
                      followed : [Nodes -> Nat], reachable : SUBSET Nodes, failed : BOOLEAN]
    /\ verdict \in {"none", "passed", "failed"}
    /\ simulation \in [status : {"none", "walking", "passed", "failed"}, at : Targets,
                       digits : Digits \cup {NoDigits}, path : Seq(Step)]
    /\ Len(simulation.path) <= WalkLimit
    /\ scenario \in Scenario(graph) \cup {NoScenario}
    /\ session \in [status : {"none", "resolving", "running", "completed", "error"}, at : Targets,
                    digits : Digits \cup {NoDigits}, path : Seq(Step), rounds : 0..WalkLimit,
                    actions : 0..(MaxActions + 1),
                    why : {"none", "missing", "unsupported", "reference", "limit"}]
    /\ session.status = "running" => session.at \in Nodes

GraphInit ==
    /\ graph \in Graphs
    /\ traversal = NoTraversal
    /\ verdict = "none"
    /\ simulation = NoSimulation
    /\ scenario = NoScenario
    /\ session = NoSession

\* Nothing is under way, and no call has begun.
AtRest == traversal.by = "nobody" /\ simulation.status # "walking" /\ session.status = "none"

-----------------------------------------------------------------------------
(* validateIvrGraph.                                                       *)

\* Slip: a node type was added and the traversal does not know its branches.
EdgesWithoutGateways(n) ==
    <<n.next, n.timeout, n.invalid, n.default, n.fallback>>
    \o (IF n.type = "switch" THEN [i \in DOMAIN Keys |-> n.cases[Keys[i]]] ELSE <<>>)

\* The edges visit follows and checks, in its order.
Edges(n) ==
    <<n.next, n.timeout, n.invalid, n.default, n.fallback>>
    \o (IF n.type = "switch" THEN [i \in DOMAIN Keys |-> n.cases[Keys[i]]] ELSE <<>>)
    \o (IF n.type \in Gateways THEN <<n.yes, n.no>> ELSE <<>>)

\* What visit reports of the node itself.
Defective(n) ==
    \/ \E i \in DOMAIN Edges(n) : Edges(n)[i] = Missing
    \/ /\ n.type \in Gateways \cup {"queue", "voicemail_drop", "set_variable"}
       /\ n.ref = "none"

WellFormed(g) ==
    /\ g.entry \in Nodes
    /\ \A n \in Nodes : g.node[n].type \in Supported

\* Slip: the node is not added to the nodes seen.
VisitUnmarked(t, id) ==
    [t EXCEPT !.stack = Append(@, id), !.failed = @ \/ Defective(graph.node[id])]

\* visit, where it does not return at once: the node is marked, then its edges.
Visit(t, id) ==
    [t EXCEPT !.stack = Append(@, id), !.reachable = @ \cup {id},
              !.failed = @ \/ Defective(graph.node[id])]

\* The validator runs for validate and, in simulateGraph, for simulate.
BeginTraversal(by) ==
    /\ AtRest
    /\ by = "validate" => verdict = "none"
    /\ by = "simulate" => simulation.status = "none"
    /\ LET begun == [NoTraversal EXCEPT !.by = by]
       IN traversal' = IF WellFormed(graph) THEN Visit(begun, graph.entry)
                       ELSE [begun EXCEPT !.failed = TRUE]
    /\ UNCHANGED <<graph, verdict, simulation, scenario, session>>

\* The node whose visit runs, and its edges.
Top     == Last(traversal.stack)
Onward  == Edges(graph.node[Top])

\* visit of the target of the next edge that leads to a node; the depth, which
\* is looked at before the set of nodes seen, is the number of nodes above.
Follow ==
    /\ traversal.stack # <<>>
    /\ \E i \in DOMAIN Onward :
          /\ i > traversal.followed[Top] /\ Onward[i] \in Nodes
          /\ \A j \in DOMAIN Onward :
                traversal.followed[Top] < j /\ j < i => Onward[j] \notin Nodes
          /\ LET now == [traversal EXCEPT !.followed[Top] = i]
             IN traversal' = IF Len(now.stack) > MaxDepth THEN [now EXCEPT !.failed = TRUE]
                             ELSE IF Onward[i] \in now.reachable THEN now
                             ELSE Visit(now, Onward[i])
    /\ UNCHANGED <<graph, verdict, simulation, scenario, session>>

\* The visit of a node returns when no edge is left.
Return ==
    /\ traversal.stack # <<>>
    /\ \A i \in DOMAIN Onward : i > traversal.followed[Top] => Onward[i] \notin Nodes
    /\ traversal' = [traversal EXCEPT !.stack = Front(@)]
    /\ UNCHANGED <<graph, verdict, simulation, scenario, session>>

TraversalEnds(by) ==
    /\ traversal.by = by /\ traversal.stack = <<>>
    /\ traversal' = NoTraversal

\* validate of the service: what a node names must be active.
ReferencesAreActive(g) ==
    \A n \in Nodes : g.node[n].type \in Prompts \cup Ends \cup {"business_hours"} =>
        g.node[n].ref # "inactive"

Validate ==
    /\ TraversalEnds("validate")
    /\ verdict' = IF ~ traversal.failed /\ ReferencesAreActive(graph) THEN "passed" ELSE "failed"
    /\ UNCHANGED <<graph, simulation, scenario, session>>

-----------------------------------------------------------------------------
(* simulateGraph, with resolveNextNode of the planner.                     *)

OrElse(target, other) == IF target # NoNode THEN target ELSE other

\* What happens at a play_collect: digits, timeout or invalid.
Input(sc, id) ==
    IF sc.answer[id] # "none" THEN sc.answer[id]
    ELSE IF sc.digits # NoDigits THEN sc.digits ELSE "invalid"

DigitsAfter(digits, input) == IF input \in Digits THEN input ELSE digits

SwitchTarget(n, digits) ==
    IF digits # NoDigits THEN OrElse(n.cases[digits], n.default) ELSE n.default

\* Slip: after invalid input the default goes before the edge meant for it.
PlannedCollectByDefault(n, input) ==
    CASE input = "timeout" -> n.timeout
      [] input = "invalid" -> OrElse(n.default, n.invalid)
      [] OTHER             -> n.next

PlannedCollect(n, input) ==
    CASE input = "timeout" -> n.timeout
      [] input = "invalid" -> OrElse(n.invalid, n.default)
      [] OTHER             -> n.next

Planned(n, digits, input, holds) ==
    CASE n.type \in {"start", "play_prompt", "set_variable"} -> n.next
      [] n.type = "play_collect" -> PlannedCollect(n, input)
      [] n.type = "switch"       -> SwitchTarget(n, digits)
      [] n.type \in Gateways     -> IF holds THEN n.yes ELSE n.no

SimulationFails ==
    /\ simulation' = [NoSimulation EXCEPT !.status = "failed"]
    /\ scenario' = NoScenario

\* The digits of the scenario are the last digits from the start.
Simulate(sc) ==
    /\ TraversalEnds("simulate")
    /\ IF traversal.failed THEN SimulationFails
       ELSE /\ scenario' = sc
            /\ simulation' = [status |-> "walking", at |-> graph.entry, digits |-> sc.digits,
                              path |-> <<>>]
    /\ UNCHANGED <<graph, verdict, session>>

Here(walk) == [node |-> walk.at, digits |-> walk.digits]

\* One round of the loop of simulateGraph.
SimulateNode ==
    /\ simulation.status = "walking"
    /\ LET id     == simulation.at
           n      == graph.node[id]
           input  == IF n.type = "play_collect" THEN Input(scenario, id) ELSE "none"
           digits == DigitsAfter(simulation.digits, input)
           target == Planned(n, digits, input, scenario.holds)
           done   == [simulation EXCEPT !.path = Append(@, Here(simulation))]
       IN IF id \in Nodes /\ n.type \in Ends
          THEN simulation' = [done EXCEPT !.status = "passed"] /\ UNCHANGED scenario
          ELSE IF \/ id \notin Nodes
                  \/ n.type = "business_hours" /\ n.ref # "active"
                  \/ target = NoNode \/ Len(done.path) = WalkLimit
               THEN SimulationFails
          ELSE simulation' = [done EXCEPT !.at = target, !.digits = digits] /\ UNCHANGED scenario
    /\ UNCHANGED <<graph, traversal, verdict, session>>

-----------------------------------------------------------------------------
(* resolveNextAction.                                                      *)

\* The answer to the script: the next action, the end, or an error.
Answer(walk, status, why) ==
    session' = [walk EXCEPT !.status = status, !.actions = @ + 1, !.why = why]

\* startSession, of a version that could be published.
StartSession(sc) ==
    /\ AtRest
    /\ verdict = "passed" \/ simulation.status = "passed"
    /\ simulation.status = "passed" => sc = scenario
    /\ scenario' = sc
    /\ session' = [NoSession EXCEPT !.status = "resolving", !.at = graph.entry]
    /\ UNCHANGED <<graph, traversal, verdict, simulation>>

\* The loop has had its rounds, or an edge that is not there ends the flow.
LeaveLoop ==
    /\ session.status = "resolving"
    /\ session.rounds = WalkLimit \/ session.at = NoNode
    /\ IF session.rounds = WalkLimit
       THEN Answer([session EXCEPT !.at = NoNode], "error", "limit")
       ELSE Answer(session, "completed", "none")
    /\ UNCHANGED <<graph, traversal, verdict, simulation, scenario>>

\* One round of it.
ResolveNode ==
    /\ session.status = "resolving"
    /\ session.rounds < WalkLimit /\ session.at # NoNode
    /\ LET id   == session.at
           n    == graph.node[id]
           walk == [session EXCEPT !.path = Append(@, Here(session)), !.rounds = @ + 1]
       IN IF id = Missing THEN Answer(session, "error", "missing")
          ELSE IF n.type \notin Supported THEN Answer(walk, "error", "unsupported")
          ELSE IF /\ n.type \in Prompts \cup Ends \cup {"business_hours"}
                  /\ n.type # "hangup" /\ n.ref # "active"
               THEN Answer(walk, "error", "reference")
          ELSE IF n.type \in Prompts \cup Ends THEN Answer(walk, "running", "none")
          ELSE session' = [walk EXCEPT !.at = Planned(n, session.digits, "none", scenario.holds)]
    /\ UNCHANGED <<graph, traversal, verdict, simulation, scenario>>

\* Where a completed action leads.
Completed(n, input) ==
    CASE n.type = "play_prompt" -> n.next
      [] n.type = "play_collect" /\ input = "timeout" -> OrElse(n.timeout, n.default)
      [] n.type = "play_collect" /\ input = "invalid" -> OrElse(n.invalid, n.default)
      [] n.type = "play_collect" /\ input \in Digits  -> n.next

\* advanceSession; the end of a transfer, a drop or a hangup ends the flow.
AdvanceSession ==
    /\ session.status = "running" /\ session.actions <= MaxActions
    /\ LET id    == session.at
           n     == graph.node[id]
           input == IF n.type = "play_collect" THEN Input(scenario, id) ELSE "none"
       IN IF n.type \in Ends THEN Answer([session EXCEPT !.at = NoNode], "completed", "none")
          ELSE session' = [session EXCEPT !.status = "resolving", !.rounds = 0,
                             !.at = Completed(n, input), !.digits = DigitsAfter(@, input)]
    /\ UNCHANGED <<graph, traversal, verdict, simulation, scenario>>

-----------------------------------------------------------------------------
GraphNext ==
    \/ BeginTraversal("validate") \/ BeginTraversal("simulate")
    \/ Follow \/ Return
    \/ Validate
    \/ \E sc \in Scenario(graph) : Simulate(sc) \/ StartSession(sc)
    \/ SimulateNode
    \/ LeaveLoop \/ ResolveNode
    \/ AdvanceSession

GraphSpec == GraphInit /\ [][GraphNext]_graphVars

-----------------------------------------------------------------------------
(* Properties.                                                             *)

\* Whether a node of the graph has an edge that the traversal follows to another.
Leads(a, b) == b \in ToSet(Edges(graph.node[a]))

\* The nodes that are in each set that holds the entry and what its nodes lead to.
Closed(S) == \A a \in S, b \in Nodes : Leads(a, b) => b \in S
Reach     == {n \in Nodes : \A S \in SUBSET Nodes : graph.entry \in S /\ Closed(S) => n \in S}

\* A chain of distinct nodes from the entry, of as many edges as the limit.
LongChain ==
    \E chain \in [1..(MaxDepth + 1) -> Nodes] :
        /\ chain[1] = graph.entry
        /\ \A i \in 1..MaxDepth : Leads(chain[i], chain[i + 1])
        /\ \A i, j \in 1..(MaxDepth + 1) : i # j => chain[i] # chain[j]

\* The depth-first traversal, with its limit and its pruning, decides what a
\* reader of the rules would: it passes no graph with a defect in reach of
\* the entry, and rejects one without only for a chain of distinct nodes as
\* long as the limit, never for a cycle alone.
VerdictMatchesRules ==
    /\ verdict = "passed" =>
          WellFormed(graph) /\ \A n \in Reach : ~ Defective(graph.node[n])
    /\ verdict = "failed" =>
          \/ ~ WellFormed(graph) \/ ~ ReferencesAreActive(graph)
          \/ \E n \in Reach : Defective(graph.node[n])
          \/ LongChain

\* A caller of a graph that was validated or only simulated once never
\* gets to an edge that leads nowhere or a node the runtime cannot play,
\* on any path; and in a validated one never to a target that is inactive.
PublishedNeverStrays ==
    session.status = "error" =>
        /\ session.why \in {"reference", "limit"}
        /\ session.why = "reference" /\ verdict = "passed" => graph.node[session.at].ref = "none"

\* The planner and the ends of actions know no edge that the validator does
\* not: as long as a call goes on it goes from a node along an edge of Edges.
CallFollowsEdges ==
    [][session.status \in {"resolving", "running"} /\ session.at \in Nodes
          /\ session'.at # session.at
       => Leads(session.at, session'.at) \/ session'.status \in {"completed", "error"}]_graphVars

\* The nodes of a walk.
Through(path) == [i \in DOMAIN path |-> path[i].node]

Foretold ==
    /\ IsPrefix(Through(session.path), Through(simulation.path))
    /\ session.status = "error" => session.why = "reference"
    /\ session.status = "completed" => Through(session.path) = Through(simulation.path)

\* A scenario that passed, with an answer for each menu, is the call of a
\* caller who gives these answers, node by node to the same end, unless a
\* reference fails.
SimulationForetells ==
    simulation.status = "passed" /\ session.status # "none" /\ scenario.digits = NoDigits =>
        Foretold

(* What the documents promise and the code does not keep.                  *)

\* The same for a scenario that gives its digits once for all menus.
SimulationForetellsDigits ==
    simulation.status = "passed" /\ session.status # "none" => Foretold

\* The prompts and the targets of a validated graph can be played.
ValidatedIsPlayable == session.why = "reference" => verdict # "passed"

\* The runtime finds its way through a validated graph.
ValidatedIsLoopFree == session.why = "limit" => verdict # "passed"
=============================================================================
