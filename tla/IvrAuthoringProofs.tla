------------------------- MODULE IvrAuthoringProofs -------------------------
(***************************************************************************)
(* Proofs about what authors an IVR flow.  First the graph of a version    *)
(* and its three readers, for every graph and every limit; then the review *)
(* of the patches to it, for every number of patches and requests.         *)
(***************************************************************************)
EXTENDS FlowGraph, PatchReview, TLAPS

-----------------------------------------------------------------------------
(* The graph: what holds of the traversal while it runs.                   *)

Onto(n) == Edges(graph.node[n])

\* A reader of the rules finds nothing wrong with the graph.
Sound == WellFormed(graph) /\ \A n \in Reach : ~ Defective(graph.node[n])

\* A reader finds something, or the limit bites.
Faulty ==
    \/ ~ WellFormed(graph)
    \/ \E n \in Reach : Defective(graph.node[n])
    \/ LongChain

\* The stack is a chain of distinct nodes from the entry, no longer than the limit.
StackInv ==
    /\ Len(traversal.stack) <= MaxDepth + 1
    /\ traversal.stack # <<>> => traversal.stack[1] = graph.entry
    /\ \A i \in DOMAIN traversal.stack : traversal.stack[i] \in traversal.reachable
    /\ \A i \in 1..(Len(traversal.stack) - 1) : Leads(traversal.stack[i], traversal.stack[i + 1])
    /\ \A i, j \in DOMAIN traversal.stack : i # j => traversal.stack[i] # traversal.stack[j]

\* What was seen is in reach of the entry; and where nothing was found yet, each
\* edge followed so far leads to what was seen, of a node that has returned every one.
SeenInv ==
    /\ traversal.reachable \subseteq Reach
    /\ \A n \in Nodes \ traversal.reachable : traversal.followed[n] = 0
    /\ traversal.failed => Faulty
    /\ traversal.by # "nobody" /\ ~ traversal.failed =>
          /\ WellFormed(graph) /\ graph.entry \in traversal.reachable
          /\ \A n \in traversal.reachable :
                /\ ~ Defective(graph.node[n])
                /\ \A i \in DOMAIN Onto(n) :
                      /\ Onto(n)[i] \in Nodes
                      /\ n \in ToSet(traversal.stack) => i <= traversal.followed[n]
                      => Onto(n)[i] \in traversal.reachable

\* One thing at a time.
PhaseInv ==
    /\ traversal.by = "nobody" => traversal = NoTraversal
    /\ traversal.by = "validate" => verdict = "none"
    /\ traversal.by = "simulate" => simulation.status = "none"
    /\ traversal.by # "nobody" \/ simulation.status = "walking" => session.status = "none"
    /\ simulation.status = "walking" => traversal.by = "nobody"

VerdictInv ==
    /\ verdict = "passed" => Sound /\ ReferencesAreActive(graph)
    /\ verdict = "failed" => Faulty \/ ~ ReferencesAreActive(graph)

-----------------------------------------------------------------------------
(* Simulation and call.                                                    *)

\* Where the simulator goes from a step.
StepOn(s) ==
    LET n      == graph.node[s.node]
        input  == IF n.type = "play_collect" THEN Input(scenario, s.node) ELSE "none"
        digits == DigitsAfter(s.digits, input)
    IN [node |-> Planned(n, digits, input, scenario.holds), digits |-> digits]

\* The steps of the simulation with the one it is about to take.
Trail ==
    IF simulation.status = "walking" THEN Append(simulation.path, Here(simulation))
    ELSE simulation.path

TrailInv ==
    simulation.status \in {"walking", "passed"} =>
        /\ Sound
        /\ scenario \in Scenario(graph)
        /\ Len(Trail) \in 1..WalkLimit
        /\ Trail[1] = [node |-> graph.entry, digits |-> scenario.digits]
        /\ \A i \in 1..(Len(Trail) - 1) :
              /\ Trail[i].node \in Nodes
              /\ graph.node[Trail[i].node].type \notin Ends
              /\ Trail[i + 1] = StepOn(Trail[i])
              /\ Trail[i + 1].node # NoNode
        /\ simulation.status = "passed" =>
              /\ Trail[Len(Trail)].node \in Nodes
              /\ graph.node[Trail[Len(Trail)].node].type \in Ends

CallInv ==
    session.status # "none" =>
        /\ Sound
        /\ scenario \in Scenario(graph)
        /\ session.status = "resolving" =>
              session.at \in Reach \cup {NoNode} /\ session.actions <= MaxActions
        /\ session.status = "running" =>
              session.at \in Reach /\ graph.node[session.at].type \in Prompts \cup Ends
        /\ session.status = "error" => session.why \in {"reference", "limit"}
        /\ session.status = "error" /\ session.why = "reference" =>
              /\ session.at \in Nodes /\ graph.node[session.at].ref # "active"
              /\ graph.node[session.at].type \in Prompts \cup Ends \cup {"business_hours"}

\* The call is on the trail of the simulation.
InStepInv ==
    simulation.status = "passed" /\ session.status # "none" /\ scenario.digits = NoDigits =>
        /\ Len(session.path) <= Len(simulation.path)
        /\ \A i \in DOMAIN session.path : session.path[i] = simulation.path[i]
        /\ session.status = "resolving" =>
              /\ Len(session.path) < Len(simulation.path)
              /\ simulation.path[Len(session.path) + 1] = Here(session)
              /\ session.rounds <= Len(session.path)
        /\ session.status = "running" =>
              /\ session.path # <<>>
              /\ session.path[Len(session.path)] = Here(session)
        /\ session.status = "completed" => Len(session.path) = Len(simulation.path)
        /\ session.status = "error" => session.why = "reference"

GraphInv ==
    /\ graph \in Graphs
    /\ GraphTypeOK
    /\ StackInv /\ SeenInv /\ PhaseInv /\ VerdictInv
    /\ TrailInv /\ CallInv /\ InStepInv

-----------------------------------------------------------------------------
(* The operators.                                                          *)

LEMMA ConcatSet ==
    ASSUME NEW S, NEW s \in Seq(S), NEW t \in Seq(S)
    PROVE  s \o t \in Seq(S) /\ ToSet(s \o t) = ToSet(s) \cup ToSet(t)
<1>1. s \o t \in Seq(S) /\ Len(s \o t) = Len(s) + Len(t)
    OBVIOUS
<1>2. ASSUME NEW i \in DOMAIN s PROVE i \in DOMAIN (s \o t) /\ (s \o t)[i] = s[i]
    OBVIOUS
<1>3. ASSUME NEW i \in DOMAIN t
      PROVE  Len(s) + i \in DOMAIN (s \o t) /\ (s \o t)[Len(s) + i] = t[i]
    OBVIOUS
<1>4. ASSUME NEW i \in DOMAIN (s \o t)
      PROVE  (s \o t)[i] \in ToSet(s) \cup ToSet(t)
  <2>1. CASE i <= Len(s)
      BY <2>1, <1>1 DEF ToSet
  <2>2. CASE i > Len(s)
    <3>1. i - Len(s) \in DOMAIN t /\ (s \o t)[i] = t[i - Len(s)]
        BY <2>2, <1>1
    <3> QED
        BY <3>1 DEF ToSet
  <2> QED
      BY <2>1, <2>2, <1>1
<1>5. ToSet(s) \subseteq ToSet(s \o t)
    BY <1>2 DEF ToSet
<1>6. ToSet(t) \subseteq ToSet(s \o t)
    BY <1>3 DEF ToSet
<1>7. ToSet(s \o t) \subseteq ToSet(s) \cup ToSet(t)
  <2> SUFFICES ASSUME NEW x \in ToSet(s \o t) PROVE x \in ToSet(s) \cup ToSet(t)
      OBVIOUS
  <2>1. PICK i \in DOMAIN (s \o t) : x = (s \o t)[i]
      BY Zenon DEF ToSet
  <2> QED
      BY <2>1, <1>4
<1> QED
    BY <1>1, <1>5, <1>6, <1>7

\* What visit follows: five edges of every node, and those of a switch or gateway.
LEMMA EdgesOf ==
    ASSUME NEW n \in Node
    PROVE  /\ Edges(n) \in Seq(Targets)
           /\ {n.next, n.timeout, n.invalid, n.default, n.fallback} \subseteq ToSet(Edges(n))
           /\ n.type = "switch" => \A d \in Digits : n.cases[d] \in ToSet(Edges(n))
           /\ n.type \in Gateways => {n.yes, n.no} \subseteq ToSet(Edges(n))
<1> DEFINE five  == <<n.next, n.timeout, n.invalid, n.default, n.fallback>>
           cases == IF n.type = "switch" THEN [i \in DOMAIN Keys |-> n.cases[Keys[i]]] ELSE <<>>
           gate  == IF n.type \in Gateways THEN <<n.yes, n.no>> ELSE <<>>
<1>1. five \in Seq(Targets) /\ {n.next, n.timeout, n.invalid, n.default, n.fallback} \subseteq ToSet(five)
  <2>1. five \in Seq(Targets) /\ DOMAIN five = 1..5
      BY DEF Node
  <2>2. /\ five[1] = n.next /\ five[2] = n.timeout /\ five[3] = n.invalid
        /\ five[4] = n.default /\ five[5] = n.fallback
      OBVIOUS
  <2>3. \A i \in 1..5 : five[i] \in ToSet(five)
      BY <2>1 DEF ToSet
  <2> HIDE DEF five
  <2> QED
      BY <2>1, <2>2, <2>3
<1>2. cases \in Seq(Targets)
  <2>1. CASE n.type = "switch"
    <3>1. \A i \in DOMAIN Keys : Keys[i] \in Digits /\ n.cases[Keys[i]] \in Targets
        BY GraphAssumption DEF Node
    <3>2. [i \in DOMAIN Keys |-> n.cases[Keys[i]]] \in Seq(Targets)
        BY <3>1, GraphAssumption
    <3> QED
        BY <2>1, <3>2
  <2> QED
      BY <2>1
<1>3. n.type = "switch" => \A d \in Digits : n.cases[d] \in ToSet(cases)
  <2> SUFFICES ASSUME n.type = "switch", NEW d \in Digits PROVE n.cases[d] \in ToSet(cases)
      OBVIOUS
  <2>1. PICK i \in DOMAIN Keys : Keys[i] = d
      BY DEF Digits, ToSet
  <2> QED
      BY <2>1 DEF ToSet
<1>4. gate \in Seq(Targets)
    BY DEF Node
<1>5. n.type \in Gateways => {n.yes, n.no} \subseteq ToSet(gate)
  <2> SUFFICES ASSUME n.type \in Gateways PROVE {n.yes, n.no} \subseteq ToSet(gate)
      OBVIOUS
  <2>1. gate[1] = n.yes /\ gate[2] = n.no /\ DOMAIN gate = 1..2
      OBVIOUS
  <2> HIDE DEF gate
  <2> QED
      BY <2>1 DEF ToSet
<1>6. Edges(n) = five \o cases \o gate
    BY Zenon DEF Edges
<1> HIDE DEF five, cases, gate
<1>7. five \o cases \in Seq(Targets) /\ ToSet(five \o cases) = ToSet(five) \cup ToSet(cases)
    BY <1>1, <1>2, ConcatSet
<1> DEFINE both == five \o cases
<1>9. both \in Seq(Targets) /\ ToSet(both) = ToSet(five) \cup ToSet(cases) /\ Edges(n) = both \o gate
    BY <1>6, <1>7
<1> HIDE DEF both
<1>8. Edges(n) \in Seq(Targets) /\ ToSet(Edges(n)) = ToSet(five) \cup ToSet(cases) \cup ToSet(gate)
    BY <1>4, <1>9, ConcatSet
<1> QED
    BY <1>1, <1>3, <1>5, <1>8

Inputs == Digits \cup {"timeout", "invalid", "none"}

\* Where the planner goes is an edge that visit follows.
LEMMA PlannedEdge ==
    ASSUME NEW n \in Node, n.type \in Supported \ Ends,
           NEW digits \in Digits \cup {NoDigits}, NEW input \in Inputs, NEW holds \in BOOLEAN
    PROVE  Planned(n, digits, input, holds) \in ToSet(Edges(n))
<1>1. CASE n.type \in {"start", "play_prompt", "set_variable"}
    BY <1>1, EdgesOf DEF Planned
<1>2. CASE n.type = "play_collect"
  <2>1. Planned(n, digits, input, holds) = PlannedCollect(n, input)
      BY <1>2 DEF Planned, Gateways
  <2>2. PlannedCollect(n, input) \in {n.timeout, n.invalid, n.default, n.next}
      BY DEF PlannedCollect, OrElse
  <2> QED
      BY <2>1, <2>2, EdgesOf
<1>3. CASE n.type = "switch"
  <2>1. Planned(n, digits, input, holds) = SwitchTarget(n, digits)
      BY <1>3 DEF Planned, Gateways
  <2>2. SwitchTarget(n, digits) \in {n.default} \cup {n.cases[d] : d \in Digits}
      BY DEF SwitchTarget, OrElse
  <2> QED
      BY <1>3, <2>1, <2>2, EdgesOf
<1>4. CASE n.type \in Gateways
  <2>1. Planned(n, digits, input, holds) \in {n.yes, n.no}
      BY <1>4 DEF Planned, Gateways
  <2> QED
      BY <1>4, <2>1, EdgesOf
<1> QED
    BY <1>1, <1>2, <1>3, <1>4 DEF Supported, Prompts

\* So is where a completed action leads.
LEMMA CompletedEdge ==
    ASSUME NEW n \in Node, n.type \in Prompts, NEW input \in Inputs,
           n.type = "play_collect" => input # "none"
    PROVE  Completed(n, input) \in ToSet(Edges(n))
<1>1. CASE n.type = "play_prompt"
    BY <1>1, EdgesOf DEF Completed
<1>2. CASE n.type = "play_collect"
  <2>1. Completed(n, input) \in {n.timeout, n.invalid, n.default, n.next}
      BY <1>2, GraphAssumption DEF Completed, OrElse, Inputs
  <2> QED
      BY <2>1, EdgesOf
<1> QED
    BY <1>1, <1>2 DEF Prompts

\* The runtime goes where the planner goes, unless the planner has no edge.
LEMMA CompletedAsPlanned ==
    ASSUME NEW n \in Node, n.type \in Prompts, NEW input \in Inputs,
           n.type = "play_collect" => input # "none",
           NEW digits, NEW holds,
           Planned(n, digits, input, holds) # NoNode
    PROVE  Completed(n, input) = Planned(n, digits, input, holds)
<1>1. CASE n.type = "play_prompt"
  <2>1. Planned(n, digits, input, holds) = n.next
      BY <1>1 DEF Planned, Gateways
  <2>2. Completed(n, input) = n.next
      BY <1>1 DEF Completed
  <2> QED
      BY <2>1, <2>2
<1>2. CASE n.type = "play_collect"
  <2>1. Planned(n, digits, input, holds) = PlannedCollect(n, input)
      BY <1>2 DEF Planned, Gateways
  <2>2. CASE input = "timeout"
      BY <1>2, <2>1, <2>2, GraphAssumption DEF Completed, PlannedCollect, OrElse
  <2>3. CASE input = "invalid"
      BY <1>2, <2>1, <2>3, GraphAssumption DEF Completed, PlannedCollect, OrElse
  <2>4. CASE input \in Digits
    <3>1. input # "timeout" /\ input # "invalid"
        BY <2>4, GraphAssumption
    <3>2. PlannedCollect(n, input) = n.next
        BY <3>1 DEF PlannedCollect
    <3>3. Completed(n, input) = n.next
        BY <1>2, <2>4, <3>1 DEF Completed
    <3> QED
        BY <2>1, <3>2, <3>3
  <2> QED
      BY <1>2, <2>2, <2>3, <2>4 DEF Inputs
<1> QED
    BY <1>1, <1>2 DEF Prompts

\* Only the digits of a menu change the last digits.
LEMMA InputType ==
    ASSUME graph \in Graphs, NEW sc \in Scenario(graph), NEW id \in Nodes,
           graph.node[id].type = "play_collect"
    PROVE  Input(sc, id) \in Inputs \ {"none"}
<1>1. sc.answer[id] \in Digits \cup {"timeout", "invalid", "none"} /\ sc.digits \in Digits \cup {NoDigits}
    BY DEF Scenario
<1> QED
    BY <1>1, GraphAssumption DEF Input, Inputs

LEMMA DigitsType ==
    ASSUME NEW digits \in Digits \cup {NoDigits}, NEW input
    PROVE  DigitsAfter(digits, input) \in Digits \cup {NoDigits}
    BY DEF DigitsAfter

-----------------------------------------------------------------------------
(* Reach, and what stays as it is because the graph does.                  *)

LEMMA ReachGrows ==
    /\ graph.entry \in Nodes => graph.entry \in Reach
    /\ \A n \in Reach, m \in Nodes : Leads(n, m) => m \in Reach
    /\ \A S \in SUBSET Nodes : graph.entry \in S /\ Closed(S) => Reach \subseteq S
<1>1. \A n \in Reach, m \in Nodes : Leads(n, m) => m \in Reach
  <2> SUFFICES ASSUME NEW n \in Reach, NEW m \in Nodes, Leads(n, m),
                      NEW S \in SUBSET Nodes, graph.entry \in S, Closed(S)
               PROVE  m \in S
      BY DEF Reach
  <2>1. n \in S
      BY DEF Reach
  <2> QED
      BY <2>1 DEF Closed
<1> QED
    BY <1>1 DEF Reach

LEMMA SameGraph ==
    ASSUME graph' = graph
    PROVE  /\ Reach' = Reach
           /\ Sound' = Sound
           /\ Faulty' = Faulty
<1>1. \A a, b : Leads(a, b)' = Leads(a, b)
    BY DEF Leads
<1>2. \A S \in SUBSET Nodes : Closed(S)' = Closed(S)
    BY DEF Closed, Leads
<1>3. Reach' = Reach
    BY <1>2 DEF Reach
<1>4. LongChain' = LongChain
    BY DEF LongChain, Leads
<1> QED
    BY <1>3, <1>4 DEF Sound, Faulty

LEMMA GraphType ==
    ASSUME graph \in Graphs
    PROVE  graph.entry \in Targets /\ graph.node \in [Nodes -> Node]
    BY GraphAssumption

\* In a sound graph no edge goes to an id that is no node.
LEMMA SoundEdge ==
    ASSUME graph \in Graphs, Sound, NEW n \in Reach, NEW target \in ToSet(Edges(graph.node[n]))
    PROVE  target \in Reach \cup {NoNode}
<1>1. n \in Nodes /\ graph.node[n] \in Node
    BY GraphType DEF Reach
<1>2. Edges(graph.node[n]) \in Seq(Targets)
    BY <1>1, EdgesOf
<1>3. target \in Targets
    BY <1>2 DEF ToSet
<1>4. target # Missing
    BY DEF Sound, Defective, ToSet
<1>5. CASE target \in Nodes
    BY <1>5, ReachGrows DEF Leads
<1> QED
    BY <1>3, <1>4, <1>5 DEF Targets

\* What an action leaves alone keeps what is known of it.
LEMMA TraversalKept ==
    ASSUME StackInv, SeenInv, UNCHANGED <<graph, traversal>>
    PROVE  StackInv' /\ SeenInv'
<1>1. StackInv'
    BY DEF StackInv, Leads
<1>2. Reach' = Reach /\ Faulty' = Faulty
    BY SameGraph
<1>3. SeenInv'
    BY <1>2 DEF SeenInv, Onto
<1> QED
    BY <1>1, <1>3

LEMMA VerdictKept ==
    ASSUME VerdictInv, UNCHANGED <<graph, verdict>>
    PROVE  VerdictInv'
    BY SameGraph DEF VerdictInv

LEMMA TrailKept ==
    ASSUME TrailInv, UNCHANGED <<graph, simulation, scenario>>
    PROVE  TrailInv'
<1>1. Sound' = Sound /\ Trail' = Trail /\ Scenario(graph)' = Scenario(graph)
    BY SameGraph DEF Trail, Here
<1>2. \A s : StepOn(s)' = StepOn(s)
    BY DEF StepOn
<1> QED
    BY <1>1, <1>2 DEF TrailInv

LEMMA CallKept ==
    ASSUME CallInv, UNCHANGED <<graph, scenario, session>>
    PROVE  CallInv'
    BY SameGraph DEF CallInv

LEMMA InStepKept ==
    ASSUME InStepInv, UNCHANGED <<simulation, scenario, session>>
    PROVE  InStepInv'
    BY DEF InStepInv, Here

LEMMA NoCallYet ==
    ASSUME session'.status = "none"
    PROVE  CallInv' /\ InStepInv'
    BY DEF CallInv, InStepInv

-----------------------------------------------------------------------------
(* The first state.                                                        *)

LEMMA InitGraph == GraphInit => GraphInv
<1> SUFFICES ASSUME GraphInit PROVE GraphInv
    OBVIOUS
<1> USE DEF GraphInit
<1>1. graph \in Graphs /\ graph.entry \in Targets /\ graph.node \in [Nodes -> Node]
    BY GraphType
<1>2. traversal \in [by : {"nobody", "validate", "simulate"}, stack : Seq(Nodes),
                     followed : [Nodes -> Nat], reachable : SUBSET Nodes, failed : BOOLEAN]
    BY DEF NoTraversal
<1>3. /\ simulation \in [status : {"none", "walking", "passed", "failed"}, at : Targets,
                         digits : Digits \cup {NoDigits}, path : Seq(Step)]
      /\ Len(simulation.path) <= WalkLimit
    BY GraphAssumption DEF NoSimulation, Targets
<1>4. session \in [status : {"none", "resolving", "running", "completed", "error"}, at : Targets,
                    digits : Digits \cup {NoDigits}, path : Seq(Step), rounds : 0..WalkLimit,
                    actions : 0..(MaxActions + 1),
                    why : {"none", "missing", "unsupported", "reference", "limit"}]
    BY GraphAssumption DEF NoSession, Targets
<1>5. GraphTypeOK
    BY <1>1, <1>2, <1>3, <1>4 DEF GraphTypeOK, NoSession
<1>6. StackInv /\ SeenInv
    BY GraphAssumption DEF StackInv, SeenInv, NoTraversal
<1>7. PhaseInv /\ VerdictInv /\ TrailInv /\ CallInv /\ InStepInv
    BY DEF PhaseInv, VerdictInv, TrailInv, CallInv, InStepInv, NoSimulation, NoSession
<1> QED
    BY <1>1, <1>5, <1>6, <1>7 DEF GraphInv

-----------------------------------------------------------------------------
(* The traversal.                                                          *)

TraversalType ==
    [by : {"nobody", "validate", "simulate"}, stack : Seq(Nodes),
     followed : [Nodes -> Nat], reachable : SUBSET Nodes, failed : BOOLEAN]

\* A visit that begins puts one more node on the stack.
LEMMA VisitIs ==
    ASSUME NEW t \in TraversalType, NEW id \in Nodes
    PROVE  /\ Visit(t, id) \in TraversalType
           /\ Visit(t, id).by = t.by
           /\ Visit(t, id).stack = Append(t.stack, id)
           /\ Visit(t, id).followed = t.followed
           /\ Visit(t, id).reachable = t.reachable \cup {id}
           /\ Visit(t, id).failed = (t.failed \/ Defective(graph.node[id]))
<1> DEFINE stack  == Append(t.stack, id)
           seen   == t.reachable \cup {id}
           failed == t.failed \/ Defective(graph.node[id])
<1>1. Visit(t, id) = [t EXCEPT !.stack = stack, !.reachable = seen, !.failed = failed]
    BY DEF Visit
<1>2. stack \in Seq(Nodes) /\ seen \in SUBSET Nodes /\ failed \in BOOLEAN
    BY DEF TraversalType
<1> HIDE DEF stack, seen, failed
<1>3. Visit(t, id) \in TraversalType
    BY <1>1, <1>2 DEF TraversalType
<1>4. /\ Visit(t, id).by = t.by
      /\ Visit(t, id).stack = stack
      /\ Visit(t, id).followed = t.followed
      /\ Visit(t, id).reachable = seen
      /\ Visit(t, id).failed = failed
    BY <1>1 DEF TraversalType
<1> QED
    BY <1>3, <1>4 DEF stack, seen, failed

\* The steps of a traversal change the traversal only.
LEMMA TypeKept ==
    ASSUME GraphTypeOK, traversal' \in TraversalType,
           UNCHANGED <<graph, verdict, simulation, scenario, session>>
    PROVE  GraphTypeOK'
BY DEF GraphTypeOK, TraversalType

\* A validator starts with the entry, or has nothing to visit.
LEMMA BeginStep ==
    ASSUME GraphInv, NEW by \in {"validate", "simulate"}, BeginTraversal(by)
    PROVE  GraphInv'
<1> DEFINE begun == [NoTraversal EXCEPT !.by = by]
<1>1. /\ AtRest /\ UNCHANGED <<graph, verdict, simulation, scenario, session>>
      /\ by = "validate" => verdict = "none"
      /\ by = "simulate" => simulation.status = "none"
      /\ traversal' = IF WellFormed(graph) THEN Visit(begun, graph.entry)
                      ELSE [begun EXCEPT !.failed = TRUE]
    BY DEF BeginTraversal
<1>2. graph \in Graphs /\ GraphTypeOK
    BY DEF GraphInv
<1>10. NoTraversal \in TraversalType
    BY DEF NoTraversal, TraversalType
<1>3. /\ begun.by = by /\ begun.stack = <<>> /\ begun.followed = [n \in Nodes |-> 0]
      /\ begun.reachable = {} /\ begun.failed = FALSE
    BY DEF NoTraversal
<1>4. begun \in TraversalType
    BY <1>10 DEF TraversalType
<1> HIDE DEF begun
<1>5. traversal' \in TraversalType /\ traversal'.by = by /\ StackInv' /\ SeenInv'
  <2>1. CASE WellFormed(graph)
    <3>1. graph.entry \in Nodes
        BY <2>1 DEF WellFormed
    <3>2. traversal' = Visit(begun, graph.entry)
        BY <1>1, <2>1
    <3>3. /\ traversal' \in TraversalType
          /\ traversal'.by = by
          /\ traversal'.stack = <<graph.entry>>
          /\ traversal'.followed = [n \in Nodes |-> 0]
          /\ traversal'.reachable = {graph.entry}
          /\ traversal'.failed <=> Defective(graph.node[graph.entry])
      <4>1. /\ traversal' \in TraversalType
            /\ traversal'.by = begun.by
            /\ traversal'.stack = Append(begun.stack, graph.entry)
            /\ traversal'.followed = begun.followed
            /\ traversal'.reachable = begun.reachable \cup {graph.entry}
            /\ traversal'.failed = (begun.failed \/ Defective(graph.node[graph.entry]))
          BY <1>4, <3>1, <3>2, VisitIs
      <4>2. traversal'.failed <=> Defective(graph.node[graph.entry])
          BY <1>3, <4>1
      <4>3. Append(<<>>, graph.entry) = <<graph.entry>>
          BY <3>1
      <4> QED
          BY <1>3, <4>1, <4>2, <4>3
    <3>4. StackInv'
      <4>1. /\ Len(traversal'.stack) = 1 /\ DOMAIN traversal'.stack = {1}
            /\ traversal'.stack[1] = graph.entry
          BY <3>3
      <4>2. Len(traversal'.stack) <= MaxDepth + 1 /\ 1..(Len(traversal'.stack) - 1) = {}
          BY <4>1, GraphAssumption
      <4> QED
          BY <1>1, <3>3, <4>1, <4>2 DEF StackInv
    <3>5. Reach' = Reach /\ Faulty' = Faulty
        BY <1>1, SameGraph
    <3>6. graph.entry \in Reach
        BY <3>1, ReachGrows
    <3>7. traversal'.failed => Faulty
        BY <3>3, <3>6 DEF Faulty
    <3>8. graph.entry \in ToSet(traversal'.stack)
        BY <3>3 DEF ToSet
    <3>9. \A n \in {graph.entry} : \A i \in DOMAIN Onto(n)' :
             n \in ToSet(traversal'.stack) /\ i <= traversal'.followed[n] => FALSE
      <4>1. Edges(graph.node[graph.entry]) \in Seq(Targets)
          BY <1>2, <3>1, GraphType, EdgesOf
      <4> QED
          BY <1>1, <3>1, <3>3, <4>1 DEF Onto
    <3>10. SeenInv'
        BY <1>1, <2>1, <3>3, <3>5, <3>6, <3>7, <3>8, <3>9 DEF SeenInv
    <3> QED
        BY <3>3, <3>4, <3>10
  <2>2. CASE ~ WellFormed(graph)
    <3>1. /\ traversal' \in TraversalType
          /\ traversal'.by = by /\ traversal'.stack = <<>>
          /\ traversal'.followed = [n \in Nodes |-> 0]
          /\ traversal'.reachable = {} /\ traversal'.failed = TRUE
      <4>1. traversal' = [begun EXCEPT !.failed = TRUE]
          BY <1>1, <2>2
      <4> QED
          BY <1>3, <1>4, <4>1 DEF TraversalType
    <3>2. Faulty' /\ StackInv'
        BY <1>1, <2>2, <3>1, GraphAssumption DEF Faulty, StackInv
    <3>3. SeenInv'
        BY <3>1, <3>2 DEF SeenInv
    <3> QED
        BY <3>1, <3>2, <3>3
  <2> QED
      BY <2>1, <2>2
<1>6. GraphTypeOK'
    BY <1>1, <1>2, <1>5, TypeKept
<1>7. PhaseInv'
    BY <1>1, <1>5 DEF PhaseInv, AtRest
<1>8. VerdictInv' /\ TrailInv'
    BY <1>1, VerdictKept, TrailKept DEF GraphInv
<1>9. CallInv' /\ InStepInv'
    BY <1>1, NoCallYet DEF AtRest
<1> QED
    BY <1>1, <1>2, <1>5, <1>6, <1>7, <1>8, <1>9 DEF GraphInv

\* A stack as long as the limit is the chain that the limit is about.
LEMMA StackIsChain ==
    ASSUME GraphInv, Len(traversal.stack) > MaxDepth
    PROVE  LongChain
<1> DEFINE s == traversal.stack
           chain == [i \in 1..(MaxDepth + 1) |-> s[i]]
<1>1. s \in Seq(Nodes) /\ Len(s) = MaxDepth + 1 /\ MaxDepth \in Nat
    BY GraphAssumption DEF GraphInv, GraphTypeOK, StackInv
<1>2. chain \in [1..(MaxDepth + 1) -> Nodes]
    BY <1>1
<1>3. chain[1] = graph.entry
    BY <1>1 DEF GraphInv, StackInv
<1>4. \A i \in 1..MaxDepth : Leads(chain[i], chain[i + 1])
  <2> SUFFICES ASSUME NEW i \in 1..MaxDepth PROVE Leads(chain[i], chain[i + 1])
      OBVIOUS
  <2>1. i \in 1..(Len(s) - 1) /\ i \in 1..(MaxDepth + 1) /\ i + 1 \in 1..(MaxDepth + 1)
      BY <1>1
  <2>2. chain[i] = s[i] /\ chain[i + 1] = s[i + 1]
      BY <2>1
  <2>3. Leads(s[i], s[i + 1])
      BY <2>1 DEF GraphInv, StackInv
  <2> HIDE DEF chain, s
  <2> QED
      BY <2>2, <2>3
<1>5. \A i, j \in 1..(MaxDepth + 1) : i # j => chain[i] # chain[j]
    BY <1>1 DEF GraphInv, StackInv
<1> HIDE DEF chain
<1> QED
    BY <1>2, <1>3, <1>4, <1>5 DEF LongChain

\* Where a node is on the stack.
LEMMA TopIs ==
    ASSUME GraphInv, traversal.stack # <<>>
    PROVE  /\ Len(traversal.stack) \in Nat \ {0}
           /\ Top = traversal.stack[Len(traversal.stack)]
           /\ Top \in Nodes /\ Top \in traversal.reachable /\ Top \in Reach
           /\ Onward = Onto(Top) /\ Onward \in Seq(Targets)
           /\ traversal.by # "nobody"
<1>1. traversal.stack \in Seq(Nodes) /\ graph \in Graphs
    BY DEF GraphInv, GraphTypeOK
<1>2. Len(traversal.stack) \in Nat \ {0} /\ Top = traversal.stack[Len(traversal.stack)]
    BY <1>1 DEF Top, Last
<1>3. Top \in Nodes /\ Top \in traversal.reachable
    BY <1>1, <1>2 DEF GraphInv, StackInv
<1>4. Top \in Reach
    BY <1>3 DEF GraphInv, SeenInv
<1>5. Onward = Onto(Top) /\ Onward \in Seq(Targets)
    BY <1>1, <1>3, GraphType, EdgesOf DEF Onward, Onto
<1>6. traversal.by # "nobody"
    BY DEF GraphInv, PhaseInv, NoTraversal
<1> QED
    BY <1>2, <1>3, <1>4, <1>5, <1>6

\* Nothing but the traversal moves.
LEMMA TraversalMoves ==
    ASSUME GraphInv, traversal.by # "nobody",
           traversal' \in TraversalType, traversal'.by = traversal.by,
           UNCHANGED <<graph, verdict, simulation, scenario, session>>,
           StackInv', SeenInv'
    PROVE  GraphInv'
<1>1. GraphTypeOK'
    BY TypeKept DEF GraphInv
<1>2. PhaseInv'
    BY DEF GraphInv, PhaseInv
<1>3. VerdictInv' /\ TrailInv'
    BY VerdictKept, TrailKept DEF GraphInv
<1>4. CallInv' /\ InStepInv'
    BY NoCallYet DEF GraphInv, PhaseInv
<1> QED
    BY <1>1, <1>2, <1>3, <1>4 DEF GraphInv

\* The next edge is followed: past the limit, to a node seen before, or to a new one.
LEMMA FollowStep ==
    ASSUME GraphInv, Follow
    PROVE  GraphInv'
<1> DEFINE s == traversal.stack
<1>1. traversal.stack # <<>> /\ UNCHANGED <<graph, verdict, simulation, scenario, session>>
    BY DEF Follow
<1>2. PICK i \in DOMAIN Onward :
        /\ i > traversal.followed[Top] /\ Onward[i] \in Nodes
        /\ \A j \in DOMAIN Onward :
              traversal.followed[Top] < j /\ j < i => Onward[j] \notin Nodes
        /\ LET now == [traversal EXCEPT !.followed[Top] = i]
           IN traversal' = IF Len(now.stack) > MaxDepth THEN [now EXCEPT !.failed = TRUE]
                           ELSE IF Onward[i] \in now.reachable THEN now
                           ELSE Visit(now, Onward[i])
    BY DEF Follow
<1> DEFINE now == [traversal EXCEPT !.followed[Top] = i]
           target == Onward[i]
<1>3. /\ Len(s) \in Nat \ {0} /\ Top = s[Len(s)]
      /\ Top \in Nodes /\ Top \in traversal.reachable /\ Top \in Reach
      /\ Onward = Onto(Top) /\ Onward \in Seq(Targets)
      /\ traversal.by # "nobody"
    BY <1>1, TopIs
<1>4. traversal \in TraversalType /\ graph \in Graphs /\ StackInv /\ SeenInv
    BY DEF GraphInv, GraphTypeOK, TraversalType
<1>5. i \in Nat /\ target \in Nodes /\ target \in Reach /\ Leads(Top, target)
  <2>1. i \in Nat /\ target \in Nodes
      BY <1>2, <1>3
  <2>2. Leads(Top, target)
      BY <1>3 DEF Leads, ToSet, Onto
  <2> QED
      BY <1>3, <2>1, <2>2, ReachGrows
<1>6. /\ now \in TraversalType
      /\ now.by = traversal.by /\ now.stack = s
      /\ now.reachable = traversal.reachable /\ now.failed = traversal.failed
      /\ now.followed = [traversal.followed EXCEPT ![Top] = i]
    BY <1>3, <1>4, <1>5 DEF TraversalType
<1>7. /\ now.followed[Top] = i
      /\ \A n \in Nodes : n # Top => now.followed[n] = traversal.followed[n]
      /\ \A n \in Nodes \ traversal.reachable : now.followed[n] = 0
    BY <1>3, <1>4, <1>6 DEF TraversalType, SeenInv
<1>8. traversal' = IF Len(now.stack) > MaxDepth THEN [now EXCEPT !.failed = TRUE]
                   ELSE IF target \in now.reachable THEN now
                   ELSE Visit(now, target)
    BY <1>2
<1>9. Reach' = Reach /\ Faulty' = Faulty /\ \A n : Onto(n)' = Onto(n)
    BY <1>1, SameGraph DEF Onto
<1> HIDE DEF now, target
\* What is known of the edges once target is among the nodes seen.
<1>10. ASSUME NEW R \in SUBSET Nodes, traversal.reachable \subseteq R, target \in R,
              NEW n \in traversal.reachable, NEW k \in DOMAIN Onto(n), Onto(n)[k] \in Nodes,
              ~ traversal.failed, n \in ToSet(s) => k <= now.followed[n]
       PROVE  Onto(n)[k] \in R
  <2>1. n \in Nodes
      BY <1>4 DEF TraversalType
  <2>2. CASE n # Top
      BY <1>3, <1>4, <1>7, <1>10, <2>1, <2>2 DEF SeenInv
  <2>3. CASE n = Top
    <3>1. n \in ToSet(s)
        BY <1>3, <1>4, <2>3 DEF ToSet, TraversalType
    <3>2. k \in Nat /\ k <= i
        BY <1>3, <1>7, <1>10, <2>3, <3>1
    <3>3. CASE k <= traversal.followed[Top]
        BY <1>3, <1>4, <1>10, <2>3, <3>3 DEF SeenInv
    <3>4. CASE k = i
        BY <1>3, <1>10, <2>3, <3>4 DEF target
    <3>5. traversal.followed[Top] \in Nat
        BY <1>3, <1>4 DEF TraversalType
    <3>6. ~ (traversal.followed[Top] < k /\ k < i)
        BY <1>2, <1>3, <1>10, <2>3
    <3> QED
        BY <1>5, <3>2, <3>3, <3>4, <3>5, <3>6
  <2> QED
      BY <2>2, <2>3
<1>11. CASE Len(s) > MaxDepth
  <2>1. /\ traversal' \in TraversalType /\ traversal'.by = traversal.by /\ traversal'.stack = s
        /\ traversal'.followed = now.followed /\ traversal'.reachable = traversal.reachable
        /\ traversal'.failed = TRUE
      BY <1>6, <1>8, <1>11 DEF TraversalType
  <2>2. Faulty
      BY <1>11, StackIsChain DEF Faulty
  <2>3. StackInv'
      BY <1>1, <1>4, <2>1 DEF StackInv, Leads
  <2>4. SeenInv'
      BY <1>4, <1>7, <1>9, <2>1, <2>2 DEF SeenInv
  <2> QED
      BY <1>1, <1>3, <2>1, <2>3, <2>4, TraversalMoves
<1>12. CASE ~ (Len(s) > MaxDepth) /\ target \in traversal.reachable
  <2>1. traversal' = now
      BY <1>6, <1>8, <1>12
  <2>2. StackInv'
      BY <1>1, <1>4, <1>6, <2>1 DEF StackInv, Leads
  <2>3. SeenInv'
    <3>1. \A n \in Nodes \ traversal'.reachable : traversal'.followed[n] = 0
        BY <1>6, <1>7, <2>1
    <3>2. ASSUME traversal'.by # "nobody", ~ traversal'.failed, NEW n \in traversal'.reachable
          PROVE  /\ ~ Defective(graph.node[n])
                 /\ \A k \in DOMAIN Onto(n) :
                      /\ Onto(n)[k] \in Nodes
                      /\ n \in ToSet(traversal'.stack) => k <= traversal'.followed[n]
                      => Onto(n)[k] \in traversal'.reachable
        BY <1>3, <1>4, <1>6, <1>10, <1>12, <2>1, <3>2 DEF SeenInv, TraversalType
    <3> QED
        BY <1>1, <1>4, <1>6, <1>9, <2>1, <3>1, <3>2 DEF SeenInv
  <2> QED
      BY <1>1, <1>3, <1>6, <2>1, <2>2, <2>3, TraversalMoves
<1>13. CASE ~ (Len(s) > MaxDepth) /\ target \notin traversal.reachable
  <2>1. traversal' = Visit(now, target)
      BY <1>6, <1>8, <1>13
  <2>2. /\ traversal' \in TraversalType /\ traversal'.by = traversal.by
        /\ traversal'.stack = Append(s, target)
        /\ traversal'.followed = now.followed
        /\ traversal'.reachable = traversal.reachable \cup {target}
        /\ traversal'.failed <=> traversal.failed \/ Defective(graph.node[target])
      BY <1>5, <1>6, <2>1, VisitIs
  <2>3. s \in Seq(Nodes) /\ MaxDepth \in Nat
      BY <1>4, GraphAssumption DEF TraversalType
  <2>4. StackInv'
    <3>1. /\ Len(traversal'.stack) = Len(s) + 1
          /\ \A k \in DOMAIN s : traversal'.stack[k] = s[k]
          /\ traversal'.stack[Len(s) + 1] = target
          /\ DOMAIN traversal'.stack = 1..(Len(s) + 1) /\ DOMAIN s = 1..Len(s)
        BY <1>5, <2>2, <2>3
    <3>2. Len(traversal'.stack) <= MaxDepth + 1
        BY <1>3, <1>13, <2>3, <3>1
    <3>3. traversal'.stack[1] = graph.entry
        BY <1>1, <1>3, <1>4, <3>1 DEF StackInv
    <3>4. \A k \in DOMAIN traversal'.stack : traversal'.stack[k] \in traversal'.reachable
        BY <1>3, <1>4, <2>2, <3>1 DEF StackInv
    <3>5. \A k \in 1..Len(s) : Leads(traversal'.stack[k], traversal'.stack[k + 1])
      <4> SUFFICES ASSUME NEW k \in 1..Len(s)
                   PROVE  Leads(traversal'.stack[k], traversal'.stack[k + 1])
          OBVIOUS
      <4>1. CASE k = Len(s)
          BY <1>3, <1>5, <3>1, <4>1
      <4>2. CASE k < Len(s)
        <5>1. k \in 1..(Len(s) - 1) /\ k \in DOMAIN s /\ k + 1 \in DOMAIN s
            BY <1>3, <3>1, <4>2
        <5> QED
            BY <1>4, <3>1, <5>1 DEF StackInv
      <4> QED
          BY <1>3, <4>1, <4>2
    <3>6. \A j, k \in DOMAIN traversal'.stack : j # k => traversal'.stack[j] # traversal'.stack[k]
      <4>1. \A k \in DOMAIN s : s[k] # target
          BY <1>4, <1>13 DEF StackInv
      <4>2. \A j, k \in DOMAIN s : j # k => s[j] # s[k]
          BY <1>4 DEF StackInv
      <4>3. Len(s) \in Nat /\ \A k \in DOMAIN traversal'.stack : k \in DOMAIN s \/ k = Len(s) + 1
          BY <2>3, <3>1
      <4> SUFFICES ASSUME NEW j \in DOMAIN traversal'.stack, NEW k \in DOMAIN traversal'.stack, j # k
                   PROVE  traversal'.stack[j] # traversal'.stack[k]
          OBVIOUS
      <4>4. CASE j \in DOMAIN s /\ k \in DOMAIN s
          BY <3>1, <4>2, <4>4
      <4>5. CASE j = Len(s) + 1 /\ k \in DOMAIN s
          BY <3>1, <4>1, <4>5
      <4>6. CASE j \in DOMAIN s /\ k = Len(s) + 1
          BY <3>1, <4>1, <4>6
      <4> QED
          BY <4>3, <4>4, <4>5, <4>6
    <3>7. Len(traversal'.stack) - 1 = Len(s)
        BY <1>3, <3>1
    <3> QED
        BY <1>1, <3>2, <3>3, <3>4, <3>5, <3>6, <3>7 DEF StackInv, Leads
  <2>5. SeenInv'
    <3>1. traversal'.reachable \subseteq Reach
        BY <1>4, <1>5, <2>2 DEF SeenInv
    <3>2. traversal'.failed => Faulty
        BY <1>4, <1>5, <2>2 DEF SeenInv, Faulty
    <3>3. \A n \in Nodes \ traversal'.reachable : traversal'.followed[n] = 0
        BY <1>7, <2>2
    <3>4. ToSet(traversal'.stack) = ToSet(s) \cup {target}
      <4> DEFINE one == <<target>>
      <4>1. traversal'.stack = s \o one /\ one \in Seq(Nodes) /\ ToSet(one) = {target}
          BY <1>5, <2>2, <2>3 DEF ToSet
      <4> HIDE DEF one
      <4>2. ToSet(s \o one) = ToSet(s) \cup ToSet(one)
          BY <2>3, <4>1, ConcatSet
      <4> QED
          BY <4>1, <4>2
    <3>5. ASSUME ~ traversal'.failed, NEW n \in traversal'.reachable,
                 NEW k \in DOMAIN Onto(n), Onto(n)[k] \in Nodes,
                 n \in ToSet(traversal'.stack) => k <= traversal'.followed[n]
          PROVE  Onto(n)[k] \in traversal'.reachable
      <4>1. CASE n = target
        <5>1. k <= 0
            BY <1>5, <1>7, <1>13, <2>2, <3>4, <3>5, <4>1
        <5>2. Onto(n) \in Seq(Targets)
            BY <1>4, <1>5, <4>1, GraphType, EdgesOf DEF Onto
        <5> QED
            BY <3>5, <5>1, <5>2
      <4>2. CASE n \in traversal.reachable
        <5>1. n \in ToSet(s) => k <= now.followed[n]
            BY <2>2, <3>4, <3>5
        <5>2. traversal'.reachable \in SUBSET Nodes
            BY <2>2 DEF TraversalType
        <5> QED
            BY <1>10, <2>2, <3>5, <4>2, <5>1, <5>2
      <4> QED
          BY <2>2, <3>5, <4>1, <4>2
    <3>6. ~ traversal'.failed =>
             /\ WellFormed(graph) /\ graph.entry \in traversal'.reachable
             /\ \A n \in traversal'.reachable : ~ Defective(graph.node[n])
        BY <1>3, <1>4, <2>2 DEF SeenInv
    <3> QED
        BY <1>1, <1>9, <3>1, <3>2, <3>3, <3>5, <3>6 DEF SeenInv
  <2> QED
      BY <1>1, <1>3, <2>2, <2>4, <2>5, TraversalMoves
<1> QED
    BY <1>11, <1>12, <1>13

\* A visit returns when each edge of its node was followed.
LEMMA ReturnStep ==
    ASSUME GraphInv, Return
    PROVE  GraphInv'
<1> DEFINE s == traversal.stack
<1>1. /\ traversal.stack # <<>> /\ UNCHANGED <<graph, verdict, simulation, scenario, session>>
      /\ \A i \in DOMAIN Onward : i > traversal.followed[Top] => Onward[i] \notin Nodes
      /\ traversal' = [traversal EXCEPT !.stack = Front(@)]
    BY DEF Return
<1>2. /\ Len(s) \in Nat \ {0} /\ Top = s[Len(s)]
      /\ Top \in Nodes /\ Top \in traversal.reachable
      /\ Onward = Onto(Top) /\ Onward \in Seq(Targets)
      /\ traversal.by # "nobody"
    BY <1>1, TopIs
<1>3. traversal \in TraversalType /\ StackInv /\ SeenInv
    BY DEF GraphInv, GraphTypeOK, TraversalType
<1>4. s \in Seq(Nodes)
    BY <1>3 DEF TraversalType
<1>5. /\ Front(s) \in Seq(Nodes) /\ Len(Front(s)) = Len(s) - 1
      /\ DOMAIN Front(s) = 1..(Len(s) - 1) /\ DOMAIN s = 1..Len(s)
      /\ \A k \in 1..(Len(s) - 1) : Front(s)[k] = s[k]
    BY <1>2, <1>4 DEF Front
<1>6. /\ traversal' \in TraversalType /\ traversal'.by = traversal.by
      /\ traversal'.stack = Front(s) /\ traversal'.followed = traversal.followed
      /\ traversal'.reachable = traversal.reachable /\ traversal'.failed = traversal.failed
    BY <1>1, <1>3, <1>5 DEF TraversalType
<1>7. StackInv'
  <2>1. Len(Front(s)) <= MaxDepth + 1
      BY <1>2, <1>3, <1>5, GraphAssumption DEF StackInv
  <2>2. Front(s) # <<>> => Front(s)[1] = graph.entry
      BY <1>1, <1>2, <1>3, <1>5 DEF StackInv
  <2>3. \A k \in DOMAIN Front(s) : Front(s)[k] \in traversal.reachable
      BY <1>2, <1>3, <1>5 DEF StackInv
  <2>4. \A k \in 1..(Len(Front(s)) - 1) : Leads(Front(s)[k], Front(s)[k + 1])
    <3> SUFFICES ASSUME NEW k \in 1..(Len(Front(s)) - 1)
                 PROVE  Leads(Front(s)[k], Front(s)[k + 1])
        OBVIOUS
    <3>1. k \in 1..(Len(s) - 1) /\ k + 1 \in 1..(Len(s) - 1)
        BY <1>2, <1>5
    <3> QED
        BY <1>3, <1>5, <3>1 DEF StackInv
  <2>5. \A j, k \in DOMAIN Front(s) : j # k => Front(s)[j] # Front(s)[k]
    <3>1. \A j, k \in DOMAIN s : j # k => s[j] # s[k]
        BY <1>3 DEF StackInv
    <3>2. \A k \in DOMAIN Front(s) : k \in DOMAIN s /\ Front(s)[k] = s[k]
        BY <1>2, <1>5
    <3> QED
        BY <3>1, <3>2
  <2> HIDE DEF s
  <2> QED
      BY <1>1, <1>6, <2>1, <2>2, <2>3, <2>4, <2>5 DEF StackInv, Leads
<1>8. \A n \in ToSet(s) : n = Top \/ n \in ToSet(Front(s))
  <2> SUFFICES ASSUME NEW k \in DOMAIN s PROVE s[k] = Top \/ s[k] \in ToSet(Front(s))
      BY DEF ToSet
  <2>1. CASE k = Len(s)
      BY <1>2, <2>1
  <2>2. CASE k \in 1..(Len(s) - 1)
      BY <1>5, <2>2 DEF ToSet
  <2> QED
      BY <1>2, <1>5, <2>1, <2>2
<1>9. Reach' = Reach /\ Faulty' = Faulty /\ \A n : Onto(n)' = Onto(n)
    BY <1>1, SameGraph DEF Onto
<1>10. ASSUME ~ traversal.failed, NEW n \in traversal.reachable,
              NEW k \in DOMAIN Onto(n), Onto(n)[k] \in Nodes,
              n \in ToSet(Front(s)) => k <= traversal.followed[n]
       PROVE  Onto(n)[k] \in traversal.reachable
  <2>1. CASE n = Top
    <3>1. traversal.followed[Top] \in Nat /\ k \in Nat
        BY <1>2, <1>3, <1>10, <2>1 DEF TraversalType
    <3>2. k <= traversal.followed[Top]
        BY <1>1, <1>2, <1>10, <2>1, <3>1
    <3> QED
        BY <1>2, <1>3, <1>10, <2>1, <3>2 DEF SeenInv
  <2>2. CASE n # Top
      BY <1>2, <1>3, <1>8, <1>10, <2>2 DEF SeenInv
  <2> QED
      BY <2>1, <2>2
<1>11. SeenInv'
    BY <1>1, <1>2, <1>3, <1>6, <1>9, <1>10 DEF SeenInv
<1> QED
    BY <1>1, <1>2, <1>6, <1>7, <1>11, TraversalMoves

\* When the visit of the entry has returned, the validator knows what a reader
\* of the rules would find.
LEMMA TraversalDecides ==
    ASSUME GraphInv, traversal.by # "nobody", traversal.stack = <<>>
    PROVE  /\ ~ traversal.failed => Sound
           /\ traversal.failed => Faulty
<1>1. graph \in Graphs /\ SeenInv /\ traversal.reachable \in SUBSET Nodes
    BY DEF GraphInv, GraphTypeOK
<1>2. ASSUME ~ traversal.failed
      PROVE  Sound
  <2>1. \A n \in traversal.reachable : \A k \in DOMAIN Onto(n) :
            Onto(n)[k] \in Nodes => Onto(n)[k] \in traversal.reachable
      BY <1>1, <1>2 DEF SeenInv, ToSet
  <2>2. Closed(traversal.reachable)
      BY <2>1 DEF Closed, Leads, ToSet, Onto
  <2>3. Reach \subseteq traversal.reachable
      BY <1>1, <1>2, <2>2, ReachGrows DEF SeenInv
  <2> QED
      BY <1>1, <1>2, <2>3 DEF SeenInv, Sound
<1> QED
    BY <1>1, <1>2 DEF SeenInv

\* A traversal that ends leaves nothing behind.
LEMMA TraversalEndsStep ==
    ASSUME GraphInv, traversal' = NoTraversal, graph' = graph
    PROVE  traversal' \in TraversalType /\ StackInv' /\ SeenInv'
<1>1. traversal' \in TraversalType
    BY DEF NoTraversal, TraversalType
<1>2. StackInv'
    BY GraphAssumption DEF StackInv, NoTraversal
<1>3. SeenInv'
    BY DEF SeenInv, NoTraversal
<1> QED
    BY <1>1, <1>2, <1>3

LEMMA ValidateStep ==
    ASSUME GraphInv, Validate
    PROVE  GraphInv'
<1>1. /\ traversal.by = "validate" /\ traversal.stack = <<>> /\ traversal' = NoTraversal
      /\ UNCHANGED <<graph, simulation, scenario, session>>
      /\ verdict' = IF ~ traversal.failed /\ ReferencesAreActive(graph) THEN "passed" ELSE "failed"
    BY DEF Validate, TraversalEnds
<1>2. traversal' \in TraversalType /\ StackInv' /\ SeenInv'
    BY <1>1, TraversalEndsStep
<1>3. GraphTypeOK'
    BY <1>1, <1>2 DEF GraphInv, GraphTypeOK, TraversalType
<1>4. PhaseInv'
    BY <1>1 DEF GraphInv, PhaseInv, NoTraversal
<1>5. (~ traversal.failed => Sound) /\ (traversal.failed => Faulty)
    BY <1>1, TraversalDecides
<1>6. VerdictInv'
    BY <1>1, <1>5, SameGraph DEF VerdictInv
<1>7. TrailInv'
    BY <1>1, TrailKept DEF GraphInv
<1>8. CallInv' /\ InStepInv'
    BY <1>1, NoCallYet DEF GraphInv, PhaseInv
<1> QED
    BY <1>1, <1>2, <1>3, <1>4, <1>6, <1>7, <1>8 DEF GraphInv

-----------------------------------------------------------------------------
(* The simulation.                                                         *)

SimulationType ==
    [status : {"none", "walking", "passed", "failed"}, at : Targets,
     digits : Digits \cup {NoDigits}, path : Seq(Step)]

LEMMA SimulationTyped ==
    ASSUME GraphInv
    PROVE  /\ simulation \in SimulationType /\ Here(simulation) \in Step
           /\ Trail \in Seq(Step)
           /\ simulation.status = "walking" =>
                /\ Len(Trail) = Len(simulation.path) + 1
                /\ \A i \in 1..Len(simulation.path) : Trail[i] = simulation.path[i]
                /\ Trail[Len(Trail)] = Here(simulation)
<1>1. simulation \in SimulationType
    BY DEF GraphInv, GraphTypeOK, SimulationType
<1>2. simulation.path \in Seq(Step) /\ Here(simulation) \in Step
    BY <1>1 DEF SimulationType, Here, Step
<1>3. Trail = IF simulation.status = "walking" THEN Append(simulation.path, Here(simulation))
              ELSE simulation.path
    BY DEF Trail
<1> HIDE DEF Trail
<1> QED
    BY <1>1, <1>2, <1>3

\* The simulation moves, and no call has begun.
LEMMA SimulationMoves ==
    ASSUME GraphInv, session.status = "none", UNCHANGED <<graph, verdict, session>>,
           traversal' = NoTraversal, simulation' \in SimulationType,
           Len(simulation'.path) <= WalkLimit,
           scenario' \in Scenario(graph) \cup {NoScenario},
           TrailInv'
    PROVE  GraphInv'
<1>1. StackInv' /\ SeenInv' /\ traversal' \in TraversalType
    BY TraversalEndsStep
<1>2. GraphTypeOK'
    BY <1>1 DEF GraphInv, GraphTypeOK, TraversalType, SimulationType
<1>3. PhaseInv'
    BY DEF PhaseInv, NoTraversal
<1>4. VerdictInv' /\ CallInv' /\ InStepInv'
    BY VerdictKept, NoCallYet DEF GraphInv
<1> QED
    BY <1>1, <1>2, <1>3, <1>4 DEF GraphInv

LEMMA FailStep ==
    ASSUME GraphInv, session.status = "none", UNCHANGED <<graph, verdict, session>>,
           traversal' = NoTraversal, SimulationFails
    PROVE  GraphInv'
<1>4. NoSimulation \in SimulationType /\ NoSimulation.path = <<>>
    BY DEF NoSimulation, SimulationType, Targets
<1>5. simulation' = [NoSimulation EXCEPT !.status = "failed"]
    BY DEF SimulationFails
<1>1. simulation' \in SimulationType /\ simulation'.status = "failed" /\ simulation'.path = <<>>
    BY <1>4, <1>5 DEF SimulationType
<1>2. Len(simulation'.path) <= WalkLimit
    BY <1>1, GraphAssumption
<1>3. TrailInv'
    BY <1>1 DEF TrailInv
<1> QED
    BY <1>1, <1>2, <1>3, SimulationMoves DEF SimulationFails

LEMMA SimulateStep ==
    ASSUME GraphInv, NEW sc \in Scenario(graph), Simulate(sc)
    PROVE  GraphInv'
<1>1. /\ traversal.by = "simulate" /\ traversal.stack = <<>> /\ traversal' = NoTraversal
      /\ UNCHANGED <<graph, verdict, session>>
      /\ IF traversal.failed THEN SimulationFails
         ELSE /\ scenario' = sc
              /\ simulation' = [status |-> "walking", at |-> graph.entry, digits |-> sc.digits,
                                path |-> <<>>]
    BY DEF Simulate, TraversalEnds
<1>2. session.status = "none"
    BY <1>1 DEF GraphInv, PhaseInv
<1>3. CASE traversal.failed
    BY <1>1, <1>2, <1>3, FailStep
<1>4. CASE ~ traversal.failed
  <2>1. Sound
      BY <1>1, <1>4, TraversalDecides
  <2>2. graph.entry \in Targets /\ sc.digits \in Digits \cup {NoDigits}
      BY GraphType DEF GraphInv, Scenario
  <2>7. /\ simulation'.status = "walking" /\ simulation'.path = <<>>
        /\ simulation'.at = graph.entry /\ simulation'.digits = sc.digits
      BY <1>1, <1>4
  <2>8. simulation' \in SimulationType
    <3> DEFINE none == <<>>
    <3>1. none \in Seq(Step)
        OBVIOUS
    <3>2. simulation' = [status |-> "walking", at |-> graph.entry, digits |-> sc.digits, path |-> none]
        BY <1>1, <1>4
    <3> HIDE DEF none
    <3> QED
        BY <2>2, <3>1, <3>2 DEF SimulationType
  <2>3. simulation' \in SimulationType /\ Len(simulation'.path) <= WalkLimit
      BY <2>7, <2>8, GraphAssumption
  <2>4. Trail' = <<[node |-> graph.entry, digits |-> sc.digits]>>
    <3> DEFINE r == [node |-> graph.entry, digits |-> sc.digits]
    <3>1. Here(simulation)' = r
        BY <2>7 DEF Here
    <3>2. Trail' = Append(<<>>, Here(simulation)')
        BY <2>7 DEF Trail
    <3> HIDE DEF r
    <3>3. Append(<<>>, r) = <<r>>
        OBVIOUS
    <3> QED
        BY <3>1, <3>2, <3>3 DEF r
  <2>5. Len(Trail') = 1 /\ Trail'[1] = [node |-> graph.entry, digits |-> sc.digits] /\ 1 \in 1..WalkLimit
      BY <2>4, GraphAssumption
  <2>6. TrailInv'
      BY <1>1, <1>4, <2>1, <2>5, SameGraph DEF TrailInv
  <2> QED
      BY <1>1, <1>2, <1>4, <2>3, <2>6, SimulationMoves
<1> QED
    BY <1>3, <1>4

\* The simulator ends, goes wrong, or takes one step more on its trail.
LEMMA SimulateNodeStep ==
    ASSUME GraphInv, SimulateNode
    PROVE  GraphInv'
<1> DEFINE id     == simulation.at
           n      == graph.node[id]
           input  == IF n.type = "play_collect" THEN Input(scenario, id) ELSE "none"
           digits == DigitsAfter(simulation.digits, input)
           target == Planned(n, digits, input, scenario.holds)
           done   == [simulation EXCEPT !.path = Append(@, Here(simulation))]
<1>1. /\ simulation.status = "walking"
      /\ UNCHANGED <<graph, traversal, verdict, session>>
      /\ \/ /\ id \in Nodes /\ n.type \in Ends
            /\ simulation' = [done EXCEPT !.status = "passed"] /\ UNCHANGED scenario
         \/ SimulationFails
         \/ /\ id \in Nodes /\ n.type \notin Ends /\ target # NoNode /\ Len(done.path) # WalkLimit
            /\ simulation' = [done EXCEPT !.at = target, !.digits = digits] /\ UNCHANGED scenario
    BY DEF SimulateNode
<1>2. session.status = "none" /\ traversal' = NoTraversal
    BY <1>1 DEF GraphInv, PhaseInv
<1>3. /\ simulation \in SimulationType /\ Here(simulation) \in Step /\ Trail \in Seq(Step)
      /\ Len(Trail) = Len(simulation.path) + 1
      /\ \A i \in 1..Len(simulation.path) : Trail[i] = simulation.path[i]
      /\ Trail[Len(Trail)] = Here(simulation)
      /\ Trail = Append(simulation.path, Here(simulation))
    BY <1>1, SimulationTyped DEF Trail
<1>4. /\ Sound /\ scenario \in Scenario(graph) /\ Len(Trail) \in 1..WalkLimit
      /\ Trail[1] = [node |-> graph.entry, digits |-> scenario.digits]
      /\ \A i \in 1..(Len(Trail) - 1) :
              /\ Trail[i].node \in Nodes
              /\ graph.node[Trail[i].node].type \notin Ends
              /\ Trail[i + 1] = StepOn(Trail[i])
              /\ Trail[i + 1].node # NoNode
    BY <1>1 DEF GraphInv, TrailInv
<1>5. /\ done \in SimulationType /\ done.path = Trail
      /\ done.at = id /\ done.digits = simulation.digits /\ done.status = "walking"
    BY <1>1, <1>3 DEF SimulationType
<1>6. Sound' = Sound /\ Scenario(graph)' = Scenario(graph)
    BY <1>1, SameGraph
<1>7. CASE SimulationFails
    BY <1>1, <1>2, <1>7, FailStep
<1> HIDE DEF done
<1>8. CASE /\ id \in Nodes /\ n.type \in Ends
           /\ simulation' = [done EXCEPT !.status = "passed"] /\ UNCHANGED scenario
  <2>1. simulation' \in SimulationType /\ simulation'.path = Trail /\ simulation'.status = "passed"
      BY <1>5, <1>8 DEF SimulationType
  <2>2. Trail' = Trail
      BY <2>1 DEF Trail
  <2>3. Trail[Len(Trail)].node = id
      BY <1>3 DEF Here
  <2>4. \A s : StepOn(s)' = StepOn(s)
      BY <1>1, <1>8 DEF StepOn
  <2>5. TrailInv'
      BY <1>1, <1>4, <1>6, <1>8, <2>1, <2>2, <2>3, <2>4 DEF TrailInv
  <2>6. Len(simulation'.path) <= WalkLimit
      BY <1>4, <2>1
  <2> QED
      BY <1>1, <1>2, <1>4, <1>8, <2>1, <2>5, <2>6, SimulationMoves
<1>9. CASE /\ id \in Nodes /\ n.type \notin Ends /\ target # NoNode /\ Len(done.path) # WalkLimit
           /\ simulation' = [done EXCEPT !.at = target, !.digits = digits] /\ UNCHANGED scenario
  <2>1. n \in Node /\ n.type \in Supported \ Ends
    <3>1. n \in Node /\ WellFormed(graph)
        BY <1>4, <1>9, GraphType DEF GraphInv, Sound
    <3> QED
        BY <1>9, <3>1 DEF WellFormed
  <2>2. input \in Inputs
      BY <1>4, <1>9, InputType DEF GraphInv, Inputs
  <2>3. digits \in Digits \cup {NoDigits}
      BY <1>3, DigitsType DEF SimulationType
  <2>4. scenario.holds \in BOOLEAN
      BY <1>4 DEF Scenario
  <2>5. target \in Targets
    <3>1. target \in ToSet(Edges(n))
        BY <2>1, <2>2, <2>3, <2>4, PlannedEdge
    <3>2. Edges(n) \in Seq(Targets)
        BY <2>1, EdgesOf
    <3> QED
        BY <3>1, <3>2 DEF ToSet
  <2>6. StepOn(Here(simulation)) = [node |-> target, digits |-> digits]
      BY DEF StepOn, Here
  <2> HIDE DEF target, digits, input, n
  <2>7. /\ simulation' \in SimulationType /\ simulation'.status = "walking"
        /\ simulation'.path = Trail /\ simulation'.at = target /\ simulation'.digits = digits
      BY <1>5, <1>9, <2>3, <2>5 DEF SimulationType
  <2>8. Trail' = Append(Trail, [node |-> target, digits |-> digits])
      BY <2>7 DEF Trail, Here
  <2>9. [node |-> target, digits |-> digits] \in Step
      BY <2>3, <2>5 DEF Step
  <2>10. /\ Len(Trail') = Len(Trail) + 1
         /\ \A i \in 1..Len(Trail) : Trail'[i] = Trail[i]
         /\ Trail'[Len(Trail) + 1] = [node |-> target, digits |-> digits]
      BY <1>3, <2>8, <2>9
  <2>11. Len(Trail) < WalkLimit /\ Len(Trail') \in 1..WalkLimit
      BY <1>4, <1>5, <1>9, <2>10, GraphAssumption
  <2>12. \A s : StepOn(s)' = StepOn(s)
      BY <1>1, <1>9 DEF StepOn
  <2>13. ASSUME NEW i \in 1..(Len(Trail') - 1)
         PROVE  /\ Trail'[i].node \in Nodes
                /\ graph.node[Trail'[i].node].type \notin Ends
                /\ Trail'[i + 1] = StepOn(Trail'[i])
                /\ Trail'[i + 1].node # NoNode
    <3>1. CASE i = Len(Trail)
      <4>1. Trail'[i] = Here(simulation) /\ Trail'[i + 1] = [node |-> target, digits |-> digits]
          BY <1>3, <1>4, <2>10, <3>1
      <4>2. Here(simulation).node = id
          BY DEF Here
      <4> QED
          BY <1>9, <2>6, <4>1, <4>2 DEF n
    <3>2. CASE i \in 1..(Len(Trail) - 1)
      <4>1. i \in 1..Len(Trail) /\ i + 1 \in 1..Len(Trail)
          BY <1>4, <3>2
      <4>2. Trail'[i] = Trail[i] /\ Trail'[i + 1] = Trail[i + 1]
          BY <2>10, <4>1
      <4> QED
          BY <1>4, <3>2, <4>2
    <3> QED
        BY <1>4, <2>10, <3>1, <3>2
  <2>14. Trail'[1] = [node |-> graph.entry, digits |-> scenario.digits]
      BY <1>4, <2>10
  <2>15. TrailInv'
      BY <1>1, <1>4, <1>6, <1>9, <2>7, <2>11, <2>12, <2>13, <2>14 DEF TrailInv
  <2>16. Len(simulation'.path) <= WalkLimit
      BY <1>4, <2>7
  <2> QED
      BY <1>1, <1>2, <1>4, <1>9, <2>7, <2>15, <2>16, SimulationMoves
<1> QED
    BY <1>1, <1>7, <1>8, <1>9

-----------------------------------------------------------------------------
(* The call.                                                               *)

SessionType ==
    [status : {"none", "resolving", "running", "completed", "error"}, at : Targets,
     digits : Digits \cup {NoDigits}, path : Seq(Step), rounds : 0..WalkLimit,
     actions : 0..(MaxActions + 1),
     why : {"none", "missing", "unsupported", "reference", "limit"}]

\* During a call nothing else runs.
LEMMA CallAlone ==
    ASSUME GraphInv, session.status # "none"
    PROVE  /\ traversal.by = "nobody" /\ simulation.status # "walking"
           /\ session \in SessionType /\ Here(session) \in Step
           /\ Sound /\ scenario \in Scenario(graph)
           /\ \A n \in Reach : n \in Nodes /\ graph.node[n] \in Node
                               /\ graph.node[n].type \in Supported
<1>1. traversal.by = "nobody" /\ simulation.status # "walking"
    BY DEF GraphInv, PhaseInv, GraphTypeOK
<1>2. session \in SessionType
    BY DEF GraphInv, GraphTypeOK, SessionType
<1>3. Sound /\ scenario \in Scenario(graph)
    BY DEF GraphInv, CallInv
<1>4. \A n \in Reach : n \in Nodes /\ graph.node[n] \in Node /\ graph.node[n].type \in Supported
    BY <1>3, GraphType DEF GraphInv, Reach, Sound, WellFormed
<1> QED
    BY <1>1, <1>2, <1>3, <1>4 DEF SessionType, Here, Step

\* The call moves.
LEMMA CallMoves ==
    ASSUME GraphInv, traversal.by = "nobody", simulation.status # "walking",
           UNCHANGED <<graph, traversal, verdict, simulation>>,
           scenario' \in Scenario(graph),
           simulation.status = "passed" => scenario' = scenario,
           session' \in SessionType,
           session'.status = "running" => session'.at \in Nodes,
           CallInv', InStepInv'
    PROVE  GraphInv'
<1>1. StackInv' /\ SeenInv' /\ VerdictInv'
    BY TraversalKept, VerdictKept DEF GraphInv
<1>2. TrailInv'
  <2>1. CASE simulation.status = "passed"
      BY <2>1, TrailKept DEF GraphInv
  <2>2. CASE simulation.status # "passed"
      BY <2>2 DEF TrailInv
  <2> QED
      BY <2>1, <2>2
<1>3. GraphTypeOK'
    BY DEF GraphInv, GraphTypeOK, SessionType
<1>4. PhaseInv'
    BY DEF GraphInv, PhaseInv
<1> QED
    BY <1>1, <1>2, <1>3, <1>4 DEF GraphInv

\* The steps of a simulation that passed.
LEMMA PassedTrail ==
    ASSUME GraphInv, simulation.status = "passed"
    PROVE  /\ simulation.path \in Seq(Step) /\ Len(simulation.path) \in 1..WalkLimit
           /\ simulation.path[1] = [node |-> graph.entry, digits |-> scenario.digits]
           /\ \A i \in 1..Len(simulation.path) :
                 /\ simulation.path[i].node \in Nodes
                 /\ i = Len(simulation.path) <=> graph.node[simulation.path[i].node].type \in Ends
           /\ \A i \in 1..(Len(simulation.path) - 1) :
                 /\ simulation.path[i + 1] = StepOn(simulation.path[i])
                 /\ simulation.path[i + 1].node # NoNode
<1>1. Trail = simulation.path /\ simulation.path \in Seq(Step)
    BY SimulationTyped DEF Trail
<1>2. /\ Len(Trail) \in 1..WalkLimit
      /\ Trail[1] = [node |-> graph.entry, digits |-> scenario.digits]
      /\ \A i \in 1..(Len(Trail) - 1) :
              /\ Trail[i].node \in Nodes
              /\ graph.node[Trail[i].node].type \notin Ends
              /\ Trail[i + 1] = StepOn(Trail[i])
              /\ Trail[i + 1].node # NoNode
      /\ Trail[Len(Trail)].node \in Nodes
      /\ graph.node[Trail[Len(Trail)].node].type \in Ends
    BY DEF GraphInv, TrailInv
<1> HIDE DEF Trail
<1>3. \A i \in 1..Len(Trail) : i = Len(Trail) \/ i \in 1..(Len(Trail) - 1)
    BY <1>2, GraphAssumption
<1>4. Len(Trail) \notin 1..(Len(Trail) - 1)
    BY <1>2, GraphAssumption
<1> QED
    BY <1>1, <1>2, <1>3, <1>4

LEMMA StartStep ==
    ASSUME GraphInv, NEW sc \in Scenario(graph), StartSession(sc)
    PROVE  GraphInv'
<1>1. /\ traversal.by = "nobody" /\ simulation.status # "walking"
      /\ verdict = "passed" \/ simulation.status = "passed"
      /\ simulation.status = "passed" => sc = scenario
      /\ scenario' = sc
      /\ session' = [NoSession EXCEPT !.status = "resolving", !.at = graph.entry]
      /\ UNCHANGED <<graph, traversal, verdict, simulation>>
    BY DEF StartSession, AtRest
<1>2. Sound
    BY <1>1 DEF GraphInv, VerdictInv, TrailInv
<1>3. graph.entry \in Reach /\ graph.entry \in Nodes
    BY <1>2, ReachGrows DEF Sound, WellFormed
<1>4. NoSession \in SessionType
  <2>1. <<>> \in Seq(Step) /\ 0 \in 0..WalkLimit /\ 0 \in 0..(MaxActions + 1)
      BY GraphAssumption
  <2> HIDE DEF Step
  <2> QED
      BY <2>1 DEF NoSession, SessionType, Targets
<1>5. /\ session' \in SessionType
      /\ session'.status = "resolving" /\ session'.at = graph.entry
      /\ session'.digits = NoDigits /\ session'.path = <<>>
      /\ session'.rounds = 0 /\ session'.actions = 0
  <2>1. graph.entry \in Targets
      BY <1>3 DEF Targets
  <2>2. /\ NoSession.digits = NoDigits /\ NoSession.path = <<>>
        /\ NoSession.rounds = 0 /\ NoSession.actions = 0
      BY DEF NoSession
  <2> QED
      BY <1>1, <1>4, <2>1, <2>2 DEF SessionType
<1>6. CallInv'
    BY <1>1, <1>2, <1>3, <1>5, SameGraph, GraphAssumption DEF CallInv
<1>7. InStepInv'
  <2> SUFFICES ASSUME simulation.status = "passed", sc.digits = NoDigits
               PROVE  /\ 0 < Len(simulation.path)
                      /\ simulation.path[0 + 1] = [node |-> graph.entry, digits |-> NoDigits]
    <3>1. Here(session)' = [node |-> graph.entry, digits |-> NoDigits]
        BY <1>5 DEF Here
    <3>2. Len(session'.path) = 0 /\ DOMAIN session'.path = {}
        BY <1>5
    <3>3. simulation.path \in Seq(Step)
        BY SimulationTyped DEF SimulationType
    <3>4. Len(simulation.path) \in Nat
        BY <3>3
    <3> QED
        BY <1>1, <1>5, <3>1, <3>2, <3>4 DEF InStepInv
  <2>1. Len(simulation.path) \in 1..WalkLimit
        /\ simulation.path[1] = [node |-> graph.entry, digits |-> scenario.digits]
      BY PassedTrail
  <2> QED
      BY <1>1, <2>1, GraphAssumption
<1> QED
    BY <1>1, <1>5, <1>6, <1>7, CallMoves

LEMMA AnswerIs ==
    ASSUME NEW walk \in SessionType, walk.actions <= MaxActions,
           NEW status \in {"none", "resolving", "running", "completed", "error"},
           NEW why \in {"none", "missing", "unsupported", "reference", "limit"},
           Answer(walk, status, why)
    PROVE  /\ session' \in SessionType
           /\ session'.status = status /\ session'.why = why
           /\ session'.at = walk.at /\ session'.digits = walk.digits
           /\ session'.path = walk.path /\ session'.rounds = walk.rounds
<1> DEFINE actions == walk.actions + 1
<1>1. session' = [walk EXCEPT !.status = status, !.actions = actions, !.why = why]
    BY DEF Answer
<1>2. actions \in 0..(MaxActions + 1)
    BY GraphAssumption DEF SessionType
<1> HIDE DEF actions
<1> QED
    BY <1>1, <1>2 DEF SessionType

\* The loop ends without an action.
LEMMA LeaveStep ==
    ASSUME GraphInv, LeaveLoop
    PROVE  GraphInv'
<1>1. /\ session.status = "resolving" /\ UNCHANGED <<graph, traversal, verdict, simulation, scenario>>
      /\ \/ /\ session.rounds = WalkLimit
            /\ Answer([session EXCEPT !.at = NoNode], "error", "limit")
         \/ session.at = NoNode /\ Answer(session, "completed", "none")
    BY DEF LeaveLoop
<1>2. /\ traversal.by = "nobody" /\ simulation.status # "walking"
      /\ session \in SessionType /\ Sound /\ scenario \in Scenario(graph)
    BY <1>1, CallAlone
<1>3. session.actions <= MaxActions
    BY <1>1 DEF GraphInv, CallInv
<1>4. Sound' = Sound /\ Reach' = Reach /\ Scenario(graph)' = Scenario(graph)
    BY <1>1, SameGraph
<1>5. ASSUME simulation.status = "passed", scenario.digits = NoDigits
      PROVE  session.at # NoNode /\ session.rounds # WalkLimit
  <2>1. /\ Len(session.path) < Len(simulation.path)
        /\ simulation.path[Len(session.path) + 1] = Here(session)
        /\ session.rounds <= Len(session.path)
      BY <1>1, <1>5 DEF GraphInv, InStepInv
  <2>2. Len(session.path) \in Nat /\ session.rounds \in Nat
      BY <1>2, GraphAssumption DEF SessionType
  <2>3. Len(simulation.path) \in 1..WalkLimit
        /\ \A i \in 1..Len(simulation.path) : simulation.path[i].node \in Nodes
      BY <1>5, PassedTrail
  <2>4. Len(session.path) + 1 \in 1..Len(simulation.path)
      BY <2>1, <2>2, <2>3, GraphAssumption
  <2>5. session.at \in Nodes
      BY <2>1, <2>3, <2>4 DEF Here
  <2> QED
      BY <2>1, <2>2, <2>3, <2>5, GraphAssumption
<1>6. CASE session.rounds = WalkLimit /\ Answer([session EXCEPT !.at = NoNode], "error", "limit")
  <2>1. [session EXCEPT !.at = NoNode] \in SessionType
        /\ [session EXCEPT !.at = NoNode].actions = session.actions
      BY <1>2 DEF SessionType, Targets
  <2>2. session' \in SessionType /\ session'.status = "error" /\ session'.why = "limit"
      BY <1>3, <1>6, <2>1, AnswerIs
  <2>3. CallInv'
      BY <1>1, <1>2, <1>4, <2>2 DEF CallInv
  <2>4. InStepInv'
      BY <1>1, <1>5, <1>6 DEF InStepInv
  <2> QED
      BY <1>1, <1>2, <2>2, <2>3, <2>4, CallMoves
<1>7. CASE session.at = NoNode /\ Answer(session, "completed", "none")
  <2>1. session' \in SessionType /\ session'.status = "completed"
      BY <1>2, <1>3, <1>7, AnswerIs
  <2>2. CallInv'
      BY <1>1, <1>2, <1>4, <2>1 DEF CallInv
  <2>3. InStepInv'
      BY <1>1, <1>5, <1>7 DEF InStepInv
  <2> QED
      BY <1>1, <1>2, <2>1, <2>2, <2>3, CallMoves
<1> QED
    BY <1>1, <1>6, <1>7

\* A step that is on the trail of the simulation, and the one after it.
LEMMA OnTrail ==
    ASSUME GraphInv, simulation.status = "passed",
           NEW k \in Nat, k < Len(simulation.path)
    PROVE  /\ k + 1 \in 1..Len(simulation.path)
           /\ graph.node[simulation.path[k + 1].node].type \in Ends <=> k + 1 = Len(simulation.path)
           /\ k + 1 # Len(simulation.path) =>
                /\ k + 1 < Len(simulation.path)
                /\ simulation.path[k + 2] = StepOn(simulation.path[k + 1])
                /\ simulation.path[k + 2].node # NoNode
<1>1. /\ Len(simulation.path) \in 1..WalkLimit
      /\ \A i \in 1..Len(simulation.path) :
             i = Len(simulation.path) <=> graph.node[simulation.path[i].node].type \in Ends
      /\ \A i \in 1..(Len(simulation.path) - 1) :
            /\ simulation.path[i + 1] = StepOn(simulation.path[i])
            /\ simulation.path[i + 1].node # NoNode
    BY PassedTrail
<1>2. Len(simulation.path) \in Nat /\ k + 1 \in 1..Len(simulation.path) /\ (k + 1) + 1 = k + 2
    BY <1>1, GraphAssumption
<1>3. k + 1 # Len(simulation.path) => k + 1 \in 1..(Len(simulation.path) - 1)
    BY <1>2
<1> QED
    BY <1>1, <1>2, <1>3

\* One round: an action, an error, or the next node.
LEMMA ResolveStep ==
    ASSUME GraphInv, ResolveNode
    PROVE  GraphInv'
<1> DEFINE id   == session.at
           n    == graph.node[id]
           walk == [session EXCEPT !.path = Append(@, Here(session)), !.rounds = @ + 1]
           next == Planned(n, session.digits, "none", scenario.holds)
<1>1. /\ session.status = "resolving" /\ session.rounds < WalkLimit /\ id # NoNode
      /\ UNCHANGED <<graph, traversal, verdict, simulation, scenario>>
    BY DEF ResolveNode
<1>2. /\ traversal.by = "nobody" /\ simulation.status # "walking"
      /\ session \in SessionType /\ Here(session) \in Step
      /\ Sound /\ scenario \in Scenario(graph)
      /\ \A m \in Reach : m \in Nodes /\ graph.node[m] \in Node /\ graph.node[m].type \in Supported
    BY <1>1, CallAlone
<1>3. id \in Reach /\ session.actions <= MaxActions
    BY <1>1 DEF GraphInv, CallInv
<1>4. id \in Nodes /\ n \in Node /\ n.type \in Supported /\ id # Missing
    BY <1>2, <1>3, GraphAssumption
<1>5. \/ /\ n.type \in Prompts \cup Ends \cup {"business_hours"} /\ n.ref # "active"
         /\ Answer(walk, "error", "reference")
      \/ n.type \in Prompts \cup Ends /\ Answer(walk, "running", "none")
      \/ n.type \notin Prompts \cup Ends /\ session' = [walk EXCEPT !.at = next]
    BY <1>4 DEF ResolveNode
<1>6. /\ walk \in SessionType /\ walk.actions = session.actions
      /\ walk.at = id /\ walk.digits = session.digits
      /\ walk.path = Append(session.path, Here(session)) /\ walk.rounds = session.rounds + 1
      /\ walk.status = "resolving"
  <2> DEFINE path == Append(session.path, Here(session))
             rounds == session.rounds + 1
  <2>1. path \in Seq(Step) /\ rounds \in 0..WalkLimit
      BY <1>1, <1>2, GraphAssumption DEF SessionType
  <2>2. walk = [session EXCEPT !.path = path, !.rounds = rounds]
      OBVIOUS
  <2> HIDE DEF path, rounds, walk
  <2>3. /\ walk \in SessionType /\ walk.actions = session.actions
        /\ walk.at = id /\ walk.digits = session.digits
        /\ walk.path = path /\ walk.rounds = rounds /\ walk.status = "resolving"
      BY <1>1, <1>2, <2>1, <2>2 DEF SessionType
  <2> QED
      BY <2>3 DEF path, rounds
<1> HIDE DEF walk
<1>7. /\ session.path \in Seq(Step)
      /\ Len(session.path) \in Nat
      /\ Len(walk.path) = Len(session.path) + 1
      /\ \A i \in 1..Len(session.path) : walk.path[i] = session.path[i]
      /\ walk.path[Len(session.path) + 1] = Here(session)
      /\ DOMAIN walk.path = 1..(Len(session.path) + 1)
      /\ DOMAIN session.path = 1..Len(session.path)
    BY <1>2, <1>6 DEF SessionType
<1>8. Sound' = Sound /\ Reach' = Reach /\ Scenario(graph)' = Scenario(graph)
    BY <1>1, SameGraph
\* Where the call is on the trail.
<1>9. ASSUME simulation.status = "passed", scenario.digits = NoDigits
      PROVE  /\ Len(session.path) < Len(simulation.path)
             /\ Len(walk.path) <= Len(simulation.path)
             /\ \A i \in DOMAIN walk.path : walk.path[i] = simulation.path[i]
             /\ simulation.path[Len(session.path) + 1] = Here(session)
             /\ walk.rounds <= Len(walk.path)
  <2>1. /\ Len(session.path) < Len(simulation.path)
        /\ simulation.path[Len(session.path) + 1] = Here(session)
        /\ session.rounds <= Len(session.path)
        /\ \A i \in DOMAIN session.path : session.path[i] = simulation.path[i]
      BY <1>1, <1>9 DEF GraphInv, InStepInv
  <2>2. Len(simulation.path) \in Nat /\ session.rounds \in Nat
      BY <1>2, <1>9, PassedTrail, GraphAssumption DEF SessionType
  <2>3. \A i \in DOMAIN walk.path : i \in 1..Len(session.path) \/ i = Len(session.path) + 1
      BY <1>7
  <2> QED
      BY <1>6, <1>7, <2>1, <2>2, <2>3
<1>10. CASE /\ n.type \in Prompts \cup Ends \cup {"business_hours"} /\ n.ref # "active"
            /\ Answer(walk, "error", "reference")
  <2>1. /\ session' \in SessionType /\ session'.status = "error" /\ session'.why = "reference"
        /\ session'.at = id /\ session'.path = walk.path
      BY <1>3, <1>6, <1>10, AnswerIs
  <2>2. CallInv'
      BY <1>1, <1>2, <1>4, <1>8, <1>10, <2>1 DEF CallInv
  <2>3. InStepInv'
      BY <1>1, <1>9, <2>1 DEF InStepInv
  <2> QED
      BY <1>1, <1>2, <2>1, <2>2, <2>3, CallMoves
<1>11. CASE n.type \in Prompts \cup Ends /\ Answer(walk, "running", "none")
  <2>1. /\ session' \in SessionType /\ session'.status = "running"
        /\ session'.at = id /\ session'.digits = session.digits /\ session'.path = walk.path
      BY <1>3, <1>6, <1>11, AnswerIs
  <2>2. CallInv'
      BY <1>1, <1>2, <1>3, <1>8, <1>11, <2>1 DEF CallInv
  <2>3. Here(session)' = Here(session) /\ walk.path # <<>>
      BY <1>7, <2>1 DEF Here
  <2>4. InStepInv'
      BY <1>1, <1>7, <1>9, <2>1, <2>3 DEF InStepInv
  <2> QED
      BY <1>1, <1>2, <1>4, <2>1, <2>2, <2>4, CallMoves
<1>12. CASE n.type \notin Prompts \cup Ends /\ session' = [walk EXCEPT !.at = next]
  <2>1. session.digits \in Digits \cup {NoDigits} /\ scenario.holds \in BOOLEAN /\ "none" \in Inputs
      BY <1>2 DEF SessionType, Scenario, Inputs
  <2>2. next \in ToSet(Edges(n))
      BY <1>4, <1>12, <2>1, PlannedEdge
  <2>3. next \in Reach \cup {NoNode}
      BY <1>2, <1>3, <2>2, SoundEdge DEF GraphInv
  <2>4. next \in Targets
      BY <1>2, <2>3 DEF Targets
  <2> HIDE DEF next
  <2>5. /\ session' \in SessionType /\ session'.status = "resolving" /\ session'.at = next
        /\ session'.digits = session.digits /\ session'.path = walk.path
        /\ session'.rounds = walk.rounds /\ session'.actions = session.actions
      BY <1>6, <1>12, <2>4 DEF SessionType
  <2>6. CallInv'
      BY <1>1, <1>2, <1>3, <1>8, <2>3, <2>5 DEF CallInv
  <2>7. ASSUME simulation.status = "passed", scenario.digits = NoDigits
        PROVE  /\ Len(walk.path) < Len(simulation.path)
               /\ simulation.path[Len(walk.path) + 1] = Here(session)'
    <3>1. /\ Len(session.path) < Len(simulation.path)
          /\ simulation.path[Len(session.path) + 1] = Here(session)
        BY <1>9, <2>7
    <3>2. Here(session).node = id
        BY DEF Here
    <3>3. /\ Len(session.path) + 1 < Len(simulation.path)
          /\ simulation.path[Len(session.path) + 2] = StepOn(Here(session))
        BY <1>7, <1>12, <2>7, <3>1, <3>2, OnTrail
    <3>4. StepOn(Here(session)) = [node |-> next, digits |-> session.digits]
      <4>1. n.type # "play_collect"
          BY <1>12 DEF Prompts
      <4>2. DigitsAfter(session.digits, "none") = session.digits
          BY GraphAssumption DEF DigitsAfter
      <4> QED
          BY <4>1, <4>2 DEF StepOn, Here, next
    <3>5. Here(session)' = [node |-> next, digits |-> session.digits]
        BY <2>5 DEF Here
    <3>6. Len(walk.path) + 1 = Len(session.path) + 2
        BY <1>7
    <3> QED
        BY <1>7, <3>3, <3>4, <3>5, <3>6
  <2>8. InStepInv'
      BY <1>1, <1>9, <2>5, <2>7 DEF InStepInv
  <2> QED
      BY <1>1, <1>2, <2>5, <2>6, <2>8, CallMoves
<1> QED
    BY <1>5, <1>10, <1>11, <1>12

\* The caller's action is over: the flow is, or the walk goes on where it leads.
LEMMA AdvanceStep ==
    ASSUME GraphInv, AdvanceSession
    PROVE  GraphInv'
<1> DEFINE id     == session.at
           n      == graph.node[id]
           input  == IF n.type = "play_collect" THEN Input(scenario, id) ELSE "none"
           next   == Completed(n, input)
           digits == DigitsAfter(session.digits, input)
<1>1. /\ session.status = "running" /\ session.actions <= MaxActions
      /\ UNCHANGED <<graph, traversal, verdict, simulation, scenario>>
      /\ \/ n.type \in Ends /\ Answer([session EXCEPT !.at = NoNode], "completed", "none")
         \/ /\ n.type \notin Ends
            /\ session' = [session EXCEPT !.status = "resolving", !.rounds = 0,
                             !.at = next, !.digits = digits]
    BY DEF AdvanceSession
<1>2. /\ traversal.by = "nobody" /\ simulation.status # "walking"
      /\ session \in SessionType /\ Here(session) \in Step
      /\ Sound /\ scenario \in Scenario(graph)
      /\ \A m \in Reach : m \in Nodes /\ graph.node[m] \in Node /\ graph.node[m].type \in Supported
    BY <1>1, CallAlone
<1>3. id \in Reach /\ id \in Nodes /\ n \in Node /\ n.type \in Prompts \cup Ends
    BY <1>1, <1>2 DEF GraphInv, CallInv
<1>4. Sound' = Sound /\ Reach' = Reach /\ Scenario(graph)' = Scenario(graph)
    BY <1>1, SameGraph
<1>5. session.path \in Seq(Step) /\ Len(session.path) \in Nat
    BY <1>2 DEF SessionType
\* Where the call is on the trail.
<1>6. ASSUME simulation.status = "passed", scenario.digits = NoDigits
      PROVE  /\ Len(session.path) \in 1..Len(simulation.path)
             /\ \A i \in DOMAIN session.path : session.path[i] = simulation.path[i]
             /\ simulation.path[Len(session.path)] = Here(session)
             /\ n.type \in Ends <=> Len(session.path) = Len(simulation.path)
             /\ Len(session.path) # Len(simulation.path) =>
                  /\ Len(session.path) < Len(simulation.path)
                  /\ simulation.path[Len(session.path) + 1] = StepOn(Here(session))
                  /\ simulation.path[Len(session.path) + 1].node # NoNode
  <2>1. /\ Len(session.path) <= Len(simulation.path)
        /\ \A i \in DOMAIN session.path : session.path[i] = simulation.path[i]
        /\ session.path # <<>> /\ session.path[Len(session.path)] = Here(session)
      BY <1>1, <1>6 DEF GraphInv, InStepInv
  <2>2. Len(simulation.path) \in Nat
      BY <1>6, PassedTrail, GraphAssumption
  <2>3. Len(session.path) \in DOMAIN session.path /\ Len(session.path) \in 1..Len(simulation.path)
      BY <1>5, <2>1, <2>2
  <2>4. simulation.path[Len(session.path)] = Here(session) /\ Here(session).node = id
      BY <2>1, <2>3 DEF Here
  <2>5. Len(session.path) - 1 \in Nat /\ Len(session.path) - 1 < Len(simulation.path)
        /\ (Len(session.path) - 1) + 1 = Len(session.path)
        /\ (Len(session.path) - 1) + 2 = Len(session.path) + 1
      BY <1>5, <2>2, <2>3
  <2> QED
      BY <1>6, <2>1, <2>3, <2>4, <2>5, OnTrail
<1>7. CASE n.type \in Ends /\ Answer([session EXCEPT !.at = NoNode], "completed", "none")
  <2>1. /\ [session EXCEPT !.at = NoNode] \in SessionType
        /\ [session EXCEPT !.at = NoNode].actions = session.actions
        /\ [session EXCEPT !.at = NoNode].path = session.path
      BY <1>2 DEF SessionType, Targets
  <2>2. session' \in SessionType /\ session'.status = "completed" /\ session'.path = session.path
      BY <1>1, <1>7, <2>1, AnswerIs
  <2>3. CallInv'
      BY <1>1, <1>2, <1>4, <2>2 DEF CallInv
  <2>4. InStepInv'
      BY <1>1, <1>5, <1>6, <1>7, <2>2 DEF InStepInv
  <2> QED
      BY <1>1, <1>2, <2>2, <2>3, <2>4, CallMoves
<1>8. CASE /\ n.type \notin Ends
           /\ session' = [session EXCEPT !.status = "resolving", !.rounds = 0,
                            !.at = next, !.digits = digits]
  <2>1. n.type \in Prompts
      BY <1>3, <1>8
  <2>2. input \in Inputs /\ (n.type = "play_collect" => input # "none")
      BY <1>2, <1>3, InputType DEF GraphInv, Inputs
  <2>3. next \in ToSet(Edges(n))
      BY <1>3, <2>1, <2>2, CompletedEdge
  <2>4. next \in Reach \cup {NoNode} /\ next \in Targets
    <3>1. next \in Reach \cup {NoNode}
        BY <1>2, <1>3, <2>3, SoundEdge DEF GraphInv
    <3> QED
        BY <1>2, <3>1 DEF Targets
  <2>5. digits \in Digits \cup {NoDigits}
      BY <1>2, DigitsType DEF SessionType
  <2>6. StepOn(Here(session)) = [node |-> Planned(n, digits, input, scenario.holds), digits |-> digits]
      BY DEF StepOn, Here
  <2>7. Planned(n, digits, input, scenario.holds) # NoNode =>
            next = Planned(n, digits, input, scenario.holds)
      BY <1>3, <2>1, <2>2, CompletedAsPlanned
  <2> HIDE DEF next, digits
  <2>8. /\ session' \in SessionType /\ session'.status = "resolving" /\ session'.at = next
        /\ session'.digits = digits /\ session'.path = session.path
        /\ session'.rounds = 0 /\ session'.actions = session.actions
    <3>1. /\ session'.status = "resolving" /\ session'.at = next
          /\ session'.digits = digits /\ session'.path = session.path
          /\ session'.rounds = 0 /\ session'.actions = session.actions
        BY <1>2, <1>8 DEF SessionType
    <3>2. 0 \in 0..WalkLimit
        BY GraphAssumption
    <3>3. session' \in SessionType
        BY <1>2, <1>8, <2>4, <2>5, <3>2 DEF SessionType
    <3> QED
        BY <3>1, <3>3
  <2>9. CallInv'
      BY <1>1, <1>2, <1>4, <2>4, <2>8 DEF CallInv
  <2>10. Here(session)' = [node |-> next, digits |-> digits]
      BY <2>8 DEF Here
  <2>11. ASSUME simulation.status = "passed", scenario.digits = NoDigits
         PROVE  /\ Len(session.path) < Len(simulation.path)
                /\ simulation.path[Len(session.path) + 1] = Here(session)'
      BY <1>6, <1>8, <2>6, <2>7, <2>10, <2>11
  <2>12. InStepInv'
      BY <1>1, <1>5, <1>6, <2>8, <2>11 DEF InStepInv
  <2> QED
      BY <1>1, <1>2, <2>8, <2>9, <2>12, CallMoves
<1> QED
    BY <1>1, <1>7, <1>8

-----------------------------------------------------------------------------
(* The theorems.                                                           *)

LEMMA NextGraph == GraphInv /\ [GraphNext]_graphVars => GraphInv'
<1> SUFFICES ASSUME GraphInv, [GraphNext]_graphVars PROVE GraphInv'
    OBVIOUS
<1>1. CASE UNCHANGED graphVars
  <2>1. StackInv' /\ SeenInv' /\ VerdictInv' /\ TrailInv'
      BY <1>1, TraversalKept, VerdictKept, TrailKept DEF GraphInv, graphVars
  <2>2. CallInv' /\ InStepInv'
      BY <1>1, CallKept, InStepKept DEF GraphInv, graphVars
  <2>3. GraphTypeOK' /\ PhaseInv'
      BY <1>1 DEF GraphInv, GraphTypeOK, PhaseInv, graphVars
  <2> QED
      BY <1>1, <2>1, <2>2, <2>3 DEF GraphInv, graphVars
<1>2. CASE BeginTraversal("validate") \/ BeginTraversal("simulate")
    BY <1>2, BeginStep
<1>3. CASE Follow \/ Return
    BY <1>3, FollowStep, ReturnStep
<1>4. CASE Validate
    BY <1>4, ValidateStep
<1>5. CASE \E sc \in Scenario(graph) : Simulate(sc) \/ StartSession(sc)
    BY <1>5, SimulateStep, StartStep
<1>6. CASE SimulateNode
    BY <1>6, SimulateNodeStep
<1>7. CASE LeaveLoop \/ ResolveNode
    BY <1>7, LeaveStep, ResolveStep
<1>8. CASE AdvanceSession
    BY <1>8, AdvanceStep
<1> QED
    BY <1>1, <1>2, <1>3, <1>4, <1>5, <1>6, <1>7, <1>8 DEF GraphNext

\* The traversal with its stack, the simulation with its trail and the call
\* beside it, for every graph, depth limit and number of rounds.
THEOREM GraphInvariant == GraphSpec => []GraphInv
<1>1. GraphInit => GraphInv
    BY InitGraph
<1>2. GraphInv /\ [GraphNext]_graphVars => GraphInv'
    BY NextGraph
<1> QED
    BY <1>1, <1>2, PTL DEF GraphSpec

\* Traversal, simulation and session keep their types; no walk is longer than
\* its limit, and a call that waits for the caller waits at a node.
THEOREM GraphTypeCorrect == GraphSpec => []GraphTypeOK
<1>1. GraphInv => GraphTypeOK
    BY DEF GraphInv
<1> QED
    BY <1>1, GraphInvariant, PTL

\* validateIvrGraph decides what its rules say, whatever order it visits in.
THEOREM VerdictRight == GraphSpec => []VerdictMatchesRules
<1>1. GraphInv => VerdictMatchesRules
    BY DEF GraphInv, VerdictInv, Sound, Faulty, VerdictMatchesRules
<1> QED
    BY <1>1, GraphInvariant, PTL

\* A caller of a graph that passed a check never strays.
THEOREM NeverStrays == GraphSpec => []PublishedNeverStrays
<1>1. GraphInv => PublishedNeverStrays
  <2> SUFFICES ASSUME GraphInv, session.status = "error"
               PROVE  /\ session.why \in {"reference", "limit"}
                      /\ session.why = "reference" /\ verdict = "passed" =>
                            graph.node[session.at].ref = "none"
      BY DEF PublishedNeverStrays
  <2>1. /\ session.why \in {"reference", "limit"}
        /\ session.why = "reference" =>
              /\ session.at \in Nodes /\ graph.node[session.at].ref # "active"
              /\ graph.node[session.at].type \in Prompts \cup Ends \cup {"business_hours"}
      BY DEF GraphInv, CallInv
  <2>2. session.at \in Nodes => graph.node[session.at] \in Node
      BY GraphType DEF GraphInv
  <2>3. verdict = "passed" => ReferencesAreActive(graph)
      BY DEF GraphInv, VerdictInv
  <2> QED
      BY <2>1, <2>2, <2>3 DEF ReferencesAreActive, Node
<1> QED
    BY <1>1, GraphInvariant, PTL

\* In every behaviour a call goes along the edges that the validator followed.
THEOREM EdgesFollowed == GraphSpec => CallFollowsEdges
<1> DEFINE Moves == session.status \in {"resolving", "running"} /\ session.at \in Nodes
                    /\ session'.at # session.at
           Right == Leads(session.at, session'.at) \/ session'.status \in {"completed", "error"}
<1>1. ASSUME GraphInv, Moves, ResolveNode PROVE Right
  <2> DEFINE n    == graph.node[session.at]
             next == Planned(n, session.digits, "none", scenario.holds)
             walk == [session EXCEPT !.path = Append(@, Here(session)), !.rounds = @ + 1]
  <2>1. /\ session \in SessionType /\ scenario \in Scenario(graph)
        /\ \A m \in Reach : graph.node[m] \in Node /\ graph.node[m].type \in Supported
      BY <1>1, CallAlone DEF ResolveNode
  <2>2. session.at \in Reach /\ session.at # Missing
      BY <1>1, GraphAssumption DEF ResolveNode, GraphInv, CallInv
  <2>3. n \in Node /\ n.type \in Supported
      BY <2>1, <2>2
  <2>4. walk \in [DOMAIN session -> {walk[x] : x \in DOMAIN session}] /\ walk.at = session.at
      BY <2>1 DEF SessionType
  <2> HIDE DEF walk
  <2>5. \/ \E status, why : Answer(walk, status, why)
        \/ n.type \notin Ends /\ session' = [walk EXCEPT !.at = next]
      BY <1>1, <2>2 DEF ResolveNode, walk
  <2>6. CASE \E status, why : Answer(walk, status, why)
      BY <1>1, <2>1, <2>4, <2>6 DEF Answer, SessionType
  <2>7. CASE n.type \notin Ends /\ session' = [walk EXCEPT !.at = next]
    <3>1. session'.at = next
        BY <2>1, <2>4, <2>7 DEF SessionType
    <3>2. session.digits \in Digits \cup {NoDigits} /\ scenario.holds \in BOOLEAN
        BY <2>1 DEF SessionType, Scenario
    <3>3. next \in ToSet(Edges(n))
        BY <2>3, <2>7, <3>2, PlannedEdge DEF Inputs
    <3> QED
        BY <3>1, <3>3 DEF Leads
  <2> QED
      BY <2>5, <2>6, <2>7
<1>2. ASSUME GraphInv, Moves, AdvanceSession PROVE Right
  <2> DEFINE n     == graph.node[session.at]
             input == IF n.type = "play_collect" THEN Input(scenario, session.at) ELSE "none"
  <2>1. /\ session \in SessionType /\ scenario \in Scenario(graph) /\ graph \in Graphs
        /\ \A m \in Reach : graph.node[m] \in Node
      BY <1>2, CallAlone DEF AdvanceSession, GraphInv
  <2>2. session.at \in Reach /\ n.type \in Prompts \cup Ends /\ n \in Node
      BY <1>2, <2>1 DEF AdvanceSession, GraphInv, CallInv
  <2>3. \/ n.type \in Ends /\ Answer([session EXCEPT !.at = NoNode], "completed", "none")
        \/ n.type \notin Ends /\ session'.at = Completed(n, input)
      BY <1>2, <2>1 DEF AdvanceSession, SessionType
  <2>4. CASE Answer([session EXCEPT !.at = NoNode], "completed", "none")
      BY <2>1, <2>4 DEF Answer, SessionType
  <2>5. CASE n.type \notin Ends /\ session'.at = Completed(n, input)
    <3>1. input \in Inputs /\ (n.type = "play_collect" => input # "none")
        BY <1>2, <2>1, InputType DEF Inputs
    <3>2. Completed(n, input) \in ToSet(Edges(n))
        BY <2>2, <2>5, <3>1, CompletedEdge
    <3> QED
        BY <2>5, <3>2 DEF Leads
  <2> QED
      BY <2>3, <2>4, <2>5
<1>3. ASSUME GraphInv, Moves, LeaveLoop PROVE Right
  <2>1. session \in SessionType
      BY <1>3, CallAlone DEF LeaveLoop
  <2>2. \E walk \in {session, [session EXCEPT !.at = NoNode]} :
           Answer(walk, "completed", "none") \/ Answer(walk, "error", "limit")
      BY <1>3 DEF LeaveLoop
  <2> QED
      BY <2>1, <2>2 DEF Answer, SessionType
<1>4. ASSUME GraphInv, Moves, GraphNext PROVE Right
  <2>1. session' # session
      BY <1>4
  <2>2. \A sc : ~ StartSession(sc)
      BY <1>4 DEF StartSession, AtRest
  <2>3. LeaveLoop \/ ResolveNode \/ AdvanceSession
      BY <1>4, <2>1, <2>2 DEF GraphNext, BeginTraversal, Follow, Return, Validate, Simulate, SimulateNode
  <2> QED
      BY <1>1, <1>2, <1>3, <1>4, <2>3
<1>5. GraphInv /\ [GraphNext]_graphVars => [Moves => Right]_graphVars
    BY <1>4
<1> QED
    BY <1>5, GraphInvariant, PTL DEF GraphSpec, CallFollowsEdges

LEMMA ThroughIs ==
    ASSUME NEW way \in Seq(Step)
    PROVE  /\ Through(way) \in Seq(Targets) /\ Len(Through(way)) = Len(way)
           /\ \A i \in 1..Len(way) : Through(way)[i] = way[i].node
<1>1. Len(way) \in Nat /\ DOMAIN way = 1..Len(way)
    OBVIOUS
<1>2. \A i \in 1..Len(way) : way[i].node \in Targets
  <2>1. \A i \in 1..Len(way) : way[i] \in Step
      BY <1>1
  <2>2. \A r \in Step : r.node \in Targets
      BY DEF Step
  <2> QED
      BY <2>1, <2>2
<1>3. Through(way) = [i \in 1..Len(way) |-> way[i].node]
    BY <1>1 DEF Through
<1>4. Through(way) \in [1..Len(way) -> Targets]
    BY <1>2, <1>3
<1>5. Through(way) \in Seq(Targets) /\ Len(Through(way)) = Len(way)
    BY <1>1, <1>4
<1> QED
    BY <1>3, <1>5

\* What the simulation of a scenario shows is the call of a caller who acts so.
THEOREM SimulationTrue == GraphSpec => []SimulationForetells
<1>1. GraphInv => SimulationForetells
  <2> SUFFICES ASSUME GraphInv, simulation.status = "passed", session.status # "none",
                      scenario.digits = NoDigits
               PROVE  Foretold
      BY DEF SimulationForetells
  <2> DEFINE s == Through(session.path)
             t == Through(simulation.path)
  <2>1. /\ Len(session.path) <= Len(simulation.path)
        /\ \A i \in DOMAIN session.path : session.path[i] = simulation.path[i]
        /\ session.status = "completed" => Len(session.path) = Len(simulation.path)
        /\ session.status = "error" => session.why = "reference"
      BY DEF GraphInv, InStepInv
  <2>2. session.path \in Seq(Step) /\ simulation.path \in Seq(Step)
      BY CallAlone, PassedTrail DEF SessionType
  <2>3. /\ s \in Seq(Targets) /\ Len(s) = Len(session.path)
        /\ \A i \in 1..Len(session.path) : s[i] = session.path[i].node
      BY <2>2, ThroughIs
  <2>4. /\ t \in Seq(Targets) /\ Len(t) = Len(simulation.path)
        /\ \A i \in 1..Len(simulation.path) : t[i] = simulation.path[i].node
      BY <2>2, ThroughIs
  <2> HIDE DEF s, t
  <2>5. \A i \in 1..Len(s) : s[i] = t[i]
      BY <2>1, <2>2, <2>3, <2>4
  <2>6. IsPrefix(s, t)
      BY <2>1, <2>2, <2>3, <2>4, <2>5 DEF IsPrefix
  <2>7. Len(s) = Len(t) => s = t
      BY <2>3, <2>4, <2>5
  <2> QED
      BY <2>1, <2>3, <2>4, <2>6, <2>7 DEF Foretold, s, t
<1> QED
    BY <1>1, GraphInvariant, PTL

-----------------------------------------------------------------------------
(* Patch review: what a review made is what was reviewed, for every number *)
(* of patches, versions and concurrent requests.                           *)
(*                                                                         *)
(* The invariant.  A worker's result is refused once the patch has one, so *)
(* the diff a request read stays the diff of the patch for as long as the  *)
(* request lives; and a request marks a patch only after it has made its   *)
(* version.                                                                *)

Decidable == {"completed", "accepted", "rejected"}

\* A request that may still make or mark something is on a patch that was
\* completed with the diff it read.
Reviewing(p) ==
    /\ req[p].pc \in {"load_version", "mark_accepted", "mark_rejected"} => req[p].patch # NoPatch
    /\ req[p].patch # NoPatch /\ req[p].pc # "mark_rejected" =>
          /\ req[p].diff # NoDiff
          /\ patch[req[p].patch].diff = req[p].diff
          /\ patch[req[p].patch].status \in Decidable
    /\ req[p].pc \in {"insert_patch", "load_version", "insert_version"} => req[p].version \in Versions
    /\ req[p].pc = "mark_accepted" => \E m \in made : m.patch = req[p].patch

ReviewInv == \A p \in Requests : Reviewing(p)

\* A patch that exists is for a version.
TargetInv == \A x \in Patches : patch[x].status # "absent" => patch[x].version \in Versions

\* What was made is not beyond the newest version.
MadeOld == \A m \in made : m.version <= newest

PatchInv ==
    /\ TypeOK
    /\ ReviewInv
    /\ TargetInv
    /\ AcceptedIsMade
    /\ MadeAsReviewed
    /\ MadeOld
    /\ MadeApart

\* The empty table of patches.
LEMMA InitPatch == Init => PatchInv
<1> SUFFICES ASSUME Init PROVE PatchInv
    OBVIOUS
<1> USE DEF Init, Idle, Unwritten
<1>1. TypeOK
    BY PatchAssumption DEF TypeOK, PatchRow, VersionRow, RequestState, PC, Versions
<1>2. ReviewInv /\ TargetInv
    BY DEF ReviewInv, Reviewing, TargetInv
<1>3. AcceptedIsMade /\ MadeAsReviewed /\ MadeOld /\ MadeApart
    BY DEF AcceptedIsMade, MadeAsReviewed, MadeOld, MadeApart
<1> QED
    BY <1>1, <1>2, <1>3 DEF PatchInv

-----------------------------------------------------------------------------
(* Steps that touch requests only.                                         *)

\* The invariant speaks of tables, and of each request alone: when one request
\* moves on, only that one has to be looked at.
LEMMA OneRequest ==
    ASSUME PatchInv, NEW p \in Requests, NEW q \in RequestState, Continue(p, q),
           UNCHANGED <<patch, version, newest, made>>, Reviewing(p)'
    PROVE  PatchInv'
<1>1. TypeOK'
    BY DEF PatchInv, TypeOK, Continue
<1>2. ReviewInv'
    <2> SUFFICES ASSUME NEW r \in Requests, r # p PROVE Reviewing(r)'
        BY DEF ReviewInv
    <2>1. req'[r] = req[r] /\ Reviewing(r)
        BY DEF PatchInv, TypeOK, Continue, ReviewInv
    <2> QED
        BY <2>1 DEF Reviewing
<1>3. TargetInv' /\ AcceptedIsMade' /\ MadeAsReviewed' /\ MadeOld' /\ MadeApart'
    BY DEF PatchInv, TargetInv, AcceptedIsMade, MadeAsReviewed, MadeOld, MadeApart
<1> QED
    BY <1>1, <1>2, <1>3 DEF PatchInv

\* An idle request has nothing to hold.
LEMMA IdleReview ==
    ASSUME TypeOK, NEW p \in Requests, req'[p] = Idle
    PROVE  Reviewing(p)'
BY DEF Reviewing, Idle

LEMMA IdleType == Idle \in RequestState
BY DEF Idle, Unwritten, RequestState, PC, VersionRow

\* A request that ends lets go of everything.
LEMMA FinishStep ==
    ASSUME PatchInv, NEW p \in Requests, Finish(p), UNCHANGED <<patch, version, newest, made>>
    PROVE  PatchInv'
<1>1. Continue(p, Idle) /\ req'[p] = Idle
    BY DEF Finish, Continue, PatchInv, TypeOK
<1> QED
    BY <1>1, OneRequest, IdleReview, IdleType DEF PatchInv

LEMMA CreatePatchReadStep ==
    ASSUME PatchInv, NEW p \in Requests, CreatePatchRead(p) PROVE PatchInv'
<1> DEFINE q == [Idle EXCEPT !.pc = "insert_patch", !.version = newest]
<1>1. q \in RequestState
    BY IdleType DEF PatchInv, TypeOK, RequestState, PC
<1>2. req'[p] = q
    BY DEF CreatePatchRead, Continue, PatchInv, TypeOK
<1>3. Reviewing(p)'
    BY <1>2 DEF Reviewing, Idle, PatchInv, TypeOK
<1> QED
    BY <1>1, <1>3, OneRequest DEF CreatePatchRead

LEMMA AcceptReadStep ==
    ASSUME PatchInv, NEW p \in Requests, NEW x \in Patches, AcceptRead(p, x) PROVE PatchInv'
<1> DEFINE q == [Idle EXCEPT !.pc = "load_version", !.patch = x,
                             !.diff = patch[x].diff, !.version = patch[x].version]
<1>1. patch[x].version \in Versions /\ patch[x].diff \in Diffs
    BY DEF AcceptRead, PatchInv, TargetInv, TypeOK, PatchRow
<1>2. q \in RequestState
    BY <1>1, IdleType DEF RequestState, PC
<1>3. req'[p] = q
    BY DEF AcceptRead, Continue, PatchInv, TypeOK
<1>4. Reviewing(p)'
    BY <1>1, <1>3, PatchAssumption DEF Reviewing, Idle, AcceptRead, Decidable
<1> QED
    BY <1>2, <1>4, OneRequest DEF AcceptRead

LEMMA LoadVersionStep ==
    ASSUME PatchInv, NEW p \in Requests, LoadVersion(p) PROVE PatchInv'
<1> DEFINE row == [diffs |-> version[req[p].version].diffs \cup {req[p].diff}, ai |-> TRUE]
           q   == [req[p] EXCEPT !.pc = "number_version", !.row = row]
<1>0. req[p] \in RequestState /\ Reviewing(p) /\ req[p].pc = "load_version"
    BY DEF PatchInv, TypeOK, ReviewInv, LoadVersion, At
<1>1. row \in VersionRow
    <2>1. version[req[p].version].diffs \subseteq Diffs
        BY <1>0 DEF Reviewing, PatchInv, TypeOK, VersionRow
    <2>2. req[p].diff \in Diffs
        BY <1>0 DEF Reviewing, RequestState
    <2> QED
        BY <2>1, <2>2 DEF VersionRow
<1> HIDE DEF row
<1>2. q \in RequestState
    BY <1>0, <1>1 DEF RequestState, PC
<1>3. req'[p] = q
    BY DEF LoadVersion, Continue, PatchInv, TypeOK, row
<1>4. Reviewing(p)'
    BY <1>0, <1>3 DEF Reviewing, LoadVersion, RequestState
<1>5. Continue(p, q)
    BY DEF LoadVersion, row
<1> QED
    BY <1>2, <1>4, <1>5, OneRequest DEF LoadVersion

LEMMA NumberVersionStep ==
    ASSUME PatchInv, NEW p \in Requests, NumberVersion(p) PROVE PatchInv'
<1> DEFINE q == [req[p] EXCEPT !.pc = "insert_version", !.version = newest + 1]
<1>0. req[p] \in RequestState /\ Reviewing(p) /\ req[p].pc = "number_version"
    BY DEF PatchInv, TypeOK, ReviewInv, NumberVersion, At
<1>1. q \in RequestState
    BY <1>0 DEF NumberVersion, RequestState, PC
<1>2. req'[p] = q
    BY DEF NumberVersion, Continue, PatchInv, TypeOK
<1>3. Reviewing(p)'
    BY <1>0, <1>2 DEF Reviewing, NumberVersion, RequestState
<1> QED
    BY <1>1, <1>3, OneRequest DEF NumberVersion

LEMMA RejectReadStep ==
    ASSUME PatchInv, NEW p \in Requests, NEW x \in Patches, RejectRead(p, x) PROVE PatchInv'
<1> DEFINE q == [Idle EXCEPT !.pc = "mark_rejected", !.patch = x]
<1>1. q \in RequestState
    BY IdleType DEF RequestState, PC
<1>2. req'[p] = q
    BY DEF RejectRead, Continue, PatchInv, TypeOK
<1>3. Reviewing(p)'
    BY <1>2, PatchAssumption DEF Reviewing, Idle
<1> QED
    BY <1>1, <1>3, OneRequest DEF RejectRead

LEMMA CreateVersionReadStep ==
    ASSUME PatchInv, NEW p \in Requests, NEW copy \in BOOLEAN, NEW ai \in BOOLEAN,
           CreateVersionRead(p, copy, ai)
    PROVE  PatchInv'
<1> DEFINE row == [diffs |-> IF copy THEN version[newest].diffs ELSE {}, ai |-> ai]
           q   == [Idle EXCEPT !.pc = "number_version", !.row = row]
<1>1. row \in VersionRow
    BY DEF PatchInv, TypeOK, VersionRow
<1> HIDE DEF row
<1>2. q \in RequestState
    BY <1>1, IdleType DEF RequestState, PC
<1>3. req'[p] = q /\ Continue(p, q)
    BY DEF CreateVersionRead, Continue, PatchInv, TypeOK, row
<1>4. Reviewing(p)'
    BY <1>3 DEF Reviewing, Idle
<1> QED
    BY <1>2, <1>3, <1>4, OneRequest DEF CreateVersionRead

-----------------------------------------------------------------------------
(* Steps that write a table.                                               *)

\* A patch whose row is written keeps its diff and stays decidable if it was,
\* and becomes accepted only if a version of it exists.
LEMMA PatchWritten ==
    ASSUME PatchInv, NEW x \in Patches, NEW row \in PatchRow,
           patch' = [patch EXCEPT ![x] = row], UNCHANGED <<version, newest, made>>,
           row.status # "absent" => row.version \in Versions,
           patch[x].status \in Decidable => row.status \in Decidable /\ row.diff = patch[x].diff,
           row.status = "accepted" => \E m \in made : m.patch = x,
           req' \in [Requests -> RequestState],
           \A p \in Requests : req'[p] = req[p] \/ req'[p] = Idle
    PROVE  PatchInv'
<1>0. TypeOK /\ ReviewInv /\ TargetInv
    BY DEF PatchInv
<1>1. TypeOK'
    BY <1>0 DEF TypeOK
<1>k. \A y \in Patches : patch[y].status \in Decidable =>
          patch'[y].status \in Decidable /\ patch'[y].diff = patch[y].diff
    BY <1>0 DEF TypeOK
<1>2. ReviewInv'
    <2> SUFFICES ASSUME NEW p \in Requests PROVE Reviewing(p)'
        BY DEF ReviewInv
    <2>1. CASE req'[p] = Idle
        BY <1>0, <2>1, IdleReview
    <2>2. CASE req'[p] = req[p]
        <3>1. Reviewing(p) /\ req[p] \in RequestState
            BY <1>0 DEF ReviewInv, TypeOK
        <3> QED
            BY <1>k, <2>2, <3>1 DEF Reviewing, RequestState
    <2> QED
        BY <2>1, <2>2
<1>3. TargetInv'
    BY <1>0 DEF TargetInv, TypeOK
<1>4. AcceptedIsMade'
    BY <1>0 DEF AcceptedIsMade, PatchInv, TypeOK
<1>5. MadeAsReviewed'
    <2> SUFFICES ASSUME NEW m \in made
                 PROVE  patch'[m.patch].diff = m.diff /\ patch'[m.patch].status \in Decidable
        BY DEF MadeAsReviewed, Decidable
    <2>1. m.patch \in Patches
        BY <1>0 DEF TypeOK
    <2> QED
        BY <1>k, <2>1 DEF PatchInv, MadeAsReviewed, Decidable
<1>6. MadeOld' /\ MadeApart'
    BY DEF MadeOld, MadeApart, PatchInv
<1> QED
    BY <1>1, <1>2, <1>3, <1>4, <1>5, <1>6 DEF PatchInv

\* A request that ends leaves the others alone.
LEMMA Ended ==
    ASSUME TypeOK, NEW p \in Requests, Finish(p)
    PROVE  /\ req' \in [Requests -> RequestState]
           /\ \A r \in Requests : req'[r] = req[r] \/ req'[r] = Idle
BY IdleType DEF TypeOK, Finish, Continue

LEMMA InsertPatchStep ==
    ASSUME PatchInv, NEW p \in Requests, NEW x \in Patches, InsertPatch(p, x) PROVE PatchInv'
<1> DEFINE row == [patch[x] EXCEPT !.status = "queued", !.version = req[p].version]
<1>1. patch[x] \in PatchRow /\ req[p].version \in Versions /\ patch[x].status = "absent"
    BY DEF PatchInv, TypeOK, ReviewInv, Reviewing, InsertPatch, At
<1>2. row \in PatchRow /\ row.version \in Versions /\ row.status = "queued"
    BY <1>1 DEF PatchRow
<1>3. patch' = [patch EXCEPT ![x] = row]
    BY DEF InsertPatch
<1> HIDE DEF row
<1> QED
    BY <1>1, <1>2, <1>3, Ended, PatchWritten DEF InsertPatch, PatchInv, Decidable

LEMMA WorkerStep ==
    ASSUME PatchInv, NEW x \in Patches, Worker(x) PROVE PatchInv'
<1>0. patch[x] \in PatchRow /\ (patch[x].status # "absent" => patch[x].version \in Versions)
    BY DEF PatchInv, TypeOK, TargetInv
<1>1. PICK status \in {"processing", "completed", "failed"}, diff \in Diffs \cup {NoDiff} :
          /\ patch[x].status \in {"queued", "processing"}
          /\ patch' = [patch EXCEPT ![x].status = status, ![x].diff = diff]
          /\ UNCHANGED <<version, newest, req, made>>
    <2>1. CASE ClaimPatch(x)
        <3>1. patch' = [patch EXCEPT ![x].status = "processing", ![x].diff = patch[x].diff]
            BY <1>0, <2>1 DEF ClaimPatch, PatchInv, TypeOK, PatchRow
        <3> QED
            BY <1>0, <2>1, <3>1 DEF ClaimPatch, PatchRow
    <2> QED
        BY <2>1 DEF Worker, CompletePatch
<1> DEFINE row == [patch[x] EXCEPT !.status = status, !.diff = diff]
<1>2. row \in PatchRow /\ row.version \in Versions /\ row.status # "accepted"
    BY <1>0, <1>1 DEF PatchRow
<1>3. patch' = [patch EXCEPT ![x] = row]
    BY <1>1
<1> HIDE DEF row
<1>4. req' \in [Requests -> RequestState] /\ \A p \in Requests : req'[p] = req[p]
    BY <1>1 DEF PatchInv, TypeOK
<1> QED
    BY <1>1, <1>2, <1>3, <1>4, PatchWritten DEF Decidable

\* One of those who decide decides, and has made the version before.
LEMMA MarkStep ==
    ASSUME PatchInv, NEW p \in Requests, MarkAccepted(p) \/ MarkRejected(p) PROVE PatchInv'
<1> DEFINE x == req[p].patch
<1>0. x \in Patches /\ (MarkAccepted(p) => \E m \in made : m.patch = x)
    <2>1. Reviewing(p) /\ req[p] \in RequestState
        BY DEF PatchInv, ReviewInv, TypeOK
    <2> QED
        BY <2>1 DEF MarkAccepted, MarkRejected, At, Reviewing, RequestState
<1>1. patch[x] \in PatchRow /\ (patch[x].status # "absent" => patch[x].version \in Versions)
    BY <1>0 DEF PatchInv, TypeOK, TargetInv
<1>2. PICK status \in {"accepted", "rejected"} :
          /\ patch' = [patch EXCEPT ![x].status = IF @ = "completed" THEN status ELSE @]
          /\ status = "accepted" => MarkAccepted(p)
    BY DEF MarkAccepted, MarkRejected
<1> DEFINE row == [patch[x] EXCEPT !.status = IF @ = "completed" THEN status ELSE @]
<1>3. /\ row \in PatchRow
      /\ row.status # "absent" => row.version \in Versions
      /\ patch[x].status \in Decidable => row.status \in Decidable /\ row.diff = patch[x].diff
    BY <1>1 DEF PatchRow, Decidable
<1>4. row.status = "accepted" => \E m \in made : m.patch = x
    BY <1>0, <1>1, <1>2 DEF PatchInv, AcceptedIsMade, PatchRow
<1>5. patch' = [patch EXCEPT ![x] = row]
    BY <1>2
<1>6. Finish(p) /\ UNCHANGED <<version, newest, made>>
    BY DEF MarkAccepted, MarkRejected
<1>7. TypeOK
    BY DEF PatchInv
<1> HIDE DEF row, x
<1> QED
    BY <1>0, <1>3, <1>4, <1>5, <1>6, <1>7, Ended, PatchWritten

-----------------------------------------------------------------------------
(* Steps that write a version.                                             *)

\* A version is written beyond all others, so beyond all that were made.
LEMMA InsertVersionStep ==
    ASSUME PatchInv, NEW p \in Requests, InsertVersion(p) PROVE PatchInv'
<1> DEFINE n  == req[p].version
           m0 == [patch |-> req[p].patch, version |-> n, diff |-> req[p].diff]
<1>0. /\ TypeOK /\ TargetInv /\ AcceptedIsMade /\ MadeAsReviewed /\ MadeOld /\ MadeApart
      /\ Reviewing(p) /\ req[p] \in RequestState /\ req[p].pc = "insert_version"
    BY DEF PatchInv, ReviewInv, TypeOK, InsertVersion, At
<1>1. n \in Versions /\ n > newest /\ newest \in Int /\ newest' = n
    BY <1>0 DEF Reviewing, InsertVersion, NumberIsFree, TypeOK, Versions
<1>2. /\ version' \in [Versions -> VersionRow]
      /\ patch' = patch
    BY <1>0, <1>1 DEF InsertVersion, TypeOK, RequestState
<1>3. /\ req' \in [Requests -> RequestState]
      /\ \A r \in Requests \ {p} : req'[r] = req[r]
      /\ \/ req[p].patch = NoPatch /\ req'[p] = Idle /\ made' = made
         \/ /\ req[p].patch # NoPatch
            /\ req'[p] = [req[p] EXCEPT !.pc = "mark_accepted"]
            /\ made' = made \cup {m0}
    <2>1. CASE req[p].patch = NoPatch
        BY <1>0, <2>1, IdleType DEF InsertVersion, Finish, Continue, TypeOK
    <2>2. CASE req[p].patch # NoPatch
        <3>1. [req[p] EXCEPT !.pc = "mark_accepted"] \in RequestState
            BY <1>0 DEF RequestState, PC
        <3> QED
            BY <1>0, <2>2, <3>1 DEF InsertVersion, Continue, TypeOK
    <2> QED
        BY <2>1, <2>2
<1>4. req[p].patch # NoPatch =>
          /\ m0 \in [patch : Patches, version : Versions, diff : Diffs]
          /\ patch[req[p].patch].diff = req[p].diff
          /\ patch[req[p].patch].status \in Decidable
    BY <1>0, <1>1 DEF Reviewing, RequestState
<1>5. TypeOK'
    BY <1>0, <1>1, <1>2, <1>3, <1>4 DEF TypeOK
<1>6. ReviewInv'
    <2> SUFFICES ASSUME NEW r \in Requests PROVE Reviewing(r)'
        BY DEF ReviewInv
    <2>1. CASE r # p
        <3>1. Reviewing(r) /\ req'[r] = req[r] /\ made \subseteq made'
            BY <1>3, <2>1 DEF PatchInv, ReviewInv
        <3> QED
            BY <1>2, <3>1 DEF Reviewing
    <2>2. CASE r = p /\ req'[p] = Idle
        BY <1>0, <2>2, IdleReview
    <2>3. CASE r = p /\ req'[p] # Idle
        <3>1. m0.patch = req[p].patch /\ m0 \in made'
            BY <1>3, <2>3
        <3> HIDE DEF m0
        <3> QED
            BY <1>0, <1>2, <1>3, <1>4, <2>3, <3>1 DEF Reviewing, RequestState
    <2> QED
        BY <2>1, <2>2, <2>3
<1>7. TargetInv' /\ AcceptedIsMade'
    BY <1>0, <1>2, <1>3 DEF TargetInv, AcceptedIsMade
<1>8. MadeAsReviewed'
    BY <1>0, <1>2, <1>3, <1>4 DEF MadeAsReviewed, Decidable
<1>m. \A m \in made : m.version \in Int
    BY <1>0 DEF TypeOK, Versions
<1>9. MadeOld' /\ MadeApart'
    <2>1. CASE made' = made
        BY <1>0, <1>1, <1>m, <2>1 DEF MadeOld, MadeApart, Versions
    <2>2. CASE made' = made \cup {m0}
        <3>1. m0.version = n
            OBVIOUS
        <3>2. \A m \in made : m.version < n
            BY <1>0, <1>1, <1>m DEF MadeOld, Versions
        <3> HIDE DEF m0
        <3> QED
            BY <1>0, <1>1, <1>m, <2>2, <3>1, <3>2 DEF MadeOld, MadeApart, Versions
    <2> QED
        BY <1>3, <2>1, <2>2
<1> QED
    BY <1>5, <1>6, <1>7, <1>8, <1>9 DEF PatchInv

LEMMA EditVersionStep ==
    ASSUME PatchInv, NEW v \in Versions, NEW ai \in BOOLEAN, EditVersion(v, ai)
    PROVE  PatchInv'
<1>1. TypeOK'
    BY DEF EditVersion, PatchInv, TypeOK, VersionRow
<1>2. ReviewInv'
    BY DEF EditVersion, PatchInv, ReviewInv, Reviewing
<1>3. TargetInv' /\ AcceptedIsMade' /\ MadeAsReviewed' /\ MadeOld' /\ MadeApart'
    BY DEF EditVersion, PatchInv, TargetInv, AcceptedIsMade, MadeAsReviewed, MadeOld, MadeApart
<1> QED
    BY <1>1, <1>2, <1>3 DEF PatchInv

LEMMA ReviewStep ==
    ASSUME PatchInv, NEW p \in Requests, Review(p) \/ Edit(p) \/ Abort(p) PROVE PatchInv'
<1>1. CASE Review(p)
    BY <1>1, CreatePatchReadStep, InsertPatchStep, AcceptReadStep, RejectReadStep,
       LoadVersionStep, NumberVersionStep, InsertVersionStep, MarkStep DEF Review
<1>2. CASE Edit(p)
    BY <1>2, CreateVersionReadStep DEF Edit
<1>3. CASE Abort(p)
    BY <1>3, FinishStep DEF Abort
<1> QED
    BY <1>1, <1>2, <1>3

\* Every step keeps what is made as it was reviewed.
LEMMA NextPatch == PatchInv /\ [Next]_vars => PatchInv'
<1> SUFFICES ASSUME PatchInv, [Next]_vars PROVE PatchInv'
    OBVIOUS
<1>1. CASE Next
    BY <1>1, WorkerStep, ReviewStep, EditVersionStep DEF Next
<1>2. CASE UNCHANGED vars
    <2>1. TypeOK'
        BY <1>2 DEF vars, PatchInv, TypeOK
    <2>2. ReviewInv'
        BY <1>2 DEF vars, PatchInv, ReviewInv, Reviewing
    <2>3. TargetInv' /\ AcceptedIsMade' /\ MadeAsReviewed' /\ MadeOld' /\ MadeApart'
        BY <1>2 DEF vars, PatchInv, TargetInv, AcceptedIsMade, MadeAsReviewed, MadeOld, MadeApart
    <2> QED
        BY <2>1, <2>2, <2>3 DEF PatchInv
<1> QED
    BY <1>1, <1>2

-----------------------------------------------------------------------------
\* The inductive invariant, for every number of patches and requests.
THEOREM PatchInvariant == Spec => []PatchInv
BY InitPatch, NextPatch, PTL DEF Spec

\* Rows and requests keep their types.
THEOREM TypeCorrect == Spec => []TypeOK
<1>1. PatchInv => TypeOK
    BY DEF PatchInv
<1> QED
    BY <1>1, PatchInvariant, PTL

\* A patch that says accepted was made into a version, whatever failed.
THEOREM AcceptedMade == Spec => []AcceptedIsMade
<1>1. PatchInv => AcceptedIsMade
    BY DEF PatchInv
<1> QED
    BY <1>1, PatchInvariant, PTL

\* What was made is what the reviewers saw, and still see.
THEOREM MadeReviewed == Spec => []MadeAsReviewed
<1>1. PatchInv => MadeAsReviewed
    BY DEF PatchInv
<1> QED
    BY <1>1, PatchInvariant, PTL

\* No two acceptances write the same version.
THEOREM MadeVersionsApart == Spec => []MadeApart
<1>1. PatchInv => MadeApart
    BY DEF PatchInv
<1> QED
    BY <1>1, PatchInvariant, PTL

=============================================================================
