----------------------- MODULE OutboundDispatchProofs -----------------------
(***************************************************************************)
(* Proofs that the dispatchers dial a request at most once: the system     *)
(* implements DialOnce for every number of requests, agents, creators and  *)
(* faults.                                                                 *)
(***************************************************************************)
EXTENDS OutboundDispatch, TLAPS

-----------------------------------------------------------------------------
(* The invariant.  The argument: a row leaves pending once and for all, so *)
(* of all the claims of a request, late ones included, one finds it        *)
(* pending; whoever won it is the one holder, until it dials or gives up.  *)

Taken(r) == row[r].status \notin {"absent", "pending"}

HolderInv ==
    /\ \A a \in Agents, r \in Requests : Holds(a, r) => Taken(r) /\ dialed[r] = 0
    /\ \A a \in Agents, b \in Agents, r \in Requests : Holds(a, r) /\ Holds(b, r) => a = b

DialedInv == \A r \in Requests : dialed[r] \in 0..1 /\ (dialed[r] > 0 => Taken(r))

DispatchInv == TypeOK /\ HolderInv /\ DialedInv

\* No agent holds anything at first.
LEMMA InitDispatch == Init => DispatchInv
<1> SUFFICES ASSUME Init PROVE DispatchInv
    OBVIOUS
<1> USE DEF Init, IdleAgent
<1>1. TypeOK
    BY DispatchAssumption DEF TypeOK, Row, Agent
<1>2. HolderInv
    BY DEF HolderInv, Holds
<1>3. DialedInv
    BY DEF DialedInv
<1> QED
    BY <1>1, <1>2, <1>3 DEF DispatchInv

\* The loop's ways on keep the type of its locals.
LEMMA AgentTypes ==
    ASSUME TypeOK, NEW a \in Agents, NEW r \in Requests,
           NextRequest(a, r) \/ (\E pc \in {"originate", "report"} : GoTo(a, r, pc))
    PROVE  agent' \in [Agents -> Agent]
<1>1. agent \in [Agents -> Agent] /\ agent[a].todo \in SUBSET Requests
    BY DEF TypeOK, Agent
<1>2. CASE NextRequest(a, r)
    BY <1>1, <1>2 DEF NextRequest, IdleAgent, Agent
<1>3. ASSUME NEW pc \in {"originate", "report"}, GoTo(a, r, pc)
      PROVE  agent' \in [Agents -> Agent]
    BY <1>1, <1>3 DEF GoTo, Agent
<1> QED
    BY <1>2, <1>3

\* Every step keeps the types.
LEMMA NextTypes == TypeOK /\ [Next]_vars => TypeOK'
<1> SUFFICES ASSUME TypeOK, [Next]_vars PROVE TypeOK'
    OBVIOUS
<1>0. /\ row \in [Requests -> Row] /\ creator \in [Creators -> {"idle", "checked"}]
      /\ agent \in [Agents -> Agent] /\ late \subseteq HttpCall
      /\ dialed \in [Requests -> Nat] /\ faults \in 0..MaxFaults
    BY DEF TypeOK
<1>a. ASSUME NEW r \in Requests, NEW status \in Reported, SetStatus(r, status)
      PROVE  row' \in [Requests -> Row]
    BY <1>0, <1>a DEF SetStatus, Row
<1>b. ASSUME NEW r \in Requests, Dial(r) PROVE dialed' \in [Requests -> Nat]
    BY <1>0, <1>b DEF Dial
<1>c. ASSUME Fault PROVE faults' \in 0..MaxFaults
    BY <1>0, <1>c, DispatchAssumption DEF Fault
<1>d. \A r \in Requests, call \in {"claim", "failed"} :
         late \cup {[call |-> call, request |-> r]} \subseteq HttpCall
    BY <1>0 DEF HttpCall
<1>e. {"dispatched", "failed"} \subseteq Reported
    BY DEF Reported
<1>1. CASE CreateStep
    <2>1. ASSUME NEW c \in Creators, CreateCheck(c) \/ CreateFail(c) PROVE TypeOK'
        BY <1>0, <2>1 DEF CreateCheck, CreateFail, TypeOK
    <2>2. ASSUME NEW c \in Creators, NEW r \in Requests, NEW safe \in BOOLEAN, CreateInsert(c, r, safe)
          PROVE  TypeOK'
        BY <1>0, <2>2 DEF CreateInsert, TypeOK, Row
    <2>3. ASSUME NEW r \in Requests, LeaveWindow(r) PROVE TypeOK'
        BY <1>0, <2>3 DEF LeaveWindow, TypeOK, Row
    <2> QED
        BY <1>1, <2>1, <2>2, <2>3 DEF CreateStep
<1>2. CASE ApiStep
    <2>1. ASSUME NEW r \in Requests, NEW status \in Reported, RuntimeReports(r, status) PROVE TypeOK'
        BY <1>0, <1>a, <2>1 DEF RuntimeReports, UpdateStatus, TypeOK
    <2>2. ASSUME NEW m \in late, LateArrives(m) PROVE TypeOK'
        <3>1. m.request \in Requests /\ m.call \in {"claim", "failed"}
            BY <1>0 DEF HttpCall
        <3>2. row' \in [Requests -> Row]
            BY <1>0, <1>a, <1>e, <2>2, <3>1 DEF LateArrives, UpdateStatus, ClaimRequest
        <3> QED
            BY <1>0, <2>2, <3>2 DEF LateArrives, TypeOK
    <2> QED
        BY <1>2, <2>1, <2>2 DEF ApiStep
<1>3. ASSUME NEW a \in Agents, AgentStep(a) PROVE TypeOK'
    <2>1. CASE Poll(a)
        BY <1>0, <2>1 DEF Poll, PollResult, Pending, TypeOK, Agent
    <2>2. ASSUME NEW r \in Requests, RejectUnsafe(a, r) \/ ClaimRefused(a, r) PROVE TypeOK'
        <3>1. agent' \in [Agents -> Agent]
            BY <2>2, AgentTypes DEF RejectUnsafe, ClaimRefused
        <3> QED
            BY <1>0, <2>2, <3>1 DEF RejectUnsafe, ClaimRefused, TypeOK
    <2>3. ASSUME NEW r \in Requests, ClaimWon(a, r) PROVE TypeOK'
        <3>1. agent' \in [Agents -> Agent]
            BY <2>3, AgentTypes DEF ClaimWon
        <3>2. row' \in [Requests -> Row]
            BY <1>a, <1>e, <2>3 DEF ClaimWon, ClaimRequest
        <3> QED
            BY <1>0, <2>3, <3>1, <3>2 DEF ClaimWon, TypeOK
    <2>4. ASSUME NEW r \in Requests, OriginateOk(a, r) \/ OriginateError(a, r) PROVE TypeOK'
        <3>1. agent' \in [Agents -> Agent]
            BY <2>4, AgentTypes DEF OriginateOk, OriginateError
        <3>2. dialed' \in [Requests -> Nat]
            BY <1>0, <1>b, <2>4 DEF OriginateOk, OriginateError
        <3> QED
            BY <1>0, <2>4, <3>1, <3>2 DEF OriginateOk, OriginateError, TypeOK
    <2>5. ASSUME NEW r \in Requests, ReportFailed(a, r) PROVE TypeOK'
        <3>1. agent' \in [Agents -> Agent]
            BY <2>5, AgentTypes DEF ReportFailed
        <3>2. row' \in [Requests -> Row]
            BY <1>a, <1>e, <2>5 DEF ReportFailed, UpdateStatus
        <3> QED
            BY <1>0, <2>5, <3>1, <3>2 DEF ReportFailed, TypeOK
    <2> QED
        BY <1>3, <2>1, <2>2, <2>3, <2>4, <2>5 DEF AgentStep
<1>4. ASSUME NEW a \in Agents, FaultStep(a) PROVE TypeOK'
    <2>1. ASSUME NEW r \in Requests, ClaimAbandoned(a, r) \/ ReportAbandoned(a, r) PROVE TypeOK'
        <3>1. agent' \in [Agents -> Agent]
            BY <2>1, AgentTypes DEF ClaimAbandoned, ReportAbandoned
        <3> QED
            BY <1>0, <1>c, <1>d, <2>1, <3>1 DEF ClaimAbandoned, ReportAbandoned, TypeOK
    <2>2. CASE Crash(a)
        <3>1. late' \subseteq HttpCall
            BY <1>0, <1>d, <2>2 DEF Crash
        <3> QED
            BY <1>0, <1>c, <2>2, <3>1 DEF Crash, TypeOK, Agent, IdleAgent
    <2> QED
        BY <1>4, <2>1, <2>2 DEF FaultStep
<1>5. CASE UNCHANGED vars
    BY <1>0, <1>5 DEF vars, TypeOK
<1> QED
    BY <1>1, <1>2, <1>3, <1>4, <1>5 DEF Next

\* Every row and every agent keeps its type, in every reachable state.
THEOREM TypeCorrect == Spec => []TypeOK
<1>1. Init => TypeOK
    BY InitDispatch DEF DispatchInv
<1> QED
    BY <1>1, NextTypes, PTL DEF Spec

-----------------------------------------------------------------------------
(* What a step does to the status, the holder and the dials of requests.   *)

StatusKept(R) == \A r \in R : row'[r].status = row[r].status
DialsKept(R)  == \A r \in R : dialed'[r] = dialed[r]
HoldsKept     == \A a \in Agents, r \in Requests : Holds(a, r)' <=> Holds(a, r)

Quiet == StatusKept(Requests) /\ DialsKept(Requests) /\ HoldsKept

Submitted(r) ==
    /\ row[r].status = "absent" /\ row'[r].status = "pending"
    /\ StatusKept(Requests \ {r}) /\ DialsKept(Requests) /\ HoldsKept

\* The row is no longer pending, if it was.
Settled(r) ==
    /\ row[r].status # "absent" /\ row'[r].status \in Reported
    /\ StatusKept(Requests \ {r}) /\ DialsKept(Requests) /\ HoldsKept

Won(a, r) ==
    /\ row[r].status = "pending" /\ row'[r].status = "dispatched"
    /\ StatusKept(Requests \ {r}) /\ DialsKept(Requests)
    /\ \A b \in Agents, q \in Requests : Holds(b, q)' <=> Holds(b, q) \/ (b = a /\ q = r)

\* The holder dials, or gives up, or both.
LetGo(a, r) ==
    /\ Holds(a, r)
    /\ dialed'[r] \in {dialed[r], dialed[r] + 1}
    /\ StatusKept(Requests) /\ DialsKept(Requests \ {r})
    /\ \A b \in Agents, q \in Requests : Holds(b, q)' <=> Holds(b, q) /\ ~ (b = a /\ q = r)

Effect ==
    \/ Quiet
    \/ \E r \in Requests : Submitted(r) \/ Settled(r)
    \/ \E a \in Agents, r \in Requests : Won(a, r) \/ LetGo(a, r)

\* Every step of the system has one of these effects.
LEMMA Effects ==
    ASSUME TypeOK, [Next]_vars
    PROVE  Effect
<1> USE DEF StatusKept, DialsKept, HoldsKept
<1>0. /\ row \in [Requests -> Row] /\ agent \in [Agents -> Agent]
      /\ dialed \in [Requests -> Nat] /\ late \subseteq HttpCall
    BY DEF TypeOK
<1>1. ASSUME agent' = agent PROVE HoldsKept
    BY <1>1 DEF Holds
<1>2. ASSUME NEW r \in Requests, NEW status \in Reported, SetStatus(r, status), agent' = agent,
             dialed' = dialed, row[r].status # "absent"
      PROVE  Settled(r)
    BY <1>0, <1>1, <1>2 DEF SetStatus, Settled, Row
<1>3. ASSUME NEW a \in Agents, NEW r \in Requests, NextRequest(a, r)
      PROVE  \A b \in Agents, q \in Requests : Holds(b, q)' <=> Holds(b, q) /\ b # a
    BY <1>0, <1>3 DEF NextRequest, IdleAgent, Holds, Agent
<1>4. ASSUME NEW a \in Agents, NEW r \in Requests, GoTo(a, r, "report")
      PROVE  \A b \in Agents, q \in Requests : Holds(b, q)' <=> Holds(b, q) /\ b # a
    BY <1>0, <1>4 DEF GoTo, Holds, Agent
<1>5. ASSUME NEW a \in Agents, agent[a].pc # "originate"
      PROVE  \A q \in Requests : ~ Holds(a, q)
    BY <1>5 DEF Holds
<1>6. CASE CreateStep
    <2>1. ASSUME NEW c \in Creators, CreateCheck(c) \/ CreateFail(c) PROVE Quiet
        BY <1>1, <2>1 DEF CreateCheck, CreateFail, Quiet
    <2>2. ASSUME NEW c \in Creators, NEW r \in Requests, NEW safe \in BOOLEAN, CreateInsert(c, r, safe)
          PROVE  Submitted(r)
        BY <1>0, <1>1, <2>2 DEF CreateInsert, Submitted, Row
    <2>3. ASSUME NEW r \in Requests, LeaveWindow(r) PROVE Quiet
        BY <1>0, <1>1, <2>3 DEF LeaveWindow, Quiet, Row
    <2> QED
        BY <1>6, <2>1, <2>2, <2>3 DEF CreateStep, Effect
<1>7. CASE ApiStep
    <2>1. ASSUME NEW r \in Requests, NEW status \in Reported, RuntimeReports(r, status) PROVE Settled(r)
        BY <1>2, <2>1 DEF RuntimeReports, UpdateStatus
    <2>2. ASSUME NEW m \in late, LateArrives(m) PROVE Effect
        <3>1. m.request \in Requests /\ m.call \in {"claim", "failed"}
            BY <1>0 DEF HttpCall
        <3>2. \/ SetStatus(m.request, "failed") /\ row[m.request].status # "absent"
              \/ SetStatus(m.request, "dispatched") /\ row[m.request].status # "absent"
              \/ UNCHANGED row
            BY <2>2, <3>1 DEF LateArrives, UpdateStatus, ClaimRequest
        <3>3. agent' = agent /\ dialed' = dialed
            BY <2>2 DEF LateArrives
        <3>4. CASE UNCHANGED row
            BY <1>1, <3>3, <3>4 DEF Quiet, Effect
        <3>5. CASE \E status \in Reported :
                     SetStatus(m.request, status) /\ row[m.request].status # "absent"
            BY <1>2, <3>1, <3>3, <3>5 DEF Effect
        <3> QED
            BY <3>2, <3>4, <3>5 DEF Reported
    <2> QED
        BY <1>7, <2>1, <2>2 DEF ApiStep, Effect
<1>8. ASSUME NEW a \in Agents, AgentStep(a) PROVE Effect
    <2>1. CASE Poll(a)
        <3>1. HoldsKept
            BY <1>0, <2>1 DEF Poll, Holds, Agent
        <3> QED
            BY <2>1, <3>1 DEF Poll, Quiet, Effect
    <2>2. ASSUME NEW r \in Requests, RejectUnsafe(a, r) \/ ClaimRefused(a, r) PROVE Quiet
        <3>1. HoldsKept
            BY <1>3, <1>4, <1>5, <2>2 DEF RejectUnsafe, ClaimRefused, Dispatching
        <3> QED
            BY <2>2, <3>1 DEF RejectUnsafe, ClaimRefused, Quiet
    <2>3. ASSUME NEW r \in Requests, ClaimWon(a, r) PROVE Won(a, r)
        <3>1. row[r].status = "pending" /\ row'[r].status = "dispatched"
              /\ StatusKept(Requests \ {r}) /\ DialsKept(Requests)
            BY <1>0, <2>3 DEF ClaimWon, ClaimRequest, SetStatus, Row
        <3>2. ~ \E q \in Requests : Holds(a, q)
            BY <1>5, <2>3 DEF ClaimWon, Dispatching
        <3>3. \A b \in Agents, q \in Requests : Holds(b, q)' <=> Holds(b, q) \/ (b = a /\ q = r)
            BY <1>0, <2>3, <3>2 DEF ClaimWon, GoTo, Holds, Agent
        <3> QED
            BY <3>1, <3>3 DEF Won
    <2>4. ASSUME NEW r \in Requests, OriginateOk(a, r) \/ OriginateError(a, r) PROVE LetGo(a, r)
        <3>1. Holds(a, r)
            BY <2>4 DEF OriginateOk, OriginateError, Holds
        <3>2. /\ dialed'[r] \in {dialed[r], dialed[r] + 1}
              /\ StatusKept(Requests) /\ DialsKept(Requests \ {r})
            BY <1>0, <2>4 DEF OriginateOk, OriginateError, Dial
        <3>3. \A b \in Agents, q \in Requests : Holds(b, q)' <=> Holds(b, q) /\ b # a
            BY <1>3, <1>4, <2>4 DEF OriginateOk, OriginateError
        <3> QED
            BY <3>1, <3>2, <3>3 DEF LetGo, Holds
    <2>5. ASSUME NEW r \in Requests, ReportFailed(a, r) PROVE Settled(r)
        <3>1. HoldsKept
            BY <1>3, <1>5, <2>5 DEF ReportFailed
        <3> QED
            BY <1>0, <2>5, <3>1 DEF ReportFailed, UpdateStatus, SetStatus, Settled, Row, Reported
    <2> QED
        BY <1>8, <2>1, <2>2, <2>3, <2>4, <2>5 DEF AgentStep, Effect
<1>9. ASSUME NEW a \in Agents, FaultStep(a) PROVE Effect
    <2>1. ASSUME NEW r \in Requests, ClaimAbandoned(a, r) \/ ReportAbandoned(a, r) PROVE Quiet
        <3>1. HoldsKept
            BY <1>3, <1>5, <2>1 DEF ClaimAbandoned, ReportAbandoned, Dispatching
        <3> QED
            BY <2>1, <3>1 DEF ClaimAbandoned, ReportAbandoned, Quiet
    <2>2. CASE Crash(a)
        <3>1. \A b \in Agents, q \in Requests : Holds(b, q)' <=> Holds(b, q) /\ b # a
            BY <1>0, <2>2 DEF Crash, IdleAgent, Holds, Agent
        <3>2. StatusKept(Requests) /\ DialsKept(Requests)
            BY <2>2 DEF Crash
        <3>3. CASE \E r \in Requests : Holds(a, r)
            <4>1. PICK r \in Requests : Holds(a, r)
                BY <3>3
            <4>2. LetGo(a, r)
                BY <3>1, <3>2, <4>1 DEF LetGo, Holds
            <4> QED
                BY <4>2 DEF Effect
        <3>4. CASE ~ \E r \in Requests : Holds(a, r)
            BY <3>1, <3>2, <3>4 DEF Quiet, Effect
        <3> QED
            BY <3>3, <3>4
    <2> QED
        BY <1>9, <2>1, <2>2 DEF FaultStep, Effect
<1>10. CASE UNCHANGED vars
    BY <1>1, <1>10 DEF vars, Quiet, Effect
<1> QED
    BY <1>6, <1>7, <1>8, <1>9, <1>10 DEF Next

\* No step gives a request a second holder, or a dial without a holder.
LEMMA NextDispatch == DispatchInv /\ [Next]_vars => DispatchInv'
<1> SUFFICES ASSUME DispatchInv, [Next]_vars PROVE DispatchInv'
    OBVIOUS
<1>0. TypeOK /\ TypeOK' /\ Effect /\ HolderInv /\ DialedInv
    BY NextTypes, Effects DEF DispatchInv
<1> USE DEF HolderInv, DialedInv, Taken, StatusKept, DialsKept, HoldsKept
<1>1. CASE Quiet
    BY <1>0, <1>1 DEF Quiet, DispatchInv
<1>2. ASSUME NEW r \in Requests, Submitted(r) PROVE DispatchInv'
    BY <1>0, <1>2 DEF Submitted, DispatchInv
<1>3. ASSUME NEW r \in Requests, Settled(r) PROVE DispatchInv'
    BY <1>0, <1>3 DEF Settled, DispatchInv, Reported
<1>4. ASSUME NEW a \in Agents, NEW r \in Requests, Won(a, r) PROVE DispatchInv'
    <2>1. \A b \in Agents : ~ Holds(b, r)
        BY <1>0, <1>4 DEF Won
    <2>2. dialed[r] = 0
        BY <1>0, <1>4 DEF Won
    <2>3. HolderInv'
        BY <1>0, <1>4, <2>1, <2>2 DEF Won
    <2>4. DialedInv'
        BY <1>0, <1>4 DEF Won
    <2> QED
        BY <1>0, <2>3, <2>4 DEF DispatchInv
<1>5. ASSUME NEW a \in Agents, NEW r \in Requests, LetGo(a, r) PROVE DispatchInv'
    <2>1. dialed[r] = 0 /\ Taken(r)
        BY <1>0, <1>5 DEF LetGo
    <2>2. \A b \in Agents : ~ Holds(b, r)'
        BY <1>0, <1>5 DEF LetGo
    <2>3. HolderInv'
        BY <1>0, <1>5, <2>2 DEF LetGo
    <2>4. DialedInv'
        BY <1>0, <1>5, <2>1 DEF LetGo
    <2> QED
        BY <1>0, <2>3, <2>4 DEF DispatchInv
<1> QED
    BY <1>0, <1>1, <1>2, <1>3, <1>4, <1>5 DEF Effect

-----------------------------------------------------------------------------
(* The refinement: each effect is a step of DialOnce, or a stutter.        *)

\* A request whose status, holder and dials a step keeps keeps its phase.
LEMMA PhaseKept ==
    ASSUME NEW r \in Requests, row'[r].status = row[r].status, dialed'[r] = dialed[r],
           \A a \in Agents : Holds(a, r)' <=> Holds(a, r)
    PROVE  PhaseOf(r)' = PhaseOf(r)
BY DEF PhaseOf

\* One request that changes its phase is a Move of DialOnce.
LEMMA OneMove ==
    ASSUME NEW r \in Requests, NEW from, NEW to, PhaseOf(r) = from, PhaseOf(r)' = to,
           \A q \in Requests \ {r} : PhaseOf(q)' = PhaseOf(q)
    PROVE  Promise!Move(r, from, to)
BY DEF Promise!Move

\* Each effect is a step of DialOnce or leaves its variables unchanged.
LEMMA EffectPromised ==
    ASSUME DispatchInv, Effect, TypeOK'
    PROVE  [Promise!Next]_(Promise!vars)
<1>0. HolderInv /\ DialedInv
    BY DEF DispatchInv
<1>d. dialed \in [Requests -> Nat] /\ dialed' \in [Requests -> Nat]
    BY DEF DispatchInv, TypeOK
<1> USE DEF StatusKept, DialsKept, HoldsKept
<1>1. CASE Quiet
    <2>1. \A r \in Requests : PhaseOf(r)' = PhaseOf(r)
        BY <1>1, PhaseKept DEF Quiet
    <2>2. dialed' = dialed
        BY <1>1, <1>d DEF Quiet
    <2> QED
        BY <2>1, <2>2 DEF Promise!vars
<1>2. ASSUME NEW r \in Requests, Submitted(r) PROVE Promise!Submit(r)
    <2>1. \A q \in Requests \ {r} : PhaseOf(q)' = PhaseOf(q)
        BY <1>2, PhaseKept DEF Submitted
    <2>2. PhaseOf(r) = "absent" /\ PhaseOf(r)' = "waiting"
        BY <1>0, <1>2, <1>d DEF Submitted, PhaseOf, HolderInv, DialedInv, Taken
    <2>3. dialed' = dialed
        BY <1>2, <1>d DEF Submitted
    <2> QED
        BY <2>1, <2>2, <2>3, OneMove DEF Promise!Submit
<1>3. ASSUME NEW r \in Requests, Settled(r) PROVE Promise!Drop(r) \/ UNCHANGED Promise!vars
    <2>1. \A q \in Requests \ {r} : PhaseOf(q)' = PhaseOf(q)
        BY <1>3, PhaseKept DEF Settled
    <2>2. dialed' = dialed
        BY <1>3, <1>d DEF Settled
    <2>3. \/ PhaseOf(r) = "waiting" /\ PhaseOf(r)' = "dropped"
          \/ PhaseOf(r)' = PhaseOf(r)
        BY <1>0, <1>3, <1>d DEF Settled, Reported, PhaseOf, HolderInv, DialedInv, Taken
    <2>4. CASE PhaseOf(r) = "waiting" /\ PhaseOf(r)' = "dropped"
        BY <2>1, <2>2, <2>4, OneMove DEF Promise!Drop
    <2>5. CASE PhaseOf(r)' = PhaseOf(r)
        BY <2>1, <2>2, <2>5 DEF Promise!vars
    <2> QED
        BY <2>3, <2>4, <2>5
<1>4. ASSUME NEW a \in Agents, NEW r \in Requests, Won(a, r) PROVE Promise!Take(r)
    <2>1. \A q \in Requests \ {r} : PhaseOf(q)' = PhaseOf(q)
        BY <1>4, PhaseKept DEF Won
    <2>2. PhaseOf(r) = "waiting" /\ PhaseOf(r)' = "taken"
        BY <1>0, <1>4, <1>d DEF Won, PhaseOf, HolderInv, DialedInv, Taken
    <2>3. dialed' = dialed
        BY <1>4, <1>d DEF Won
    <2> QED
        BY <2>1, <2>2, <2>3, OneMove DEF Promise!Take
<1>5. ASSUME NEW a \in Agents, NEW r \in Requests, LetGo(a, r)
      PROVE  Promise!Dial(r) \/ Promise!Drop(r)
    <2>1. \A q \in Requests \ {r} : PhaseOf(q)' = PhaseOf(q)
        BY <1>5, PhaseKept DEF LetGo
    <2>2. dialed[r] = 0 /\ Taken(r) /\ PhaseOf(r) = "taken"
        BY <1>0, <1>5 DEF LetGo, PhaseOf, HolderInv
    <2>3. \A b \in Agents : ~ Holds(b, r)'
        BY <1>0, <1>5 DEF LetGo, HolderInv
    <2>4. CASE dialed'[r] = dialed[r]
        <3>1. dialed' = dialed
            BY <1>5, <1>d, <2>4 DEF LetGo
        <3>2. PhaseOf(r)' = "dropped"
            BY <1>5, <2>2, <2>3, <2>4 DEF PhaseOf, LetGo, Taken
        <3> QED
            BY <2>1, <2>2, <3>1, <3>2, OneMove DEF Promise!Drop
    <2>5. CASE dialed'[r] = dialed[r] + 1
        <3>1. dialed' = [dialed EXCEPT ![r] = @ + 1]
            BY <1>5, <1>d, <2>5 DEF LetGo
        <3>2. PhaseOf(r)' = "dialed"
            BY <2>2, <2>5 DEF PhaseOf
        <3> QED
            BY <2>1, <2>2, <3>1, <3>2, OneMove DEF Promise!Dial
    <2> QED
        BY <1>5, <2>4, <2>5 DEF LetGo
<1> QED
    BY <1>1, <1>2, <1>3, <1>4, <1>5 DEF Effect, Promise!Next

\* The outbound calls implement DialOnce: no request is dialed twice, and none
\* is dialed after it was given up, whatever is lost, late or restarted.
THEOREM DialsOnceHolds == Spec => DialsOnce
<1>1. Init => Promise!Init
    BY DEF Init, Promise!Init, PhaseOf, Holds, IdleAgent
<1>2. DispatchInv /\ [Next]_vars => [Promise!Next]_(Promise!vars)
    BY Effects, NextTypes, EffectPromised DEF DispatchInv
<1>3. Spec => []DispatchInv
    BY InitDispatch, NextDispatch, PTL DEF Spec
<1> QED
    BY <1>1, <1>2, <1>3, PTL DEF Spec, DialsOnce, Promise!Spec
=============================================================================
