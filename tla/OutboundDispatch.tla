-------------------------- MODULE OutboundDispatch --------------------------
(***************************************************************************)
(* Outbound calls: the API's table of requests, the agents that poll,      *)
(* claim and dial them, and the network between.  OutboundCallService      *)
(* creates the requests; each freeswitch-agent runs one OutboundDispatcher *)
(* loop.                                                                   *)
(*                                                                         *)
(* An HTTP call either completes in one step or is abandoned: the agent    *)
(* sees an error, and the API may still execute the call, at any later     *)
(* time or never.                                                          *)
(***************************************************************************)
EXTENDS Naturals, FiniteSets

CONSTANTS
    MaxRequests,        \* bound: requests created
    Agents,             \* agents that serve the tenant
    Creators,           \* API requests that create calls concurrently
    CallsPerMinute,     \* max_calls_per_minute of the route
    BatchLimit,         \* LIMIT of the poll
    MaxFaults           \* bound: crashes and abandoned HTTP calls

ASSUME DispatchAssumption ==
    /\ MaxRequests \in Nat
    /\ CallsPerMinute \in Nat \ {0}
    /\ BatchLimit \in Nat \ {0}
    /\ MaxFaults \in Nat

VARIABLES
    row,        \* outbound_call_requests, in the order of created_at
    creator,    \* how far each creation is
    agent,      \* the locals of each dispatcher loop
    late,       \* abandoned HTTP calls that may still reach the API
    dialed,     \* originate commands FreeSWITCH executed, by request
    faults

vars == <<row, creator, agent, late, dialed, faults>>

Requests  == 1..MaxRequests
NoRequest == 0

\* The statuses a runtime client may report.  Nothing tells answered from
\* completed or expired from failed, so one of each stands for both.
Reported  == {"dispatched", "completed", "failed"}

\* safe: the number passes isSafeDialNumber.  recent: created less than a
\* minute ago.
Row       == [status : Reported \cup {"absent", "pending"}, safe : BOOLEAN, recent : BOOLEAN]
Agent     == [pc : {"poll", "dispatch", "originate", "report"},
              todo : SUBSET Requests, current : Requests \cup {NoRequest}]
HttpCall  == [call : {"claim", "failed"}, request : Requests]
IdleAgent == [pc |-> "poll", todo |-> {}, current |-> NoRequest]

TypeOK ==
    /\ row \in [Requests -> Row]
    /\ creator \in [Creators -> {"idle", "checked"}]
    /\ agent \in [Agents -> Agent]
    /\ late \subseteq HttpCall
    /\ dialed \in [Requests -> Nat]
    /\ faults \in 0..MaxFaults

Init ==
    /\ row = [r \in Requests |-> [status |-> "absent", safe |-> TRUE, recent |-> FALSE]]
    /\ creator = [c \in Creators |-> "idle"]
    /\ agent = [a \in Agents |-> IdleAgent]
    /\ late = {}
    /\ dialed = [r \in Requests |-> 0]
    /\ faults = 0

SetStatus(r, status) == row' = [row EXCEPT ![r].status = status]
Fault == faults < MaxFaults /\ faults' = faults + 1

-----------------------------------------------------------------------------
(* OutboundCallService.create and the passing of time.                     *)

\* countRecentAttempts: what the route's cap counts.
Counted == {r \in Requests : row[r].recent /\ row[r].status \notin {"absent", "failed"}}

CreateCheck(c) ==
    /\ creator[c] = "idle"
    /\ Cardinality(Counted) < CallsPerMinute
    /\ creator' = [creator EXCEPT ![c] = "checked"]
    /\ UNCHANGED <<row, agent, late, dialed, faults>>

CreateInsert(c, r, safe) ==
    /\ creator[c] = "checked"
    /\ row[r].status = "absent"
    /\ \A q \in Requests : q < r => row[q].status # "absent"
    /\ row' = [row EXCEPT ![r] = [status |-> "pending", safe |-> safe, recent |-> TRUE]]
    /\ creator' = [creator EXCEPT ![c] = "idle"]
    /\ UNCHANGED <<agent, late, dialed, faults>>

\* The INSERT fails, or the API process ends before it.
CreateFail(c) ==
    /\ creator[c] = "checked"
    /\ creator' = [creator EXCEPT ![c] = "idle"]
    /\ UNCHANGED <<row, agent, late, dialed, faults>>

\* created_at falls out of the window of countRecentAttempts, oldest first.
LeaveWindow(r) ==
    /\ row[r].recent
    /\ \A q \in Requests : q < r => ~ row[q].recent
    /\ row' = [row EXCEPT ![r].recent = FALSE]
    /\ UNCHANGED <<creator, agent, late, dialed, faults>>

-----------------------------------------------------------------------------
(* The runtime endpoints, as any client with a runtime token can call them.*)

\* Slip: the UPDATE has lost its status = 'pending'.
ClaimAnyRequest(r) ==
    /\ row[r].status # "absent"
    /\ SetStatus(r, "dispatched")

\* Slip: a status the table does not have.
ClaimRequestAs(r) ==
    /\ row[r].status = "pending"
    /\ SetStatus(r, "claimed")

\* claimRequest: UPDATE ... WHERE status = 'pending'.
ClaimRequest(r) ==
    /\ row[r].status = "pending"
    /\ SetStatus(r, "dispatched")

\* updateStatus: any status but pending, from any status.
UpdateStatus(r, status) ==
    /\ row[r].status # "absent"
    /\ SetStatus(r, status)

RuntimeReports(r, status) ==
    /\ UpdateStatus(r, status)
    /\ UNCHANGED <<creator, agent, late, dialed, faults>>

\* An abandoned call reaches the API after all.
LateArrives(m) ==
    /\ m \in late
    /\ late' = late \ {m}
    /\ CASE m.call = "failed" -> UpdateStatus(m.request, "failed")
         [] m.call = "claim"  -> IF row[m.request].status = "pending"
                                 THEN ClaimRequest(m.request) ELSE UNCHANGED row
    /\ UNCHANGED <<creator, agent, dialed, faults>>

-----------------------------------------------------------------------------
(* OutboundDispatcher: poll, then dispatch each request of the answer.     *)

Pending == {r \in Requests : row[r].status = "pending"}
Older(r) == {q \in Pending : q < r}

\* Slip: the page of the poll starts one row too late.
PollResultOffByOne == {r \in Pending : Cardinality(Older(r)) \in 1..BatchLimit}

\* findPendingByTenant: oldest first, at most BatchLimit.
PollResult == {r \in Pending : Cardinality(Older(r)) < BatchLimit}

Poll(a) ==
    /\ agent[a].pc = "poll"
    /\ PollResult # {}
    /\ agent' = [agent EXCEPT ![a] = [pc |-> "dispatch", todo |-> PollResult, current |-> NoRequest]]
    /\ UNCHANGED <<row, creator, late, dialed, faults>>

\* The request of the answer the loop is at.
Dispatching(a, r) ==
    /\ agent[a].pc = "dispatch"
    /\ r \in agent[a].todo
    /\ \A q \in agent[a].todo : r <= q

\* The loop goes on with the next request, or back to the ticker.
NextRequest(a, r) ==
    agent' = [agent EXCEPT ![a] =
        IF agent[a].todo \ {r} = {} THEN IdleAgent
        ELSE [pc |-> "dispatch", todo |-> agent[a].todo \ {r}, current |-> NoRequest]]

GoTo(a, r, pc) ==
    agent' = [agent EXCEPT ![a] = [pc |-> pc, todo |-> agent[a].todo, current |-> r]]

\* A number the agent does not dial is reported without a claim.
RejectUnsafe(a, r) ==
    /\ Dispatching(a, r)
    /\ ~ row[r].safe
    /\ GoTo(a, r, "report")
    /\ UNCHANGED <<row, creator, late, dialed, faults>>

ClaimWon(a, r) ==
    /\ Dispatching(a, r)
    /\ row[r].safe
    /\ ClaimRequest(r)
    /\ GoTo(a, r, "originate")
    /\ UNCHANGED <<creator, late, dialed, faults>>

ClaimRefused(a, r) ==
    /\ Dispatching(a, r)
    /\ row[r].safe
    /\ row[r].status # "pending"
    /\ NextRequest(a, r)
    /\ UNCHANGED <<row, creator, late, dialed, faults>>

ClaimAbandoned(a, r) ==
    /\ Dispatching(a, r)
    /\ row[r].safe
    /\ Fault
    /\ late' = late \cup {[call |-> "claim", request |-> r]}
    /\ NextRequest(a, r)
    /\ UNCHANGED <<row, creator, dialed>>

Dial(r) == dialed' = [dialed EXCEPT ![r] = @ + 1]

\* bgapi originate is answered; the row stays dispatched.  The answer begins
\* with its headers, so a refusal is not recognised by its -ERR.
OriginateOk(a, r) ==
    /\ agent[a].pc = "originate" /\ agent[a].current = r
    /\ Dial(r) \/ UNCHANGED dialed
    /\ NextRequest(a, r)
    /\ UNCHANGED <<row, creator, late, faults>>

\* The connection fails: before FreeSWITCH executed the command or after it.
OriginateError(a, r) ==
    /\ agent[a].pc = "originate" /\ agent[a].current = r
    /\ Dial(r) \/ UNCHANGED dialed
    /\ GoTo(a, r, "report")
    /\ UNCHANGED <<row, creator, late, faults>>

ReportFailed(a, r) ==
    /\ agent[a].pc = "report" /\ agent[a].current = r
    /\ UpdateStatus(r, "failed")
    /\ NextRequest(a, r)
    /\ UNCHANGED <<creator, late, dialed, faults>>

\* The error of the report is not looked at.
ReportAbandoned(a, r) ==
    /\ agent[a].pc = "report" /\ agent[a].current = r
    /\ Fault
    /\ late' = late \cup {[call |-> "failed", request |-> r]}
    /\ NextRequest(a, r)
    /\ UNCHANGED <<row, creator, dialed>>

\* The agent ends and starts again; a call it had sent may be on its way.
Crash(a) ==
    /\ agent[a] # IdleAgent
    /\ Fault
    /\ \/ late' = late
       \/ \E r \in Requests :
             \/ Dispatching(a, r) /\ row[r].safe
                /\ late' = late \cup {[call |-> "claim", request |-> r]}
             \/ agent[a].pc = "report" /\ agent[a].current = r
                /\ late' = late \cup {[call |-> "failed", request |-> r]}
    /\ agent' = [agent EXCEPT ![a] = IdleAgent]
    /\ UNCHANGED <<row, creator, dialed>>

-----------------------------------------------------------------------------
CreateStep ==
    \/ \E c \in Creators :
          \/ CreateCheck(c) \/ CreateFail(c)
          \/ \E r \in Requests, safe \in BOOLEAN : CreateInsert(c, r, safe)
    \/ \E r \in Requests : LeaveWindow(r)

ApiStep ==
    \/ \E r \in Requests, status \in Reported : RuntimeReports(r, status)
    \/ \E m \in late : LateArrives(m)

\* What the loop does of itself, without a fault.
AgentStep(a) ==
    \/ Poll(a)
    \/ \E r \in Requests :
          \/ RejectUnsafe(a, r) \/ ClaimWon(a, r) \/ ClaimRefused(a, r)
          \/ OriginateOk(a, r) \/ OriginateError(a, r) \/ ReportFailed(a, r)

FaultStep(a) ==
    \/ \E r \in Requests : ClaimAbandoned(a, r) \/ ReportAbandoned(a, r)
    \/ Crash(a)

Next == CreateStep \/ ApiStep \/ (\E a \in Agents : AgentStep(a) \/ FaultStep(a))

\* Each loop goes on: its ticker never stops and every HTTP and ESL call has
\* a timeout.  Nobody has to create, report or crash.
Spec == Init /\ [][Next]_vars /\ \A a \in Agents : WF_vars(AgentStep(a))

-----------------------------------------------------------------------------
(* Properties.                                                             *)

Holds(a, r) == agent[a].pc = "originate" /\ agent[a].current = r

PhaseOf(r) ==
    IF dialed[r] > 0 THEN "dialed"
    ELSE IF \E a \in Agents : Holds(a, r) THEN "taken"
    ELSE IF row[r].status = "pending" THEN "waiting"
    ELSE IF row[r].status = "absent" THEN "absent"
    ELSE "dropped"

Promise == INSTANCE DialOnce WITH
    Requests <- Requests, phase <- [r \in Requests |-> PhaseOf(r)], dials <- dialed

\* No request is dialed twice, by two agents, after a crash, or because a
\* claim or a report was abandoned and arrives late; a request that was given
\* up is not dialed later.
DialsOnce == Promise!Spec

\* Every request leaves the queue: an agent claims it or it is reported.
PendingIsTaken == \A r \in Requests : row[r].status = "pending" ~> row[r].status # "pending"

\* What the documents promise and the code does not keep: a route has at most
\* CallsPerMinute attempts in a minute.
RouteCapHeld == Cardinality(Counted) <= CallsPerMinute
=============================================================================
