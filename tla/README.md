# A verification development for manageCallAI

TLA+ models of the parts of manageCallAI in which several actors share rows of
PostgreSQL without sharing a transaction, or in which several programs read one
piece of data and must agree on it; the TLC runs that check them on small
instances; and TLAPS proofs for every instance.

The program has one recurring shape. A request of the API (or a loop of an
agent, a script on a channel, a batch job, or a timer) reads a row, awaits,
decides, awaits, and writes with an `UPDATE` that may or may not repeat the
condition it read. Node runs one JavaScript turn at a time, but every `await`
lets any other request in, several API processes may run, and PostgreSQL runs at
READ COMMITTED. So the unit of interleaving in every module but `FlowGraph` is
the SQL statement (or the transaction, where there is one and its locks make it
a unit), the HTTP call, the ESL command, or the deletion of a file.

## 1. Inventory

| Component | State it keeps | Operations | What is hard about it |
|---|---|---|---|
| IVR flow lifecycle (`modules/ivr-flows`) | `ivr_flows`, `flow_versions`, `publish_records` | create, createVersion, updateVersionDefinition, validate, simulate, publish, rollback | state read before an await and believed after it; two transactions that publish at once |
| IVR graphs (`ivr-flow.validation.ts`, `ivr-graph-planner.ts`) | the graph of one version | validate, simulate, plan the next node | three readers with rules of their own; a depth limit beside a set of seen nodes |
| AI patch review (`ivr-ai-generation.controller.ts`, `modules/provider-work`) | `ivr_ai_patch_requests` | create, claim, complete, accept, reject | two reviewers; late and repeated results; a version that is made before its patch is marked |
| Approvals (`modules/approvals`) | `approval_requests` | approve, reject | two deciders; a decision whose execution fails or is lost |
| IVR runtime (`modules/runtime/ivr-runtime*`, `managecall_entry.lua`) | `ivr_flow_sessions` and their steps | startSession, advanceSession, the loop of the script | a call outlives publishes; session and step are two statements; the caller goes |
| Inbound routes (`modules/inbound-routes`, `route-lookup.repository.ts`) | `inbound_routes`, `route_versions` | create, update, validate, activate, deactivate, createVersion, publish, rollback, lookup | a check and then a write; columns updated from stale copies; two lives of one route |
| Outbound calls (`modules/runtime/outbound-call*`) | `outbound_call_requests` | create, poll, claim, status | a limit that is counted and then used; reports from any time |
| Outbound dispatcher (`freeswitch-agent`) | memory of one loop | poll, claim, originate, report | crashes, abandoned HTTP calls, lost replies of FreeSWITCH |
| Gateway apply (`sip-trunks/runtime-apply*`, `apply_dispatcher.go`) | `runtime_apply_requests` | fan-out, poll, claim, rescan, result | a crash between claim and result; results that arrive late; nodes that come and go |
| Webhooks (`modules/automation`) | `automation_webhooks`, `webhook_delivery_queue` | enqueue, claim, POST, marks, retry, dismiss, revoke | batches that overlap; a restart between claim and mark; duplicates |
| Enterprise lifecycle (`modules/shared`) | version tables of six kinds of object | as IVR flows, plus `rolled_back` | as IVR flows, with other guards |
| Retention purge (`worker/retention`) | recordings and derived rows, voicemail, files, `legal_hold_requests`, `tenant_audit_log` | collect, purge, delete, audit; place and release a hold; users delete voicemail | rows and files go in different steps; holds in between, and while the purge statement runs; overlapping runs |
| Provider work (`modules/provider-work`) | three more request tables | create, claim, complete | claims without expiry; completion by anyone |
| Queue callbacks (`modules/queue-callbacks`) | `queue_callbacks` | update, cancel | a checked transition, an unguarded write |
| Parking (`modules/parking`, forwarder) | `parked_calls` | park, retrieve, time out | events that name the slot, not the call |
| Node registry (`runtime/node-registry*`) | `freeswitch_nodes`, `runtime_nonces` | register, switch, consume a nonce | decided by a primary key |
| Everything else | rows of their own | create, read, update, delete | no interaction worth a model; listed in `PROJECT.json` |

How they interact: the console, the MCP servers and n8n call the API. The API
writes rows; the agents poll them over HTTP, claim, act on FreeSWITCH over ESL,
and report. FreeSWITCH asks the API which route answers a number, for its
gateways, and, through a script on the channel, for the next action of a call,
which the IVR runtime answers from the published version. Services announce
changes by enqueueing webhook deliveries, which a timer in every API process
works off. The worker purges what the API stored.

What makes each of them correct:

- lifecycle: a running call plays one graph; the flow points at a version that
  went through the checks; what an AI drafted goes live through an approval only;
- graphs: what the validator passes, the simulator foretells and the runtime
  plays is the same graph;
- patches: what is made of a patch is what the reviewer saw, once per acceptance;
- approvals: one decision, final; nothing is executed before it;
- sessions: script, session row and recorded steps tell the same story;
- inbound routes: a number has one answer in a tenant;
- outbound calls: a request is dialed at most once and does not stay in the
  queue; the rate of a route is kept;
- gateway apply: recorded once, as it happened; a fault costs one request;
- webhooks: one holder per delivery; as many attempts as promised before giving
  up; a delivered event is not sent again; nothing waits for ever;
- retention: a hold protects row and file; what was deleted is audited, once.

## 2. Modules

| Module | Models |
|---|---|
| `FlowStore` | `flow_versions`, `ivr_flows`, `publish_records` and one operator per statement of `IvrFlowRepository` on them |
| `PublishRegister` | the abstract promise of a publish lifecycle: what is on the air was checked, and what was on the air once is never denied |
| `PublishLifecycle` | extends `FlowStore` with request slots that run drafts, checks, publish, rollback, approve and reject statement by statement; sessions pinned to a version |
| `RuntimeSession` | one script, one request of the API and one session per channel, over any graph |
| `FlowGraph` | one concrete graph: validator, simulator and runtime, edge by edge and node by node |
| `PatchReview` | the patches of one flow, workers, reviewers, editors |
| `InboundRoutes` | the rows and versions of the routes of some tenants, and the two lookups |
| `DialOnce` | the abstract promise of the outbound queue: absent, waiting, taken, dialed or dropped |
| `OutboundDispatch` | the table, concurrent creations, the agents' loops, the network between |
| `ApplyOnce` | the abstract promise of the apply requests: run at most once, recorded once as it happened |
| `GatewayApply` | trunk changes, fan-out, the agents' loops, the network, the nodes |
| `AtLeastOnce` | the abstract promise of the webhook queue: one try at a time, as many as promised, done only after it was heard |
| `WebhookDelivery` | the queue, overlapping batches, operators, receivers |
| `EnterpriseLifecycle` | the versions of one enterprise object and their approvals |
| `RetentionPurge` | overlapping purge runs beside the requests that place holds and those that delete voicemail |
| `MC*` | instances for TLC: symmetry, and the concrete graphs and plans |
| `*Proofs` | the theorems and their proofs |

What composes what: `PublishLifecycle` and `FlowStore` are one system.
`RuntimeSession` rests on `PinnedGraphUnchanged` of `PublishLifecycle` (its graph is a
constant) and leaves the branches of silent nodes open; `FlowGraph` fills them in and
decides which graphs pass, which `PublishLifecycle` leaves open. `PatchReview`
produces the drafts that `PublishLifecycle` publishes.
`OutboundDispatch` implements `DialOnce`, `GatewayApply` implements `ApplyOnce`,
`WebhookDelivery` implements `AtLeastOnce`; `PublishLifecycle` and
`EnterpriseLifecycle`, two repositories with guards of their own, both implement
`PublishRegister`.

### State and code

*PublishLifecycle.* `version`, `flow`, `publishRecord` and `approval` are tables;
`req[p]` is the stack of one API request, `pc` its next statement, `snapshot` the
rows the first `UPDATE` of its open transaction has picked; `session[c]` is the
version a call is pinned to and the graph it was planned from. One action is one
statement: `PublishRead` is `findVersionById` with the checks that follow,
`CreateApprovalRequest` and `StoreRequestRecord` are the two statements of a
request that needs approval, `PublishSupersede` and `PublishCommit` are the
transaction. The transaction needs two steps because under READ COMMITTED an
`UPDATE` picks its rows from the snapshot of its own start and re-checks them
after it waited for locks: a version another transaction publishes meanwhile is
missed. `Abort` is every early end of a request: an error reply, a statement that
fails (and whose transaction is rolled back), a crash of the process.
`policy` and the actor are inputs; a graph is a value that is sound or not.

*RuntimeSession.* `call[c]` is the script `managecall_entry.lua` on a channel,
`request[c]` the API request it waits for (or no longer waits for: `TimeOut`),
`session` and `steps` the two tables. `AdvanceRead` is everything `advanceSession`
reads and decides, `AdvanceUpdate` and `RecordStep` are its two writes;
`StartRead`, `StartInsert`, `StartComplete` and `RecordStep` are `startSession`.
`Arrive` is the set of outcomes of the walk of `resolveNextAction`, a function of
the rounds left. A hung-up caller does not stop the script from reporting the
action it is in (`ActionEnds`); `session:ready()` at the head of the loop does
(`LoopNext`). A channel may be sent to an IVR again (`Enter`); a call has one session,
so the second start is refused.

*FlowGraph.* `graph` is chosen once. The code reads nothing and writes nothing while it
walks a graph, so nothing interleaves with a walk; it is cut into steps because a
depth-first traversal and two loops are understood, and proved about, step by step.
`traversal` is `validateIvrGraph`: the nodes it has seen, the nodes whose `visit` has not
returned (`stack`), how many edges of each are done with (`followed`). `Follow` is one
edge, with the depth limit looked at before the nodes seen, and `Return` the end of a `visit`.
It runs for `validate` and, within `simulateGraph`, for `simulate`: `Validate` and
`Simulate` come when the stack is empty. `SimulateNode` and `ResolveNode` are one round
of the loop of the simulator and of `resolveNextAction`, `LeaveLoop` the ends of that one,
`Planned` is `resolveNextNode`. Each step of a path carries the digits that were the last
ones there. Of a simulation that failed nothing but the failure is kept. A session can
start when the graph was validated or simulated, which is what `publish` asks for. `ref`
is what both the service and the runtime look up: whether the prompt, target or schedule
of a node is active, inactive or not given. The hour, the caller's number and the
schedules are the same in simulation and call (`holds`), and a switch looks at the
last digits only: its other inputs go through code that both share.

*PatchReview.* `patch` is the table of requests; a graph is known by the diffs that
went into it; `ai` says that a version carries a lineage that asks for approval.
`AcceptRead`, `LoadVersion`, `NumberVersion`, `InsertVersion` and `MarkAccepted` are the
statements of the accept handler. `CompletePatch` is open to any worker at any
time before a result is there. `made` is history.

*InboundRoutes.* `route` and `version` are tables, `req[p]` the stack of a request.
`UpdateRead` and `UpdateWrite` are the PATCH: which columns it writes depends on
which fields the body carries, and what it writes was computed from the row as
it was read. `WriteRoute` carries the partial unique index. `SupersedeThenPublish`
is shared by publish and rollback, with the two steps of every such
transaction. A route belongs to one tenant for good; the index and the conflict
checks compare routes of one tenant. `FoundForDialplan` is the lookup for the domain
of a tenant, `FoundForCall` the one of a call from a trunk, which knows the number only.
Every tenant may have a row for each number of `Phones`, as the schema allows.

*OutboundDispatch.* `row` is the table (in the order of `created_at`), `creator`
the creations between count and insert, `agent[a]` the locals of one loop (`todo`
the rest of the page it polled), `late` the HTTP calls an agent gave up on and the
API may still execute, `dialed` what FreeSWITCH did. An originate that ends well
need not have been executed: the reply begins with its headers, so the agent never
finds the `-ERR` it looks for at its start. `RuntimeReports` lets any
holder of a runtime token report any status at any time, as the endpoint does.
`answered` is merged with `completed` and `expired` with `failed`: nothing reads
the difference.

*GatewayApply.* `trunk` counts the changes stored, `editor[e]` is a request between
the change and the last INSERT of its fan-out, `row` the table, `agent[n]` and `late`
are as in `OutboundDispatch`; `outcome`, `runs`, `loaded` and `ignored` are what happened
at the node. `ExecuteAnswered` covers `-ERR`: the agent takes any answer for a
success, and `ignored` holds the requests whose rescan was answered and loaded nothing.
An editor gets to the fan-out after its statement has committed, so a
rescan reads that change or a later one.

*WebhookDelivery.* `webhook` and `delivery` are tables; `batch[b]` is one running
`processDueWebhookDeliveries`: what it has claimed and not yet sent (`todo`), the
delivery it works on, whether its POST ended well. `posts` and `handled` are
history and receiver. `Phase` says where a delivery is in the terms of `AtLeastOnce`: one
that is `processing` and in no batch's hands is lost. `Count` and `MarkIgnored` include the errors that
`ignoreDeliveryError` swallows.

*EnterpriseLifecycle.* As `PublishLifecycle`, with the guards of the other
repository: `MarkVersionValidated` and `MarkVersionSimulated` repeat the states they
may leave, a definition is never edited, `RollbackSelect` picks its target after
the rollback's own read, what it takes off becomes `rolled_back`.
`record` and `executed` relate an approval to what was done in its name.

*RetentionPurge.* `kept` and `file` are what is left of rows and files, by category;
`hold` and `audit` are tables; `job[j]` holds the locals of one run:
`due` (what is past the cutoff), `paths`, `picked`, `purged`. `Covers` is the `NOT EXISTS` clause
of each category. The purge statement takes two steps: `PurgeEligible` is its snapshot of
rows and holds, `CommitPurge` its commit, which looks again at a row another transaction
has changed and never at the holds. `SoftDelete` is a user who deletes a voicemail message
(categories in `UserDeleted`); it asks for no hold. `guarded` is history: what was whole,
on no run's list and in no statement under way when a hold was placed.

## 3. Runs

All twelve runs pass.

| Run | Instance | Asks |
|---|---|---|
| `PublishVersions` | 2 versions, a sound and a broken graph, 2 requests, 1 call, no approvals | `PinnedGraphUnchanged`, `ActiveNeverStale`, `RollbackTargetWasLive`, `IsRegister` (the refinement of `PublishRegister`) |
| `PublishApprovals` | 2 versions, 1 graph, 1 approval, 2 requests | `AiPublishNeedsApproval`, `ExecutedOnlyAfterDecision`, `DecisionIsFinal` |
| `RuntimeSession` | 1 call, 7 nodes, 2 entries, 6 actions | `InStep`, `ReplayIsPath`, `CompletedIsFinal`, `HangupEndsScript` |
| `FlowGraph` | a family of graphs of 4 nodes, 1 key, 5 actions | `VerdictMatchesRules`, `PublishedNeverStrays`, `SimulationForetells`, `CallFollowsEdges` |
| `PatchReview` | 2 patches, 2 diffs, 3 versions, 2 requests | `AcceptedIsMade`, `MadeAsReviewed`, `MadeApart` |
| `InboundRoutes` | 2 tenants, 2 did routes, 2 numbers, one of them a phone number, 2 requests | `DidUnambiguous` |
| `InboundVersions` | 1 tenant, 1 route, 2 versions, did and trunk, 2 requests | `ActiveNeverStale`, `BoundNumberIsValue` |
| `OutboundDispatch` | 2 requests, page of 1, 2 agents, 1 creator, 2 faults | `TypeOK`, `DialsOnce` (the refinement of `DialOnce`), `PendingIsTaken` |
| `GatewayApply` | 1 node, 2 editors, 3 changes, 3 requests, page of 2, 2 faults | `AppliesOnce` (the refinement of `ApplyOnce`), `PendingIsClaimed`, `ClaimedIsRecorded`, `StrandedByFaults`, `AppliedOrIgnored` |
| `WebhookDelivery` | 1 webhook, 2 events, 2 batches, 3 attempts, limit of 4 failures, 1 retry | `SentAtLeastOnce` (the refinement of `AtLeastOnce`), `HeldByOne`, `AbandonedWasTried`, `DeliveredIsFinal`, `WaitingIsClaimed` |
| `EnterpriseLifecycle` | 3 versions, 2 requests, 1 approval | `IsRegister` (the refinement of `PublishRegister`), `ActiveIsPublished`, `LiveWasChecked`, `RecordsTellTruth` |
| `RetentionPurge` | 1 recording, 1 voicemail message that its user may delete, 1 hold, 2 runs | `HoldProtects`, `AuditedOnce` |

What they show. Whoever publishes, rolls back or checks, a call never sees its
graph change, and a rollback lands on something that was live; an AI draft is
published only in the name of a request, and that request was decided before
anything is executed. Script, session and steps of a call stay in step through
failing, late and lost requests, and a caller's script ends when the caller has
gone. The depth-first validator decides what its rules say; a graph that passed, or
was only simulated, never leads a caller to an edge that goes nowhere, and a call goes
only along edges that the validator followed. To those who read the active version both
lifecycles are a register of checked versions, although one of them publishes in two
statements. A patch that
is accepted has its version, of the diff that was reviewed. In the domain of a tenant one active
route answers a number. A call is dialed and a rescan sent at most once whatever is
lost, late or crashed, and a fault strands the apply request its agent is at, never the rest
of the page the agent has polled; what is recorded as applied was loaded, unless
FreeSWITCH answered without loading. Two batches never hold one delivery; a delivered event was handled by
its receiver, and an abandoned one was sent as often as promised. What was whole when it
was put on hold, and what no purge had already picked, stays whole while the hold lasts,
but for the row of a voicemail message its user deletes; and a deletion is audited once.

`OutboundDispatch` is the only run with a type invariant; those of the other modules
(`TypeOK`, `PurgeTypeOK`, `GraphTypeOK`) are proved (section 4) and in no run.

### Promises the code does not keep

Each is a property of its module under "not keep", refuted by TLC; the document it comes
from and the line of code are under `findings` in `PROJECT.json`. None of them
has a run of its own. To see a counterexample, take the configuration
named here and replace its properties by the one in the table.

| Property | Configuration | What happens |
|---|---|---|
| `RejectedNeverExecuted` | `PublishApprovals` | `approve` has read the request as pending, another user rejects it, `markApproved` matches no row, its result is ignored, the change is executed |
| `ActiveIsServed` | `PublishVersions` | the live version is validated once more, leaves state `published`, and new calls find no version |
| `AiRollbackNeedsApproval` | `PublishApprovals`, with `MaxVersion = 3` | the transaction of a rollback picks another target than the one the approval rule was asked about |
| `ActiveGraphIsSound` | `PublishVersions` | a version that was only simulated is published (the requirements ask for validation, the API reference allows either) |
| `SessionEnds` | `RuntimeSession` | the script gives up on a request or a reply is lost, and the session stays `running` |
| `SimulationForetellsDigits` | `FlowGraph` | the simulator starts with the scenario's digits, the runtime with none |
| `ValidatedIsPlayable` | `FlowGraph` | a menu without a prompt passes with a warning and the runtime refuses it |
| `ValidatedIsLoopFree` | `FlowGraph` | a cycle of silent nodes passes, for a seen node is not visited again |
| `LineageFollowsDiff` | `PatchReview` | a version copied from an AI draft carries its graph and not its lineage |
| `RejectedLeavesNothing` | `PatchReview` | a patch is rejected while another request has made its version and not yet marked it |
| `AcceptBuildsOnDraft` | `PatchReview` | the diff is applied to the version it was asked for; newer drafts drop out |
| `ActivationReachesLookup` | `InboundVersions` | publish and rollback move a pointer that the lookup does not follow |
| `CallFindsOneTenant` | `InboundRoutes` | two tenants have an active route for one number; the lookup of a call has no tenant to choose by |
| `PhoneIsDid` | `InboundVersions` | two PATCHes, each legal on what it read, bind a number to a trunk route |
| `RouteCapHeld` | `OutboundDispatch`, with two `Creators` | two creations count before either inserts |
| `AppliedIsLoaded` | `GatewayApply` | the node answers `-ERR`, the agent reports `applied` |
| `ClaimedIsSettled` | `WebhookDelivery` | a batch dies after its claim; its rows stay `processing` |
| `HandledOnce` | `WebhookDelivery` | a retry carries no delivery id, so a receiver handles the event again |
| `PurgedIsAudited` | `RetentionPurge` | the worker's default actor is no uuid, the audit INSERT is refused after the rows are gone |
| `HeldRowKept` | `RetentionPurge` | a hold placed while the purge statement runs does not keep the row; nor does any hold keep a voicemail message from its user |
| `HeldFileKept` | `RetentionPurge` | a hold placed after the paths were collected keeps the row; the file goes |
| `PurgedFileIsGone` | `RetentionPurge` | a file that could not be deleted is not tried again |
| `TranscriptGoesWithRecording` | `RetentionPurge`, with `Plan <- DerivedPlan`, `Media = {"recording"}`, `UserDeleted = {}`, `Derived = {"transcript"}` | the recording's period is over, the transcript's is not |

`EnterpriseLifecycle` has two more that are not kept and that no document
promises: `RollbackRecordsTellTruth` (a rollback restores another version than the one
its approval names) and `RolledBackStaysOff` (a rollback brings back what another one
took off between its own statements).

### Bounds

- `MaxVersion`: 2 where drafts, checks and publishes meet, for a second version
  is enough to replace the first, and to roll back to it. 3 where an object has three
  states that were live (`EnterpriseLifecycle`) or where two acceptances and an
  editor compete for numbers (`PatchReview`). `Requests = 2`: every hazard listed is
  between a request and one other. A request slot is used again and again, so
  any number of requests may follow each other.
- `Graphs` of `PublishLifecycle`: two where edits or soundness matter, one where they do
  not. Approvals are never reused, so one approval means at most one asked-for change
  per behaviour; approve and reject of it still race.
- `RuntimeSession`: the graph has a menu that repeats, a switch, an edge to
  nowhere, a cycle of silent nodes, a transfer and a hangup, so each way to end a
  walk occurs; `WalkLimit = 3` (100 in the code) is longer than each path
  without a cycle. `MaxSteps = 6` lets the menu be heard several times; after a hangup
  two more steps are allowed, so the bound never ends the script for it.
  `MaxEntries = 2` is one refused second start.
- `FlowGraph`: the family varies the edges of a menu, a switch, a business hours node
  and a last node over the other nodes, no node and a missing node.
  `MaxDepth = 2` (50 in the code) is shorter than the longest chain of the family, so
  the limit bites; `WalkLimit = 5` (100) is reached by cycles only. `MaxActions = 4`
  bounds the menus a caller repeats. The menu without a prompt occurs with one choice of
  edges: the runtime refuses it wherever it stands.
- `InboundRoutes`: two routes suffice for an ambiguity; one number is a row of
  `phone_numbers` and one is not, for the two are compared differently. The two routes are
  of one tenant or of two, and the lookup is asked for each.
- `MaxRequests = 2`, two agents, page of 1 (`OutboundDispatch`): both agents hold the
  same page, both orders of claiming occur, and the younger request must wait for the
  older. `MaxFaults = 2` is shared by crashes and abandoned calls: a late claim after a
  crash, or two late reports. What happens within a page is left to the
  proof of `DialsOnce`, for every `BatchLimit`, and to the next run.
- `GatewayApply` has a page of 2 and a third request behind it: a fault can hit the first or
  the second of a page, and two faults the same one, or one after the other. It has one
  node: a row names one node, and an agent asks for the rows of its own only. Its
  safety properties are proved for any set of nodes.
- `MaxAttempts = 3` is the default of the table. `FailureLimit = 4` (5 in the
  code, as are 25 for `BatchLimit`) lets a webhook be disabled by the failures of two
  deliveries, or survive those of one. `MaxRetries = 1` lets a delivery go
  through its attempts twice.
- `RetentionPurge`: a recording and a voicemail message have a row with a file each; two runs
  and one hold, of any scope, meet at each statement. The worker's actor is the one
  the code passes, which is no uuid; a run without an actor writes its audit row.
  A third category is too much for TLC; derived data, that has no file, is in
  the proofs, and in `DerivedPlan` of `MCRetentionPurge` for the last row of the table above.

Four runs have no deadlock check, for the system rightly stops: when every call is
over (`RuntimeSession`), the flow has been played (`FlowGraph`), every delivery is
settled (`WebhookDelivery`), every version number is used and none can be
restored (`EnterpriseLifecycle`).

### Fairness

`PublishLifecycle`, `EnterpriseLifecycle`, `PatchReview`, `InboundRoutes` and
`RetentionPurge` promise no liveness and have no fairness: nobody has to decide an
approval or a patch. In `OutboundDispatch` and `GatewayApply` each loop is weakly fair:
its ticker never stops, and every HTTP call (10 s) and ESL command (15 s) has a
deadline. Creation, reports, late arrivals, changes, switches and faults are not
fair. In `WebhookDelivery` each batch is weakly fair (`setInterval` goes on ticking,
also after a restart, and `fetch` is aborted after ten seconds), and so is the
passing of `next_attempt_at`; crashes, lost marks, operators and revocation are not.
In `RuntimeSession` the API goes on or fails, and the script goes on once the caller
has gone: every FreeSWITCH application returns on a hangup. While the caller is
there nothing has to happen.

`PendingIsTaken`, `PendingIsClaimed` and `WaitingIsClaimed` hold under that alone: a
page always begins with the oldest pending request, and every claim consumes an
attempt. `ClaimedIsRecorded` speaks of the time after the last fault: a request
that lost its agent to a fault stays `applying`. `HangupEndsScript` holds because
`session:ready()` is asked at the head of the loop, and only there.

## 4. Proofs

`tlapm` checks eight modules. What is assumed are the named assumptions of
the modules, which only say that bounds are numbers (positive where the code would
be pointless otherwise), that null values are not values, and, of a graph or
a plan that is a constant, its type. Sets of requests, agents, nodes, batches, versions,
calls, routes, patches, recordings, holds and runs are arbitrary.

**PublishLifecycleProofs.** `TypeOK` is not inductive: that a request holds a
version where the next statement uses one depends on `pc` (`TypeInv`). The safety
argument is `SafetyInv`: three facts never become false again - a version that
has left `draft` never returns to it (so its graph and lineage stand still), a
decided approval stays decided, and an execution stays on record - and the
invariant says which request may rely on which of them at which statement. This
is why reading before an await is harmless for these properties: what was read is
stable. It is *not* stable for the properties that fail: the state of the approval
before its decision, the set of superseded versions, the rank of the published
version. Proved from it: `PinnedGraphUnchanged`, `ActiveNeverStale`,
`AiPublishNeedsApproval`, `ExecutedOnlyAfterDecision`, `RollbackTargetWasLive`;
and `DecisionIsFinal` from the guards of the two marks.

**OutboundDispatchProofs.** `DispatchInv`: an agent about to dial holds a request
that is no longer pending and has not been dialed, and holds it alone; a dialed
request is no longer pending. The lemma `Effects` reduces the sixteen actions to
five effects on the status, the holder and the dials of one request; each effect
is a step of `DialOnce` or a stutter (`DialsOnceHolds`).

**BackgroundJobsProofs**, first part: webhooks. `WebhookInv`: whoever holds a delivery
holds it alone and its row is `processing`; the claim has counted one attempt more than was
posted until the POST is made, and as many afterwards; what waits was posted as
often as it was counted. From it: `TypeOK` (no counter passes its limit),
`HeldByOne`, `AbandonedWasTried`, `DeliveredIsFinal`. The refinement of `AtLeastOnce`
(`QueueHolds`) needs the hands of a batch in more detail (`HandsInv`: it works on one
delivery at a time, and a good answer comes from a receiver that has the event) and
`DismissedInv` (only what was given up is dismissed). Then each action is one step of the
abstract queue: a claim takes a set of messages, a crash loses a set, a `POST` sends one,
a mark settles one, puts it back or gives it up, or is a stutter if it fails.

**BackgroundJobsProofs**, second part: retention. `PurgeInv`: what an active hold guards is
on no list of files of a run and in none of its statements under way (`HoldInv`), for both
are filled from a look at the holds and what the hold found in them it does not guard; a row that a run counts as purged is gone
(`GoneInv`) and counted by no other run or audit row (`ApartInv`). From it `HoldProtects`
and `AuditedOnce`.

**GatewayApplyProofs.** `ApplyInv`: the agent that executes a request is that of the
row's node, its row is `applying` and its command has not been run (`HolderInv`); a
result on its way, and one that is recorded, is that of a command which did end so
(`LateInv`, `RowInv`); every change a row or an editor speaks of
is not newer than the trunk, and a request whose rescan was answered had its node load the
trunks at its change or later, or is among the ignored (`CurrentInv`). From it
`AppliedOrIgnored` (`AppliedLoaded`), and step by step the refinement of
`ApplyOnce` (`AppliesOnceHolds`). `FaultsStrand` counts: the requests that are
stranded, together with those a late claim may still strand (`Owed`), are never more
than the faults. A step without a fault adds none to that set, for the request whose late
claim arrives was in it already; a step with a fault adds one at most, the request the
agent is at.

**RuntimeSessionProofs.** `SessionInv` ties the four places where a call is recorded:
what the script performs, what its request has read, the row of the session and
the last step. Between `AdvanceUpdate` and `RecordStep` session and steps
differ; the invariant says by what, and that a request which fails there leaves
a script that has ended. From it `InStep`, `ReplayIsPath` (any graph, any length) and
`CompletedIsFinal`.

**InboundRoutesProofs.** `RouteInv` holds the unique index, `BoundNumberIsValue` and what a
request may believe of what it read: the number and the value of one write belong
together, whatever the row looks like by then. `DidUnambiguous`, of the lookup within a
tenant, follows from index and bound value together; neither is enough alone. `ActiveNeverStale` is
as in `PublishLifecycleProofs`.

**IvrAuthoringProofs**, first part: graphs. `GraphInv` says of the traversal that its stack
is a chain of distinct nodes from the entry (`StackInv`), so that a stack at the limit is itself
the long chain the verdict may fall back on; and that, as long as nothing was found, every
edge followed so far leads to a node seen, of a node that has returned all its edges
(`SeenInv`). When the stack is empty the nodes seen are closed under the edges, hence they hold
all that is in reach: `VerdictMatchesRules`. `TrailInv` writes the simulation as a
sequence of steps, each planned from the one before; `CallInv` keeps a call within reach;
`InStepInv` says that the call has walked a prefix of the trail and stands at its next step.
From these: `PublishedNeverStrays`, `SimulationForetells`, `CallFollowsEdges`. The lemmas
`PlannedEdge`, `CompletedEdge` and `CompletedAsPlanned` are what the three readers of a
graph have to agree on.

**IvrAuthoringProofs**, second part: patches. `PatchInv`: a patch that has a result keeps
it, so what a request read is what the patch still says; a request marks only after it made.
From it `AcceptedIsMade`, `MadeAsReviewed`, `MadeApart`.

**EnterpriseLifecycleProofs.** `LifecycleInv`: a version is checked once and for ever
(`RowInv`), so the check a request saw, or an approval request was created after, still
stands when the version goes live (`RequestInv`, `ApprovalInv`). From it
`ActiveIsPublished`, `LiveWasChecked` (checked is validated or simulated, either is enough to
publish), `RecordsTellTruth` (of publishes; of rollbacks it does not hold), and the refinement of
`PublishRegister` (`RegisterHolds`): publish and restore are its `GoLive`, a first check
is its `Check`, all else is a stutter.

`PublishLifecycleProofs` has a `RegisterHolds` too: what is on the air is there the moment
`PublishCommit` moves the pointer, whatever `PublishSupersede` did before, and a version that was
checked never returns to `draft`, however often it is checked again.

Only model-checked: the liveness properties `PendingIsTaken`, `PendingIsClaimed`,
`ClaimedIsRecorded`, `WaitingIsClaimed` and `HangupEndsScript`, for temporal proofs under
fairness are outside the prover's reach. Every other property of a run is a theorem.
A recursive operator would be outside its reach as well; no module has one.

## 5. Not modelled, and why

- Most of the repository is a web console, generated SDK types, request schemas and
  modules that create, read, update and delete rows of their own. They hold no
  state that two actors share beyond one statement; a model of them would only repeat
  the statement. So the modelled lines are a small share of all lines, and are meant
  to be.
- The content of validation rules beyond edges and references, route choice by
  policy, fraud rules, entitlements: their outcome is an input (creation gets that
  far or not, a target check passes or not).
- `update` of a flow's name and description, audit events of requests and the
  delivery log: nothing reads them back into a decision.
- Deletion of flows and tenants (cascades).
- The lookup of pattern and trunk routes: pattern routes may overlap, and which of
  them answers is the order of one query.
- Prompt generation, AI turns and recording analysis requests: claim and completion are
  those of patches; nothing in the API decides on their result.
- Idempotency keys: the plugin's hooks are registered in a context without
  routes, so no request runs them.
- API keys, authentication, rendering for FreeSWITCH, the MCP servers, setup,
  reporting: reasons are in `PROJECT.json`.

## 6. Plan

Written, each with proofs: `FlowStore`, `PublishLifecycle`; `DialOnce`,
`OutboundDispatch`; `AtLeastOnce`, `WebhookDelivery`; `ApplyOnce`, `GatewayApply`;
`RuntimeSession`; `InboundRoutes`; `RetentionPurge`; `PatchReview`; `FlowGraph`;
`PublishRegister`, which both lifecycles implement, and `EnterpriseLifecycle`.

Next, in this order:

1. The composition of `PatchReview` with `PublishLifecycle`, so that the lineage of a
   draft is followed to the live version.
2. `Parking` and `QueueCallbacks`: small modules on late events that name a slot, and on
   a checked transition written without a guard.
3. An abstract specification of `RuntimeSession`: one walk of the graph, of which script,
   session and steps are three views.

## 7. Running

    tlc -workers 2 -config PublishVersions.cfg MCPublishLifecycle.tla
    tlc -workers 2 -config GatewayApply.cfg MCGatewayApply.tla
    tlc -workers 2 -config FlowGraph.cfg MCFlowGraph.tla
    tlapm PublishLifecycleProofs.tla
    tlapm IvrAuthoringProofs.tla

The other runs go the same way; `PROJECT.json` names the module of each. The largest
(`PublishApprovals`, `InboundRoutes`, `GatewayApply`, `PatchReview`, `RetentionPurge`) take one to
three minutes.

*Slip* comments in the modules mark operators that no action uses: each is a
plausible mistake in the definition that follows it, and `PROJECT.json` lists
which property finds it.
