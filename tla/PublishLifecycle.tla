-------------------------- MODULE PublishLifecycle --------------------------
(***************************************************************************)
(* The publish lifecycle of one IVR flow: concurrent API requests of       *)
(* IvrFlowService and ApprovalService over the rows of FlowStore, and the  *)
(* calls that are pinned to a version of the flow when they start.         *)
(*                                                                         *)
(* A request is a sequence of statements with an await between each two:   *)
(* what it read before an await it still believes after it.  Each request  *)
(* slot runs one request at a time; pc names its next statement.           *)
(***************************************************************************)
EXTENDS FlowStore

CONSTANTS
    Requests,       \* slots of API requests in progress
    Calls           \* calls that may run through the flow

VARIABLES
    approval,       \* approval_requests
    req,            \* the locals of each request
    session         \* the version each call's IVR session is pinned to

vars == <<version, flow, publishRecord, approval, req, session>>

ApprovalRow ==
    [status  : {"absent", "pending", "approved", "rejected"},
     version : Versions \cup {NoVersion},
     action  : {"publish", "rollback"}]

PC == {"idle", "number_version", "insert_version", "mark_validated",
       "mark_simulated", "create_approval", "store_record",
       "publish_supersede", "publish_commit", "rollback_select",
       "rollback_supersede", "rollback_commit", "mark_approved",
       "record_success", "mark_rejected", "record_failed"}

RequestState ==
    [pc       : PC,
     version  : Versions \cup {NoVersion},
     graph    : Graphs \cup {NoGraph},
     ai       : BOOLEAN,
     action   : {"publish", "rollback"},
     approval : Approvals \cup {NoApproval},
     snapshot : SUBSET Versions,   \* published rows the open transaction saw
     recorded : BOOLEAN]           \* reject found a publish record

SessionState == [version : Versions \cup {NoVersion}, graph : Graphs \cup {NoGraph}]

IdleRequest ==
    [pc |-> "idle", version |-> NoVersion, graph |-> NoGraph, ai |-> FALSE,
     action |-> "publish", approval |-> NoApproval, snapshot |-> {},
     recorded |-> FALSE]

NoSession == [version |-> NoVersion, graph |-> NoGraph]

TypeOK ==
    /\ StoreTypeOK
    /\ approval \in [Approvals -> ApprovalRow]
    /\ req \in [Requests -> RequestState]
    /\ session \in [Calls -> SessionState]

Init ==
    /\ StoreInit
    /\ approval = [a \in Approvals |->
                     [status |-> "absent", version |-> NoVersion, action |-> "publish"]]
    /\ req = [p \in Requests |-> IdleRequest]
    /\ session = [c \in Calls |-> NoSession]

At(p, pc)     == req[p].pc = pc
Continue(p, r) == req' = [req EXCEPT ![p] = r]
Goto(p, pc)   == Continue(p, [req[p] EXCEPT !.pc = pc])
Finish(p)     == Continue(p, IdleRequest)

-----------------------------------------------------------------------------
(* Drafts: createVersion and updateVersionDefinition.                      *)

\* findById: without a graph_json the newest version's graph is copied; its
\* metadata is not.
CreateVersionRead(p, graph, byAi) ==
    /\ At(p, "idle")
    /\ \E v \in Versions :
          /\ IsNewest(v, {w \in Versions : Exists(w)})
          /\ Continue(p, [IdleRequest EXCEPT
                !.pc = "number_version",
                !.graph = IF graph = NoGraph THEN version[v].graph ELSE graph,
                !.ai = byAi])
    /\ UNCHANGED <<storeVars, approval, session>>

CreateVersionNumber(p) ==
    /\ At(p, "number_version")
    /\ \E n \in Versions \ {1} :
          /\ IsNextVersionNumber(n)
          /\ Continue(p, [req[p] EXCEPT !.pc = "insert_version", !.version = n])
    /\ UNCHANGED <<storeVars, approval, session>>

CreateVersionInsert(p) ==
    /\ At(p, "insert_version")
    /\ InsertVersion(req[p].version, req[p].graph, req[p].ai)
    /\ Finish(p)
    /\ UNCHANGED <<approval, session>>

\* One guarded UPDATE, so it needs no request slot.
EditDraft(v, graph, byAi) ==
    /\ UpdateVersionDefinition(v, graph, byAi)
    /\ UNCHANGED <<approval, req, session>>

-----------------------------------------------------------------------------
(* Checks: validate and simulate read the version, judge the copy they     *)
(* read, and mark the row if it passed.  (A check that fails only stores   *)
(* its result.)  validateCurrentDraft takes draft_version_id, which        *)
(* publishing leaves as it is, so any existing version may be checked.     *)

ValidateRead(p, v) ==
    /\ At(p, "idle")
    /\ Exists(v)
    /\ version[v].graph \in SoundGraphs
    /\ Continue(p, [IdleRequest EXCEPT !.pc = "mark_validated", !.version = v])
    /\ UNCHANGED <<storeVars, approval, session>>

ValidateMark(p) ==
    /\ At(p, "mark_validated")
    /\ MarkVersionValidated(req[p].version)
    /\ Finish(p)
    /\ UNCHANGED <<approval, session>>

\* A scenario walks one path of the graph, so a graph that would fail
\* validation may still pass simulation.
SimulateRead(p, v) ==
    /\ At(p, "idle")
    /\ Exists(v)
    /\ Continue(p, [IdleRequest EXCEPT !.pc = "mark_simulated", !.version = v])
    /\ UNCHANGED <<storeVars, approval, session>>

SimulateMark(p) ==
    /\ At(p, "mark_simulated")
    /\ MarkVersionSimulated(req[p].version)
    /\ Finish(p)
    /\ UNCHANGED <<approval, session>>

-----------------------------------------------------------------------------
(* publish and rollback of IvrFlowService.                                 *)

Actors == {"tenant_user", "platform_admin", "ai_agent"}

\* Slip: the lineage of the version is not looked at.
RequiresApprovalOfActorOnly(v, actor, policy) ==
    \/ actor = "ai_agent"
    \/ policy /\ actor # "platform_admin"

\* shouldRequireApproval; policy is the row of policies read on the way,
\* which nothing under src writes.
RequiresApproval(v, actor, policy) ==
    \/ version[v].ai
    \/ actor = "ai_agent"
    \/ policy /\ actor # "platform_admin"

PublishRead(p, v, actor, policy) ==
    /\ At(p, "idle")
    /\ version[v].state \in {"validated", "simulated"}
    /\ Continue(p, [IdleRequest EXCEPT
          !.pc = IF RequiresApproval(v, actor, policy)
                 THEN "create_approval" ELSE "publish_supersede",
          !.version = v])
    /\ UNCHANGED <<storeVars, approval, session>>

\* The newest superseded version decides whether an approval is needed; the
\* transaction will look for it again.
RollbackRead(p, actor, policy) ==
    /\ At(p, "idle")
    /\ \E v \in Versions :
          /\ IsNewest(v, Superseded)
          /\ Continue(p, [IdleRequest EXCEPT
                !.pc = IF RequiresApproval(v, actor, policy)
                       THEN "create_approval" ELSE "rollback_select",
                !.version = v,
                !.action = "rollback"])
    /\ UNCHANGED <<storeVars, approval, session>>

CreateApprovalRequest(p, a) ==
    /\ At(p, "create_approval")
    /\ approval[a].status = "absent"
    /\ approval' = [approval EXCEPT ![a] =
          [status |-> "pending", version |-> req[p].version, action |-> req[p].action]]
    /\ Continue(p, [req[p] EXCEPT !.pc = "store_record", !.approval = a])
    /\ UNCHANGED <<storeVars, session>>

StoreRequestRecord(p) ==
    /\ At(p, "store_record")
    /\ StorePendingPublishRecord(req[p].version, req[p].action, req[p].approval)
    /\ Finish(p)
    /\ UNCHANGED <<approval, session>>

\* After the transaction an approval still has its records to update.
AfterTransaction(p) ==
    IF req[p].approval = NoApproval THEN Finish(p)
    ELSE Continue(p, [IdleRequest EXCEPT
            !.pc = "record_success", !.approval = req[p].approval])

\* BEGIN and the start of the UPDATE that supersedes the published version.
PublishSupersede(p) ==
    /\ At(p, "publish_supersede")
    /\ Continue(p, [req[p] EXCEPT !.pc = "publish_commit", !.snapshot = Published])
    /\ UNCHANGED <<storeVars, approval, session>>

PublishCommit(p) ==
    /\ At(p, "publish_commit")
    /\ Activate(req[p].version, req[p].snapshot, "publish", req[p].approval)
    /\ AfterTransaction(p)
    /\ UNCHANGED <<approval, session>>

RollbackSelect(p) ==
    /\ At(p, "rollback_select")
    /\ \E v \in Versions :
          /\ IsNewest(v, Superseded)
          /\ Continue(p, [req[p] EXCEPT !.pc = "rollback_supersede", !.version = v])
    /\ UNCHANGED <<storeVars, approval, session>>

\* Slip: the transaction goes on without a target.
RollbackSelectNull(p) ==
    /\ At(p, "rollback_select")
    /\ Superseded = {}
    /\ Continue(p, [req[p] EXCEPT !.pc = "rollback_supersede", !.version = NoVersion])
    /\ UNCHANGED <<storeVars, approval, session>>

\* Nothing left to roll back to: the transaction returns null.  rollback then
\* fails, approve goes on as if it had succeeded.
RollbackSelectNone(p) ==
    /\ At(p, "rollback_select")
    /\ Superseded = {}
    /\ AfterTransaction(p)
    /\ UNCHANGED <<storeVars, approval, session>>

RollbackSupersede(p) ==
    /\ At(p, "rollback_supersede")
    /\ Continue(p, [req[p] EXCEPT !.pc = "rollback_commit", !.snapshot = Published])
    /\ UNCHANGED <<storeVars, approval, session>>

RollbackCommit(p) ==
    /\ At(p, "rollback_commit")
    /\ Activate(req[p].version, req[p].snapshot, "rollback", req[p].approval)
    /\ AfterTransaction(p)
    /\ UNCHANGED <<approval, session>>

-----------------------------------------------------------------------------
(* approve and reject of ApprovalService.                                  *)

HasPublishRecord(a) == \E r \in publishRecord : r.approval = a

\* Slip: the transaction runs before the approval is marked.
ApproveReadThenPublish(p, a) ==
    /\ At(p, "idle")
    /\ approval[a].status = "pending"
    /\ HasPublishRecord(a)
    /\ Continue(p, [IdleRequest EXCEPT
          !.pc = IF approval[a].action = "publish" THEN "publish_supersede" ELSE "rollback_select",
          !.version = approval[a].version,
          !.action = approval[a].action, !.approval = a])
    /\ UNCHANGED <<storeVars, approval, session>>

\* findById and findAssociatedPublishRecord.  A record is never deleted, so
\* the two reads are one.
ApproveRead(p, a) ==
    /\ At(p, "idle")
    /\ approval[a].status = "pending"
    /\ HasPublishRecord(a)
    /\ Continue(p, [IdleRequest EXCEPT
          !.pc = "mark_approved", !.version = approval[a].version,
          !.action = approval[a].action, !.approval = a])
    /\ UNCHANGED <<storeVars, approval, session>>

\* Slip: the UPDATE has lost its guard.
MarkApprovedAlways(p) ==
    /\ At(p, "mark_approved")
    /\ approval' = [approval EXCEPT ![req[p].approval].status = "approved"]
    /\ Goto(p, IF req[p].action = "publish" THEN "publish_supersede" ELSE "rollback_select")
    /\ UNCHANGED <<storeVars, session>>

\* The UPDATE is guarded by status = 'pending'; that it matched no row is
\* returned and ignored.
MarkApproved(p) ==
    /\ At(p, "mark_approved")
    /\ approval' = [approval EXCEPT ![req[p].approval].status =
                       IF @ = "pending" THEN "approved" ELSE @]
    /\ Goto(p, IF req[p].action = "publish" THEN "publish_supersede" ELSE "rollback_select")
    /\ UNCHANGED <<storeVars, session>>

RecordSuccess(p) ==
    /\ At(p, "record_success")
    /\ UpdatePublishRecordResult(req[p].approval, "success")
    /\ Finish(p)
    /\ UNCHANGED <<approval, session>>

RejectRead(p, a) ==
    /\ At(p, "idle")
    /\ approval[a].status = "pending"
    /\ Continue(p, [IdleRequest EXCEPT
          !.pc = "mark_rejected", !.approval = a, !.recorded = HasPublishRecord(a)])
    /\ UNCHANGED <<storeVars, approval, session>>

\* Here the guard's outcome is checked: a request decided meanwhile is an error.
MarkRejected(p) ==
    /\ At(p, "mark_rejected")
    /\ approval[req[p].approval].status = "pending"
    /\ approval' = [approval EXCEPT ![req[p].approval].status = "rejected"]
    /\ IF req[p].recorded THEN Goto(p, "record_failed") ELSE Finish(p)
    /\ UNCHANGED <<storeVars, session>>

RecordFailed(p) ==
    /\ At(p, "record_failed")
    /\ UpdatePublishRecordResult(req[p].approval, "failed")
    /\ Finish(p)
    /\ UNCHANGED <<approval, session>>

-----------------------------------------------------------------------------
\* A request ends early: an error reply (the unique version number is taken,
\* the approval was decided), a failed or deadlocked statement, whose
\* transaction is rolled back, or a crash of the API process.
Abort(p) ==
    /\ ~ At(p, "idle")
    /\ Finish(p)
    /\ UNCHANGED <<storeVars, approval, session>>

\* startSession pins the call to the version and plans from its graph;
\* advanceSession later loads the graph of that version again.
StartSession(c, v) ==
    /\ session[c] = NoSession
    /\ ServesNewCalls(v)
    /\ session' = [session EXCEPT ![c] = [version |-> v, graph |-> version[v].graph]]
    /\ UNCHANGED <<storeVars, approval, req>>

EndSession(c) ==
    /\ session[c] # NoSession
    /\ session' = [session EXCEPT ![c] = NoSession]
    /\ UNCHANGED <<storeVars, approval, req>>

-----------------------------------------------------------------------------
DraftStep(p) ==
    \/ \E graph \in Graphs \cup {NoGraph}, byAi \in BOOLEAN : CreateVersionRead(p, graph, byAi)
    \/ CreateVersionNumber(p)
    \/ CreateVersionInsert(p)

CheckStep(p) ==
    \/ \E v \in Versions : ValidateRead(p, v) \/ SimulateRead(p, v)
    \/ ValidateMark(p)
    \/ SimulateMark(p)

PublishStep(p) ==
    \/ \E actor \in Actors, policy \in BOOLEAN :
          \/ \E v \in Versions : PublishRead(p, v, actor, policy)
          \/ RollbackRead(p, actor, policy)
    \/ \E a \in Approvals : CreateApprovalRequest(p, a)
    \/ StoreRequestRecord(p)
    \/ PublishSupersede(p)
    \/ PublishCommit(p)
    \/ RollbackSelect(p)
    \/ RollbackSelectNone(p)
    \/ RollbackSupersede(p)
    \/ RollbackCommit(p)

DecisionStep(p) ==
    \/ \E a \in Approvals : ApproveRead(p, a) \/ RejectRead(p, a)
    \/ MarkApproved(p)
    \/ RecordSuccess(p)
    \/ MarkRejected(p)
    \/ RecordFailed(p)

CallStep(c) == (\E v \in Versions : StartSession(c, v)) \/ EndSession(c)

Next ==
    \/ \E v \in Versions, graph \in Graphs, byAi \in BOOLEAN : EditDraft(v, graph, byAi)
    \/ \E p \in Requests :
          DraftStep(p) \/ CheckStep(p) \/ PublishStep(p) \/ DecisionStep(p) \/ Abort(p)
    \/ \E c \in Calls : CallStep(c)

Spec == Init /\ [][Next]_vars

-----------------------------------------------------------------------------
(* Properties.                                                             *)

Executions == {r \in publishRecord : r.origin = "execution"}

\* A call plays one graph from its start to its end: no edit, check, publish
\* or rollback changes the graph of a version a call is pinned to, although
\* advanceSession loads it anew on every step.
PinnedGraphUnchanged ==
    \A c \in Calls : session[c].version # NoVersion =>
        version[session[c].version].graph = session[c].graph

\* The flow never points at a version that was superseded, or that never
\* went live, however publishes, rollbacks and checks interleave.
ActiveNeverStale ==
    flow.active # NoVersion => version[flow.active].state \in {"published", "validated"}

\* What an AI drafted is published only by the decision on an approval
\* request: publish judges the copy of the metadata it read, and the version
\* it activates later has still the same lineage.
AiPublishNeedsApproval ==
    \A r \in Executions :
        r.action = "publish" /\ r.approval = NoApproval => ~ version[r.version].ai

\* A transaction done in the name of an approval request is done after that
\* request was decided, whoever decided it.
ExecutedOnlyAfterDecision ==
    \A r \in Executions : r.approval # NoApproval =>
        approval[r.approval].status \in {"approved", "rejected"}

\* A rollback goes to a version that was live before, even when it selects
\* its target again after another transaction.
RollbackTargetWasLive ==
    \A r \in Executions : r.action = "rollback" =>
        \E s \in Executions : s.action = "publish" /\ s.version = r.version

\* Of concurrent approvers and rejecters one decides; no one overturns it.
DecisionIsFinal ==
    [][\A a \in Approvals : approval[a].status \in {"approved", "rejected"} =>
          approval'[a].status = approval[a].status]_vars

\* To the calls that read the active version it is a register of checked ones.
Register == INSTANCE PublishRegister WITH
    checked <- {v \in Versions : version[v].state \notin {"absent", "draft"}},
    aired   <- {r.version : r \in Executions},
    active  <- flow.active
IsRegister == Register!Spec

(* What the documents promise and the code does not keep.                  *)

\* A rejected request never takes effect.
RejectedNeverExecuted ==
    \A r \in Executions : r.approval # NoApproval =>
        approval[r.approval].status # "rejected"

\* The version the flow points at is the one new calls are served.
ActiveIsServed == flow.active # NoVersion => ServesNewCalls(flow.active)

\* A rollback that needs no approval does not bring back what an AI drafted.
AiRollbackNeedsApproval ==
    \A r \in Executions :
        r.action = "rollback" /\ r.approval = NoApproval => ~ version[r.version].ai

\* Only graphs that pass validation go live.
ActiveGraphIsSound ==
    flow.active # NoVersion => version[flow.active].graph \in SoundGraphs
=============================================================================
