------------------------ MODULE EnterpriseLifecycle ------------------------
(***************************************************************************)
(* The publish lifecycle of one enterprise object (trunk group, numbering  *)
(* plan, calling policy, site, schedule or line appearance): requests of   *)
(* EnterpriseLifecycleService and ApprovalService over its versions.       *)
(*                                                                         *)
(* It differs from PublishLifecycle in its guards: a check marks only what *)
(* was never live, a definition is never edited, and what a rollback takes *)
(* off the air becomes rolled_back, which no rollback looks for.           *)
(*                                                                         *)
(* The two transactions take two steps each, as in FlowStore: the rows an  *)
(* UPDATE picks, and the commit.                                           *)
(***************************************************************************)
EXTENDS Naturals

CONSTANTS
    MaxVersion,     \* bound: version numbers run from 1 to MaxVersion
    Requests,       \* API requests that run concurrently
    Approvals,      \* identities of approval requests
    NoApproval      \* approval_request_id IS NULL

ASSUME LifecycleAssumption ==
    /\ MaxVersion \in Nat \ {0}
    /\ NoApproval \notin Approvals

VARIABLES
    version,        \* the version table of the object
    active,         \* active_version_id
    approval,       \* approval_requests
    record,         \* the publish record stored with each approval request
    executed,       \* the versions the transactions recorded for each request
    req             \* the locals of each API request

tables == <<version, active>>
papers == <<approval, record, executed>>
vars   == <<tables, papers, req>>

Versions  == 1..MaxVersion
NoVersion == 0
Actions   == {"publish", "rollback"}

\* checked: validated_at or simulated_at is set; live: published_at is.
Row ==
    [state : {"absent", "draft", "validated", "simulated",
              "published", "superseded", "rolled_back"},
     checked : BOOLEAN, live : BOOLEAN]
Approval ==
    [status : {"absent", "pending", "approved", "rejected"},
     version : Versions \cup {NoVersion}, action : Actions]
Request ==
    [pc : {"idle", "create_approval", "store_record", "supersede", "publish",
           "select", "roll_back", "restore", "mark_approved", "record_success",
           "mark_rejected", "record_failed"},
     version : Versions \cup {NoVersion}, action : Actions,
     approval : Approvals \cup {NoApproval}, picked : SUBSET Versions]

IdleRequest == [pc |-> "idle", version |-> NoVersion, action |-> "publish",
                approval |-> NoApproval, picked |-> {}]

TypeOK ==
    /\ version \in [Versions -> Row]
    /\ active \in Versions \cup {NoVersion}
    /\ approval \in [Approvals -> Approval]
    /\ record \in [Approvals -> {"absent", "pending_approval", "success", "failed"}]
    /\ executed \in [Approvals -> SUBSET Versions]
    /\ req \in [Requests -> Request]

Init ==
    /\ version = [v \in Versions |-> [state |-> "absent", checked |-> FALSE, live |-> FALSE]]
    /\ active = NoVersion
    /\ approval = [a \in Approvals |->
                     [status |-> "absent", version |-> NoVersion, action |-> "publish"]]
    /\ record = [a \in Approvals |-> "absent"]
    /\ executed = [a \in Approvals |-> {}]
    /\ req = [p \in Requests |-> IdleRequest]

At(p, pc)      == req[p].pc = pc
Continue(p, r) == req' = [req EXCEPT ![p] = r]
Goto(p, pc)    == Continue(p, [req[p] EXCEPT !.pc = pc])
Finish(p)      == Continue(p, IdleRequest)

InState(s)      == {v \in Versions : version[v].state = s}
IsNewest(v, S)  == v \in S /\ \A w \in S : w <= v

-----------------------------------------------------------------------------
(* Drafts and checks.  What they read cannot change before they write: a   *)
(* number is taken or it is still the next one, a definition stays as it   *)
(* is.  So each is its one guarded statement.                              *)

\* createVersion: nextVersionNumber and the INSERT, refused when the number
\* is taken meanwhile.
CreateVersion(v) ==
    /\ version[v].state = "absent"
    /\ \A w \in Versions : w < v => version[w].state # "absent"
    /\ version' = [version EXCEPT ![v].state = "draft"]
    /\ UNCHANGED <<active, papers, req>>

\* Slip: the UPDATE has lost its condition on the state.
MarkVersionValidatedAny(v) ==
    /\ version[v].state # "absent"
    /\ version' = [version EXCEPT ![v].state = "validated", ![v].checked = TRUE]

\* markVersionValidated; the draft pointer it sets is read by nothing.
MarkVersionValidated(v) ==
    /\ version[v].state \in {"draft", "validated"}
    /\ version' = [version EXCEPT ![v].state = "validated", ![v].checked = TRUE]

MarkVersionSimulated(v) ==
    /\ version[v].state \in {"draft", "validated", "simulated"}
    /\ version' = [version EXCEPT ![v].state = "simulated", ![v].checked = TRUE]

\* validate and simulate, of a version that passes.
Check(v) ==
    /\ MarkVersionValidated(v) \/ MarkVersionSimulated(v)
    /\ UNCHANGED <<active, papers, req>>

-----------------------------------------------------------------------------
(* publish and rollback.  Whether an approval is required depends on the   *)
(* policy, the role and type of the actor and the lineage of the version:  *)
(* an input.                                                               *)

\* Slip: the state of the version is not looked at.
PublishReadAny(p, v, approvalRequired) ==
    /\ At(p, "idle")
    /\ version[v].state # "absent"
    /\ Continue(p, [IdleRequest EXCEPT
          !.pc = IF approvalRequired THEN "create_approval" ELSE "supersede", !.version = v])
    /\ UNCHANGED <<tables, papers>>

\* publish: findVersionById, assertCanPublish, shouldRequireApproval.
PublishRead(p, v, approvalRequired) ==
    /\ At(p, "idle")
    /\ version[v].state \in {"validated", "simulated"}
    /\ Continue(p, [IdleRequest EXCEPT
          !.pc = IF approvalRequired THEN "create_approval" ELSE "supersede", !.version = v])
    /\ UNCHANGED <<tables, papers>>

\* rollback: the newest superseded version is what an approval would be for.
RollbackRead(p, v, approvalRequired) ==
    /\ At(p, "idle")
    /\ IsNewest(v, InState("superseded"))
    /\ Continue(p, [IdleRequest EXCEPT
          !.pc = IF approvalRequired THEN "create_approval" ELSE "select",
          !.version = v, !.action = "rollback"])
    /\ UNCHANGED <<tables, papers>>

CreateApprovalRequest(p, a) ==
    /\ At(p, "create_approval")
    /\ approval[a].status = "absent"
    /\ approval' = [approval EXCEPT ![a] =
          [status |-> "pending", version |-> req[p].version, action |-> req[p].action]]
    /\ Continue(p, [req[p] EXCEPT !.pc = "store_record", !.approval = a])
    /\ UNCHANGED <<tables, record, executed>>

StorePendingPublishRecord(p) ==
    /\ At(p, "store_record")
    /\ record' = [record EXCEPT ![req[p].approval] = "pending_approval"]
    /\ Finish(p)
    /\ UNCHANGED <<tables, approval, executed>>

\* The rows the first UPDATE of publish picks.
PublishSupersede(p) ==
    /\ At(p, "supersede")
    /\ Continue(p, [req[p] EXCEPT !.pc = "publish", !.picked = InState("published")])
    /\ UNCHANGED <<tables, papers>>

\* The transaction's own record, when it runs for an approval request.
Execute(p) ==
    IF req[p].approval = NoApproval THEN executed' = executed /\ Finish(p)
    ELSE /\ executed' = [executed EXCEPT ![req[p].approval] = @ \cup {req[p].version}]
         /\ Continue(p, [IdleRequest EXCEPT
               !.pc = "record_success", !.approval = req[p].approval])

\* What both transactions commit: of the rows picked those that are still
\* published leave the air, then the target goes on it.
Activate(v, picked, state) ==
    /\ version' = [w \in Versions |->
          IF w = v THEN [version[w] EXCEPT !.state = "published", !.live = TRUE]
          ELSE IF w \in picked /\ version[w].state = "published"
               THEN [version[w] EXCEPT !.state = state]
          ELSE version[w]]
    /\ active' = v

PublishCommit(p) ==
    /\ At(p, "publish")
    /\ Activate(req[p].version, req[p].picked, "superseded")
    /\ Execute(p)
    /\ UNCHANGED <<approval, record>>

\* rollback of the repository chooses its target again.
RollbackSelect(p, v) ==
    /\ At(p, "select")
    /\ IsNewest(v, InState("superseded"))
    /\ Continue(p, [req[p] EXCEPT !.pc = "roll_back", !.version = v])
    /\ UNCHANGED <<tables, papers>>

\* Slip: the row that is not there is used all the same.
RollbackSelectNull(p) ==
    /\ At(p, "select")
    /\ InState("superseded") = {}
    /\ Continue(p, [req[p] EXCEPT !.pc = "roll_back", !.version = NoVersion])
    /\ UNCHANGED <<tables, papers>>

\* There is none any more: null, which approve takes for success.
RollbackSelectNone(p) ==
    /\ At(p, "select")
    /\ InState("superseded") = {}
    /\ IF req[p].approval = NoApproval THEN Finish(p) ELSE Goto(p, "record_success")
    /\ UNCHANGED <<tables, papers>>

RollbackPick(p) ==
    /\ At(p, "roll_back")
    /\ Continue(p, [req[p] EXCEPT !.pc = "restore", !.picked = InState("published")])
    /\ UNCHANGED <<tables, papers>>

RollbackCommit(p) ==
    /\ At(p, "restore")
    /\ Activate(req[p].version, req[p].picked, "rolled_back")
    /\ Execute(p)
    /\ UNCHANGED <<approval, record>>

-----------------------------------------------------------------------------
(* ApprovalService, for an enterprise object.                              *)

\* findById and findAssociatedPublishRecord.
ApproveRead(p, a) ==
    /\ At(p, "idle")
    /\ approval[a].status = "pending"
    /\ record[a] # "absent"
    /\ Continue(p, [IdleRequest EXCEPT !.pc = "mark_approved",
          !.version = approval[a].version, !.action = approval[a].action, !.approval = a])
    /\ UNCHANGED <<tables, papers>>

\* Slip: the record is marked when the decision is, and nothing is executed
\* if that fails.
MarkApprovedAsDone(p) ==
    /\ At(p, "mark_approved")
    /\ approval' = [approval EXCEPT ![req[p].approval].status =
                      IF @ = "pending" THEN "approved" ELSE @]
    /\ record' = [record EXCEPT ![req[p].approval] = "success"]
    /\ Goto(p, IF req[p].action = "publish" THEN "supersede" ELSE "select")
    /\ UNCHANGED <<tables, executed>>

\* That the UPDATE matched no row is not looked at.
MarkApproved(p) ==
    /\ At(p, "mark_approved")
    /\ approval' = [approval EXCEPT ![req[p].approval].status =
                      IF @ = "pending" THEN "approved" ELSE @]
    /\ Goto(p, IF req[p].action = "publish" THEN "supersede" ELSE "select")
    /\ UNCHANGED <<tables, record, executed>>

RecordSuccess(p) ==
    /\ At(p, "record_success")
    /\ record' = [record EXCEPT ![req[p].approval] = "success"]
    /\ Finish(p)
    /\ UNCHANGED <<tables, approval, executed>>

RejectRead(p, a) ==
    /\ At(p, "idle")
    /\ approval[a].status = "pending"
    /\ Continue(p, [IdleRequest EXCEPT !.pc = "mark_rejected", !.approval = a,
          !.version = IF record[a] = "absent" THEN NoVersion ELSE approval[a].version])
    /\ UNCHANGED <<tables, papers>>

MarkRejected(p) ==
    /\ At(p, "mark_rejected")
    /\ approval[req[p].approval].status = "pending"
    /\ approval' = [approval EXCEPT ![req[p].approval].status = "rejected"]
    /\ IF req[p].version = NoVersion THEN Finish(p) ELSE Goto(p, "record_failed")
    /\ UNCHANGED <<tables, record, executed>>

RecordFailed(p) ==
    /\ At(p, "record_failed")
    /\ record' = [record EXCEPT ![req[p].approval] = "failed"]
    /\ Finish(p)
    /\ UNCHANGED <<tables, approval, executed>>

\* An error reply, a statement that fails, whose transaction is rolled back,
\* or the end of the API process.
Abort(p) ==
    /\ ~ At(p, "idle")
    /\ Finish(p)
    /\ UNCHANGED <<tables, papers>>

-----------------------------------------------------------------------------
Lifecycle(p) ==
    \/ \E v \in Versions, approvalRequired \in BOOLEAN :
          PublishRead(p, v, approvalRequired) \/ RollbackRead(p, v, approvalRequired)
    \/ \E a \in Approvals : CreateApprovalRequest(p, a)
    \/ StorePendingPublishRecord(p)
    \/ PublishSupersede(p) \/ PublishCommit(p)
    \/ \E v \in Versions : RollbackSelect(p, v)
    \/ RollbackSelectNone(p) \/ RollbackPick(p) \/ RollbackCommit(p)

Decide(p) ==
    \/ \E a \in Approvals : ApproveRead(p, a) \/ RejectRead(p, a)
    \/ MarkApproved(p) \/ RecordSuccess(p) \/ MarkRejected(p) \/ RecordFailed(p)

Next ==
    \/ \E v \in Versions : CreateVersion(v) \/ Check(v)
    \/ \E p \in Requests : Lifecycle(p) \/ Decide(p) \/ Abort(p)

Spec == Init /\ [][Next]_vars

-----------------------------------------------------------------------------
(* Properties.                                                             *)

\* The active pointer names a version in state published, whichever publishes,
\* rollbacks and checks overlap.
ActiveIsPublished == active # NoVersion => version[active].state = "published"

\* What is on the air, or was, was validated or simulated, also when an old
\* approval or a rollback put it there.  That a version was live agrees with
\* the state of its row, and the active pointer is empty only as long as no
\* version was ever live.
LiveWasChecked ==
    /\ \A v \in Versions : version[v].live => version[v].checked
    /\ \A v \in Versions : version[v].live <=>
          version[v].state \in {"published", "superseded", "rolled_back"}
    /\ active = NoVersion <=> \A v \in Versions : ~ version[v].live

\* A publish record that reports success tells of a version that went live in
\* the name of its approval.
RecordsTellTruth == \A a \in Approvals :
    record[a] = "success" /\ approval[a].action = "publish" =>
        approval[a].version \in executed[a]

\* To those who read the active version it is a register of checked versions.
Register == INSTANCE PublishRegister WITH
    checked <- {v \in Versions : version[v].checked},
    aired   <- {v \in Versions : version[v].live}
IsRegister == Register!Spec

\* Not kept, for the target is chosen again: the same of a rollback.
RollbackRecordsTellTruth == \A a \in Approvals :
    record[a] = "success" /\ approval[a].action = "rollback" =>
        approval[a].version \in executed[a]

\* Not kept, for a rollback holds on to its target across its own statements:
\* only a publish brings a rolled back version back.
RolledBackStaysOff == [][\A v \in Versions, p \in Requests :
    RollbackCommit(p) /\ version[v].state = "rolled_back" => version'[v].state = "rolled_back"]_vars
=============================================================================
