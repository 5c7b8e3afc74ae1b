---------------------- MODULE EnterpriseLifecycleProofs ----------------------
(***************************************************************************)
(* Proofs about the publish lifecycle of an enterprise object, for every   *)
(* number of versions, API requests and approval requests.                 *)
(***************************************************************************)
EXTENDS EnterpriseLifecycle, TLAPS

-----------------------------------------------------------------------------
(* The invariant.  A version is checked once and for ever, so the check    *)
(* that a request saw, or that an approval request was created after,      *)
(* still stands when the version is put on the air, however much later.    *)

LiveStates == {"published", "superseded", "rolled_back"}

\* validated_at and published_at against the state of the row.
RowInv ==
    \A v \in Versions :
        /\ version[v].state \in {"validated", "simulated"} => version[v].checked
        /\ version[v].live => version[v].checked
        /\ version[v].live <=> version[v].state \in LiveStates

ActiveInv == ActiveIsPublished /\ (active = NoVersion <=> \A v \in Versions : ~ version[v].live)

\* A version somebody may put on the air.
MayGoLive(v) == v \in Versions /\ version[v].checked

\* An approval request is for a version that was checked; what is known of it
\* elsewhere, in its record or in a transaction, is known after its creation.
ApprovalInv ==
    \A a \in Approvals :
        /\ approval[a].status # "absent" => MayGoLive(approval[a].version)
        /\ approval[a].status = "absent" => record[a] = "absent"

PublishPC  == {"supersede", "publish"}
RollbackPC == {"select", "roll_back", "restore"}
\* Where the request has its target in hand, and where an approval request.
TargetPC   == {"create_approval", "store_record", "mark_approved"} \cup PublishPC \cup RollbackPC
ApprovalPC == {"store_record", "mark_approved", "record_success", "mark_rejected", "record_failed"}

\* The publish that the approval request asked for.
Asked(r) ==
    /\ approval[r.approval].action = r.action
    /\ approval[r.approval].version = r.version

LocalsOK(r) ==
    /\ r.pc \in TargetPC => MayGoLive(r.version)
    /\ r.pc \in ApprovalPC => r.approval \in Approvals
    /\ r.approval \in Approvals =>
          /\ approval[r.approval].status # "absent"
          /\ r.pc = "mark_approved" => Asked(r)
          /\ r.pc \in PublishPC => Asked(r) /\ r.action = "publish"
          /\ r.pc \in RollbackPC => approval[r.approval].action = "rollback"
          /\ r.pc = "record_success" /\ approval[r.approval].action = "publish" =>
                approval[r.approval].version \in executed[r.approval]

RequestInv == \A p \in Requests : LocalsOK(req[p])

LifecycleInv ==
    /\ TypeOK
    /\ RowInv
    /\ ActiveInv
    /\ ApprovalInv
    /\ RequestInv
    /\ RecordsTellTruth

\* The object before its first version.
LEMMA InitLifecycle == Init => LifecycleInv
<1> SUFFICES ASSUME Init PROVE LifecycleInv
    OBVIOUS
<1>1. IdleRequest \in Request /\ LocalsOK(IdleRequest)
    BY LifecycleAssumption DEF IdleRequest, Request, Actions, LocalsOK, TargetPC, PublishPC, RollbackPC, ApprovalPC
<1>2. TypeOK
    BY <1>1 DEF Init, TypeOK, Row, Approval, Actions
<1>3. RowInv /\ ActiveInv
    BY DEF Init, RowInv, ActiveInv, ActiveIsPublished, LiveStates
<1>4. ApprovalInv /\ RequestInv /\ RecordsTellTruth
    BY <1>1 DEF Init, ApprovalInv, RequestInv, RecordsTellTruth
<1> QED
    BY <1>2, <1>3, <1>4 DEF LifecycleInv

-----------------------------------------------------------------------------
(* What the steps have in common: nothing a request relies on is undone.   *)

CheckKept ==
    \A v \in Versions : version[v].checked => version'[v].checked

ApprovalKept ==
    \A a \in Approvals :
        /\ approval[a].status # "absent" =>
              /\ approval'[a].status # "absent"
              /\ approval'[a].version = approval[a].version
              /\ approval'[a].action = approval[a].action
        /\ executed[a] \subseteq executed'[a]

\* Locals that were in order still are.
LEMMA LocalsKept ==
    ASSUME CheckKept, ApprovalKept, NEW r, LocalsOK(r)
    PROVE  LocalsOK(r)'
BY DEF CheckKept, ApprovalKept, LocalsOK, MayGoLive, Asked

\* One request moves on to locals that are in order.
LEMMA RequestStep ==
    ASSUME LifecycleInv, CheckKept, ApprovalKept,
           NEW p \in Requests, NEW r \in Request, Continue(p, r), LocalsOK(r)'
    PROVE  req' \in [Requests -> Request] /\ RequestInv'
<1>1. /\ req \in [Requests -> Request]
      /\ \A q \in Requests : LocalsOK(req[q])
      /\ req' = [req EXCEPT ![p] = r]
    BY DEF LifecycleInv, TypeOK, RequestInv, Continue
<1>2. ASSUME NEW q \in Requests PROVE LocalsOK(req[q])'
    <2>1. CASE q = p
        <3>1. req'[q] = r
            BY <1>1, <2>1
        <3> QED
            BY <3>1 DEF LocalsOK, MayGoLive, Asked
    <2>2. CASE q # p
        <3>1. req'[q] = req[q] /\ LocalsOK(req[q])
            BY <1>1, <2>2
        <3> QED
            BY <3>1 DEF CheckKept, ApprovalKept, LocalsOK, MayGoLive, Asked
    <2> QED
        BY <2>1, <2>2
<1> QED
    BY <1>1, <1>2 DEF RequestInv

\* A step that reads, and writes the locals of its request alone.
LEMMA LocalStep ==
    ASSUME LifecycleInv, UNCHANGED <<tables, papers>>,
           NEW p \in Requests, NEW r \in Request, Continue(p, r), LocalsOK(r)
    PROVE  LifecycleInv'
<1>1. UNCHANGED <<version, active, approval, record, executed>>
    BY DEF tables, papers
<1>2. CheckKept /\ ApprovalKept
    BY <1>1 DEF CheckKept, ApprovalKept
<1>3. req' \in [Requests -> Request] /\ RequestInv'
    BY <1>2, LocalsKept, RequestStep
<1>4. TypeOK'
    BY <1>1, <1>3 DEF LifecycleInv, TypeOK
<1>5. RowInv' /\ ActiveInv'
    BY <1>1 DEF LifecycleInv, RowInv, ActiveInv, ActiveIsPublished
<1>6. ApprovalInv' /\ RecordsTellTruth'
    BY <1>1 DEF LifecycleInv, ApprovalInv, MayGoLive, RecordsTellTruth
<1> QED
    BY <1>3, <1>4, <1>5, <1>6 DEF LifecycleInv

\* A free slot.
LEMMA IdleType == IdleRequest \in Request /\ LocalsOK(IdleRequest)
BY LifecycleAssumption
   DEF IdleRequest, Request, Actions, LocalsOK, TargetPC, PublishPC, RollbackPC, ApprovalPC

\* A request in progress, with the parts of the invariant its steps rely on.
LEMMA Locals ==
    ASSUME LifecycleInv, NEW p \in Requests
    PROVE  req[p] \in Request /\ LocalsOK(req[p])
BY DEF LifecycleInv, TypeOK, RequestInv

-----------------------------------------------------------------------------
(* Drafts and checks.                                                      *)

LEMMA DraftStep ==
    ASSUME LifecycleInv, NEW v \in Versions, CreateVersion(v) \/ Check(v)
    PROVE  LifecycleInv'
<1>1. /\ UNCHANGED <<active, approval, record, executed, req>>
      /\ \/ /\ version[v].state = "absent"
            /\ version' = [version EXCEPT ![v].state = "draft"]
         \/ /\ version[v].state \in {"draft", "validated", "simulated"}
            /\ \E s \in {"validated", "simulated"} :
                  version' = [version EXCEPT ![v].state = s, ![v].checked = TRUE]
    BY DEF CreateVersion, Check, MarkVersionValidated, MarkVersionSimulated, papers
<1>2. version \in [Versions -> Row] /\ RowInv
    BY DEF LifecycleInv, TypeOK
<1>3. /\ version' \in [Versions -> Row]
      /\ \A w \in Versions \ {v} : version'[w] = version[w]
      /\ ~ version'[v].live /\ ~ version[v].live
      /\ version[v].checked => version'[v].checked
      /\ version'[v].state \in {"validated", "simulated"} => version'[v].checked
      /\ version'[v].state \notin LiveStates /\ version[v].state \notin LiveStates
    BY <1>1, <1>2 DEF Row, RowInv, LiveStates
<1>4. CheckKept /\ ApprovalKept
    BY <1>1, <1>3 DEF CheckKept, ApprovalKept
<1>5. TypeOK'
    BY <1>1, <1>3 DEF LifecycleInv, TypeOK
<1>6. RowInv'
    BY <1>2, <1>3 DEF RowInv
<1>7. ActiveInv'
    BY <1>1, <1>3 DEF LifecycleInv, TypeOK, ActiveInv, ActiveIsPublished, LiveStates
<1>8. ApprovalInv' /\ RecordsTellTruth'
    BY <1>1, <1>4 DEF LifecycleInv, ApprovalInv, MayGoLive, CheckKept, RecordsTellTruth
<1>9. RequestInv'
    BY <1>1, <1>4 DEF LifecycleInv, RequestInv, LocalsOK, MayGoLive, Asked, CheckKept
<1> QED
    BY <1>5, <1>6, <1>7, <1>8, <1>9 DEF LifecycleInv

-----------------------------------------------------------------------------
(* Reads: a request learns what it will write.                             *)

\* The start of a publish or a rollback.
LEMMA StartStep ==
    ASSUME LifecycleInv, NEW p \in Requests, NEW v \in Versions, NEW approvalRequired \in BOOLEAN,
           PublishRead(p, v, approvalRequired) \/ RollbackRead(p, v, approvalRequired)
    PROVE  LifecycleInv'
<1>1. MayGoLive(v)
    BY DEF PublishRead, RollbackRead, IsNewest, InState, LifecycleInv, RowInv, LiveStates, MayGoLive
<1>2. CASE PublishRead(p, v, approvalRequired)
    <2> DEFINE r == [IdleRequest EXCEPT
                       !.pc = IF approvalRequired THEN "create_approval" ELSE "supersede", !.version = v]
    <2>1. Continue(p, r) /\ UNCHANGED <<tables, papers>>
        BY <1>2 DEF PublishRead
    <2>2. r \in Request /\ LocalsOK(r)
        BY <1>1, LifecycleAssumption
           DEF IdleRequest, Request, Actions, LocalsOK, TargetPC, ApprovalPC, MayGoLive
    <2> QED
        BY <2>1, <2>2, LocalStep
<1>3. CASE RollbackRead(p, v, approvalRequired)
    <2> DEFINE r == [IdleRequest EXCEPT
                       !.pc = IF approvalRequired THEN "create_approval" ELSE "select",
                       !.version = v, !.action = "rollback"]
    <2>1. Continue(p, r) /\ UNCHANGED <<tables, papers>>
        BY <1>3 DEF RollbackRead
    <2>2. r \in Request /\ LocalsOK(r)
        BY <1>1, LifecycleAssumption
           DEF IdleRequest, Request, Actions, LocalsOK, TargetPC, ApprovalPC, MayGoLive
    <2> QED
        BY <2>1, <2>2, LocalStep
<1> QED
    BY <1>2, <1>3

\* The rows an UPDATE picks, and the target a rollback chooses again.
LEMMA PickStep ==
    ASSUME LifecycleInv, NEW p \in Requests,
           \/ PublishSupersede(p)
           \/ RollbackPick(p)
           \/ \E v \in Versions : RollbackSelect(p, v)
    PROVE  LifecycleInv'
<1>0. req[p] \in Request /\ LocalsOK(req[p])
    BY Locals
<1>1. CASE PublishSupersede(p)
    <2> DEFINE r == [req[p] EXCEPT !.pc = "publish", !.picked = InState("published")]
    <2>1. At(p, "supersede") /\ Continue(p, r) /\ UNCHANGED <<tables, papers>>
        BY <1>1 DEF PublishSupersede
    <2>2. r \in Request /\ LocalsOK(r)
        BY <1>0, <2>1 DEF At, Request, InState, LocalsOK, Asked, TargetPC, PublishPC, RollbackPC, ApprovalPC
    <2> QED
        BY <2>1, <2>2, LocalStep
<1>2. CASE RollbackPick(p)
    <2> DEFINE r == [req[p] EXCEPT !.pc = "restore", !.picked = InState("published")]
    <2>1. At(p, "roll_back") /\ Continue(p, r) /\ UNCHANGED <<tables, papers>>
        BY <1>2 DEF RollbackPick
    <2>2. r \in Request /\ LocalsOK(r)
        BY <1>0, <2>1 DEF At, Request, InState, LocalsOK, TargetPC, PublishPC, RollbackPC, ApprovalPC
    <2> QED
        BY <2>1, <2>2, LocalStep
<1>3. ASSUME NEW v \in Versions, RollbackSelect(p, v) PROVE LifecycleInv'
    <2> DEFINE r == [req[p] EXCEPT !.pc = "roll_back", !.version = v]
    <2>1. At(p, "select") /\ Continue(p, r) /\ UNCHANGED <<tables, papers>>
        BY <1>3 DEF RollbackSelect
    <2>2. MayGoLive(v)
        BY <1>3 DEF RollbackSelect, IsNewest, InState, LifecycleInv, RowInv, LiveStates, MayGoLive
    <2>3. r \in Request /\ LocalsOK(r)
        BY <1>0, <2>1, <2>2 DEF At, Request, LocalsOK, TargetPC, PublishPC, RollbackPC, ApprovalPC
    <2> QED
        BY <2>1, <2>3, LocalStep
<1> QED
    BY <1>1, <1>2, <1>3

\* A rollback that finds nothing to go back to.
LEMMA SelectNoneStep ==
    ASSUME LifecycleInv, NEW p \in Requests, RollbackSelectNone(p)
    PROVE  LifecycleInv'
<1>0. req[p] \in Request /\ LocalsOK(req[p])
    BY Locals
<1>1. CASE req[p].approval = NoApproval
    BY <1>1, IdleType, LocalStep DEF RollbackSelectNone, Finish
<1>2. CASE req[p].approval # NoApproval
    <2> DEFINE r == [req[p] EXCEPT !.pc = "record_success"]
    <2>1. At(p, "select") /\ Continue(p, r) /\ UNCHANGED <<tables, papers>>
        BY <1>2 DEF RollbackSelectNone, Goto
    <2>2. r \in Request /\ LocalsOK(r)
        BY <1>0, <1>2, <2>1 DEF At, Request, LocalsOK, TargetPC, PublishPC, RollbackPC, ApprovalPC
    <2> QED
        BY <2>1, <2>2, LocalStep
<1> QED
    BY <1>1, <1>2

\* An approver reads what the approval request is for; a rejecter likewise.
LEMMA DecisionReadStep ==
    ASSUME LifecycleInv, NEW p \in Requests, NEW a \in Approvals,
           ApproveRead(p, a) \/ RejectRead(p, a)
    PROVE  LifecycleInv'
<1>1. /\ approval[a] \in Approval /\ a # NoApproval
      /\ approval[a].status = "pending" => MayGoLive(approval[a].version)
    BY LifecycleAssumption DEF LifecycleInv, TypeOK, ApprovalInv
<1>2. CASE ApproveRead(p, a)
    <2> DEFINE r == [IdleRequest EXCEPT !.pc = "mark_approved",
                       !.version = approval[a].version, !.action = approval[a].action, !.approval = a]
    <2>1. Continue(p, r) /\ UNCHANGED <<tables, papers>> /\ approval[a].status = "pending"
        BY <1>2 DEF ApproveRead
    <2>2. r \in Request /\ LocalsOK(r)
        BY <1>1, <2>1 DEF IdleRequest, Request, Approval, LocalsOK, Asked, MayGoLive,
                          TargetPC, PublishPC, RollbackPC, ApprovalPC
    <2> QED
        BY <2>1, <2>2, LocalStep
<1>3. CASE RejectRead(p, a)
    <2> DEFINE v == IF record[a] = "absent" THEN NoVersion ELSE approval[a].version
               r == [IdleRequest EXCEPT !.pc = "mark_rejected", !.approval = a, !.version = v]
    <2>1. Continue(p, r) /\ UNCHANGED <<tables, papers>> /\ approval[a].status = "pending"
        BY <1>3 DEF RejectRead
    <2>2. r \in Request /\ LocalsOK(r)
        BY <1>1, <2>1 DEF IdleRequest, Request, Actions, Approval, LocalsOK,
                          TargetPC, PublishPC, RollbackPC, ApprovalPC
    <2> QED
        BY <2>1, <2>2, LocalStep
<1> QED
    BY <1>2, <1>3

-----------------------------------------------------------------------------
(* Statements on approval requests and publish records.                    *)

\* A statement on the papers that takes no approval request back, and keeps
\* the two parts of the invariant that are about them.
LEMMA PaperStep ==
    ASSUME LifecycleInv, UNCHANGED tables, ApprovalKept,
           NEW p \in Requests, NEW r \in Request, Continue(p, r), LocalsOK(r)',
           approval' \in [Approvals -> Approval],
           record' \in [Approvals -> {"absent", "pending_approval", "success", "failed"}],
           executed' \in [Approvals -> SUBSET Versions],
           ApprovalInv', RecordsTellTruth'
    PROVE  LifecycleInv'
<1>1. UNCHANGED <<version, active>>
    BY DEF tables
<1>2. CheckKept
    BY <1>1 DEF CheckKept
<1>3. req' \in [Requests -> Request] /\ RequestInv'
    BY <1>2, RequestStep
<1>4. TypeOK'
    BY <1>1, <1>3 DEF LifecycleInv, TypeOK
<1>5. RowInv' /\ ActiveInv'
    BY <1>1 DEF LifecycleInv, RowInv, ActiveInv, ActiveIsPublished
<1> QED
    BY <1>3, <1>4, <1>5 DEF LifecycleInv

\* A new approval request: nothing was known of it before.
LEMMA CreateApprovalStep ==
    ASSUME LifecycleInv, NEW p \in Requests, NEW a \in Approvals, CreateApprovalRequest(p, a)
    PROVE  LifecycleInv'
<1> PICK r : r = [req[p] EXCEPT !.pc = "store_record", !.approval = a]
    OBVIOUS
<1>0. /\ req[p] \in Request /\ LocalsOK(req[p]) /\ a # NoApproval
      /\ approval \in [Approvals -> Approval] /\ version \in [Versions -> Row]
    BY Locals, LifecycleAssumption DEF LifecycleInv, TypeOK
<1>1. /\ At(p, "create_approval") /\ approval[a].status = "absent" /\ Continue(p, r)
      /\ approval' = [approval EXCEPT ![a] =
            [status |-> "pending", version |-> req[p].version, action |-> req[p].action]]
      /\ UNCHANGED tables /\ UNCHANGED <<version, record, executed>>
    BY DEF CreateApprovalRequest, tables
<1>2. MayGoLive(req[p].version)
    BY <1>0, <1>1 DEF At, LocalsOK, TargetPC
<1>3. /\ approval' \in [Approvals -> Approval]
      /\ approval'[a].status = "pending" /\ approval'[a].version = req[p].version
      /\ \A b \in Approvals \ {a} : approval'[b] = approval[b]
    BY <1>0, <1>1, <1>2 DEF Approval, Request, MayGoLive
<1>4. ApprovalKept
    BY <1>1, <1>3 DEF ApprovalKept
<1>5. r \in Request
    BY <1>0 DEF Request
<1>6. LocalsOK(r)'
    BY <1>0, <1>1, <1>2, <1>3
       DEF Request, LocalsOK, MayGoLive, TargetPC, PublishPC, RollbackPC, ApprovalPC
<1>7. ApprovalInv'
    BY <1>1, <1>2, <1>3 DEF LifecycleInv, ApprovalInv, MayGoLive
<1>8. RecordsTellTruth'
    BY <1>1, <1>3 DEF LifecycleInv, ApprovalInv, RecordsTellTruth
<1>9. record' \in [Approvals -> {"absent", "pending_approval", "success", "failed"}]
      /\ executed' \in [Approvals -> SUBSET Versions]
    BY <1>1 DEF LifecycleInv, TypeOK
<1> QED
    BY <1>1, <1>3, <1>4, <1>5, <1>6, <1>7, <1>8, <1>9, PaperStep

\* What is recorded of an approval request: that it succeeded, only after the
\* transaction.
LEMMA RecordStep ==
    ASSUME LifecycleInv, NEW p \in Requests,
           StorePendingPublishRecord(p) \/ RecordSuccess(p) \/ RecordFailed(p)
    PROVE  LifecycleInv'
<1> DEFINE a == req[p].approval
<1>0. req[p] \in Request /\ LocalsOK(req[p])
    BY Locals
<1>1. /\ Continue(p, IdleRequest) /\ UNCHANGED <<tables, approval, executed>>
      /\ \E result \in {"pending_approval", "success", "failed"} :
            /\ record' = [record EXCEPT ![a] = result]
            /\ result = "success" => At(p, "record_success")
      /\ req[p].pc \in ApprovalPC
    BY DEF StorePendingPublishRecord, RecordSuccess, RecordFailed, Finish, At, ApprovalPC
<1>2. /\ version' = version
      /\ a \in Approvals /\ approval[a].status # "absent"
      /\ record \in [Approvals -> {"absent", "pending_approval", "success", "failed"}]
    BY <1>0, <1>1 DEF LocalsOK, LifecycleInv, TypeOK, tables
<1>3. /\ record' \in [Approvals -> {"absent", "pending_approval", "success", "failed"}]
      /\ \A b \in Approvals \ {a} : record'[b] = record[b]
      /\ record'[a] = "success" => At(p, "record_success")
    BY <1>1, <1>2
<1>4. ApprovalKept
    BY <1>1 DEF ApprovalKept
<1>5. CheckKept
    BY <1>2 DEF CheckKept
<1>6. LocalsOK(IdleRequest)'
    BY <1>4, <1>5, IdleType, LocalsKept
<1>7. ApprovalInv'
    BY <1>1, <1>2, <1>3 DEF LifecycleInv, ApprovalInv, MayGoLive
<1>8. RecordsTellTruth'
    BY <1>0, <1>1, <1>2, <1>3 DEF LifecycleInv, RecordsTellTruth, LocalsOK, At
<1>9. approval' \in [Approvals -> Approval] /\ executed' \in [Approvals -> SUBSET Versions]
    BY <1>1 DEF LifecycleInv, TypeOK
<1> QED
    BY <1>1, <1>3, <1>4, <1>6, <1>7, <1>8, <1>9, IdleType, PaperStep

\* A decision: the request goes on with what was asked for, or ends.
LEMMA DecisionStep ==
    ASSUME LifecycleInv, NEW p \in Requests, MarkApproved(p) \/ MarkRejected(p)
    PROVE  LifecycleInv'
<1> DEFINE a == req[p].approval
<1>0. /\ req[p] \in Request /\ LocalsOK(req[p])
      /\ approval \in [Approvals -> Approval]
    BY Locals DEF LifecycleInv, TypeOK
<1>1. PICK s \in {"approved", "rejected"} :
         /\ req[p].pc \in ApprovalPC
         /\ approval' = [approval EXCEPT ![a].status = IF @ = "pending" THEN s ELSE @]
         /\ UNCHANGED <<tables, record, executed>>
    BY <1>0 DEF MarkApproved, MarkRejected, At, ApprovalPC
<1>2. a \in Approvals /\ approval[a].status # "absent" /\ version' = version
    BY <1>0, <1>1 DEF LocalsOK, tables
<1>3. /\ approval' \in [Approvals -> Approval]
      /\ \A b \in Approvals :
            /\ approval'[b].version = approval[b].version
            /\ approval'[b].action = approval[b].action
            /\ approval'[b].status = "absent" <=> approval[b].status = "absent"
    BY <1>0, <1>1, <1>2 DEF Approval
<1>4. ApprovalKept /\ CheckKept
    BY <1>1, <1>2, <1>3 DEF ApprovalKept, CheckKept
<1>5. PICK r \in Request : Continue(p, r) /\ LocalsOK(r)
    <2>1. CASE MarkApproved(p)
        <3> DEFINE r == [req[p] EXCEPT !.pc = IF req[p].action = "publish" THEN "supersede" ELSE "select"]
        <3>1. Continue(p, r) /\ At(p, "mark_approved")
            BY <2>1 DEF MarkApproved, Goto
        <3>2. r \in Request /\ LocalsOK(r)
            BY <1>0, <1>2, <3>1 DEF At, Request, Actions, LocalsOK, Asked, TargetPC, PublishPC, RollbackPC, ApprovalPC
        <3> QED
            BY <3>1, <3>2
    <2>2. CASE MarkRejected(p) /\ req[p].version = NoVersion
        BY <2>2, IdleType DEF MarkRejected, Finish
    <2>3. CASE MarkRejected(p) /\ req[p].version # NoVersion
        <3> DEFINE r == [req[p] EXCEPT !.pc = "record_failed"]
        <3>1. Continue(p, r)
            BY <2>3 DEF MarkRejected, Goto
        <3>2. r \in Request /\ LocalsOK(r)
            BY <1>0, <1>2 DEF Request, LocalsOK, TargetPC, PublishPC, RollbackPC, ApprovalPC
        <3> QED
            BY <3>1, <3>2
    <2> QED
        BY <2>1, <2>2, <2>3
<1>6. LocalsOK(r)'
    BY <1>4, <1>5, LocalsKept
<1>7. ApprovalInv' /\ RecordsTellTruth'
    BY <1>1, <1>2, <1>3 DEF LifecycleInv, ApprovalInv, MayGoLive, RecordsTellTruth
<1>8. /\ record' \in [Approvals -> {"absent", "pending_approval", "success", "failed"}]
      /\ executed' \in [Approvals -> SUBSET Versions]
    BY <1>1 DEF LifecycleInv, TypeOK
<1> QED
    BY <1>1, <1>3, <1>4, <1>5, <1>6, <1>7, <1>8, PaperStep

-----------------------------------------------------------------------------
(* The commits.                                                            *)

\* What a transaction makes of the versions, if its target was checked: the
\* target is active and published, nobody loses a mark.
LEMMA ActivateRows ==
    ASSUME LifecycleInv, NEW v, MayGoLive(v), NEW picked \in SUBSET Versions,
           NEW state \in {"superseded", "rolled_back"}, Activate(v, picked, state)
    PROVE  /\ version' \in [Versions -> Row] /\ active' \in Versions
           /\ CheckKept
           /\ RowInv' /\ ActiveInv'
           /\ active' = v /\ version'[v].live /\ version'[v].checked
           /\ \A w \in Versions \ {v} :
                 version'[w].checked = version[w].checked /\ version'[w].live = version[w].live
<1>1. version \in [Versions -> Row] /\ RowInv /\ v \in Versions
    BY DEF LifecycleInv, TypeOK, MayGoLive
<1>2. /\ version' = [w \in Versions |->
            IF w = v THEN [version[w] EXCEPT !.state = "published", !.live = TRUE]
            ELSE IF w \in picked /\ version[w].state = "published"
                 THEN [version[w] EXCEPT !.state = state]
            ELSE version[w]]
      /\ active' = v
    BY DEF Activate
<1>3. /\ version'[v].state = "published" /\ version'[v].live
      /\ version'[v].checked = version[v].checked
      /\ version'[v] \in Row
    BY <1>1, <1>2 DEF Row
<1>4. ASSUME NEW w \in Versions, w # v
      PROVE  /\ version'[w] \in Row
             /\ version'[w].checked = version[w].checked /\ version'[w].live = version[w].live
             /\ \/ version'[w].state = version[w].state
                \/ version[w].state = "published" /\ version'[w].state = state
    BY <1>1, <1>2, <1>4 DEF Row
<1>5. version' \in [Versions -> Row] /\ active' \in Versions /\ active' # NoVersion
    <2>1. \A w \in Versions : version'[w] \in Row
        BY <1>3, <1>4
    <2>2. version' = [w \in Versions |-> version'[w]]
        BY <1>2, Zenon
    <2>3. v # NoVersion
        BY <1>1 DEF Versions, NoVersion
    <2> QED
        BY <1>1, <1>2, <2>1, <2>2, <2>3
<1>6. CheckKept
    BY <1>3, <1>4 DEF CheckKept
<1>7. RowInv'
    <2> SUFFICES ASSUME NEW w \in Versions
                 PROVE  /\ version'[w].state \in {"validated", "simulated"} => version'[w].checked
                        /\ version'[w].live => version'[w].checked
                        /\ version'[w].live <=> version'[w].state \in LiveStates
        BY DEF RowInv
    <2>1. CASE w = v
        BY <1>3, <2>1 DEF MayGoLive, LiveStates
    <2>2. CASE w # v
        BY <1>1, <1>4, <2>2 DEF RowInv, LiveStates
    <2> QED
        BY <2>1, <2>2
<1>8. ActiveInv'
    BY <1>1, <1>2, <1>3, <1>5 DEF ActiveInv, ActiveIsPublished
<1> QED
    BY <1>2, <1>3, <1>4, <1>5, <1>6, <1>7, <1>8 DEF MayGoLive

\* The record a transaction makes of itself, and where its request goes on.
LEMMA ExecuteLocals ==
    ASSUME LifecycleInv, NEW p \in Requests, req[p].pc \in {"publish", "restore"}, Execute(p)
    PROVE  /\ executed' \in [Approvals -> SUBSET Versions]
           /\ \A a \in Approvals : executed[a] \subseteq executed'[a]
           /\ \E r \in Request :
                 /\ Continue(p, r)
                 /\ r.pc \in {"idle", "record_success"}
                 /\ r.pc = "record_success" => r.approval \in Approvals
                 /\ r.approval \in Approvals =>
                       /\ approval[r.approval].status # "absent"
                       /\ approval[r.approval].action = "publish" =>
                             approval[r.approval].version \in executed'[r.approval]
<1> DEFINE a == req[p].approval
<1>0. /\ req[p] \in Request /\ LocalsOK(req[p]) /\ req[p].version \in Versions
      /\ executed \in [Approvals -> SUBSET Versions]
    BY Locals DEF LocalsOK, TargetPC, PublishPC, RollbackPC, MayGoLive, LifecycleInv, TypeOK
<1>1. CASE a = NoApproval
    <2>1. executed' = executed /\ Continue(p, IdleRequest)
        BY <1>1 DEF Execute, Finish
    <2>2. IdleRequest \in Request /\ IdleRequest.pc = "idle" /\ IdleRequest.approval \notin Approvals
        BY IdleType, LifecycleAssumption DEF IdleRequest
    <2> QED
        BY <1>0, <2>1, <2>2
<1>2. CASE a # NoApproval
    <2> DEFINE r == [IdleRequest EXCEPT !.pc = "record_success", !.approval = a]
    <2>1. /\ executed' = [executed EXCEPT ![a] = @ \cup {req[p].version}]
          /\ Continue(p, r)
        BY <1>2 DEF Execute
    <2>2. a \in Approvals
        BY <1>0, <1>2 DEF Request
    <2>3. r \in Request /\ r.pc = "record_success" /\ r.approval = a
        BY <2>2 DEF IdleRequest, Request, Actions
    <2>4. /\ executed' \in [Approvals -> SUBSET Versions]
          /\ \A b \in Approvals : executed[b] \subseteq executed'[b]
          /\ req[p].version \in executed'[a]
        BY <1>0, <2>1, <2>2
    <2>5. /\ approval[a].status # "absent"
          /\ approval[a].action = "publish" => approval[a].version = req[p].version
        BY <1>0, <2>2 DEF LocalsOK, Asked, PublishPC, RollbackPC
    <2>6. \E s \in Request :
             /\ Continue(p, s)
             /\ s.pc \in {"idle", "record_success"}
             /\ s.pc = "record_success" => s.approval \in Approvals
             /\ s.approval \in Approvals =>
                   /\ approval[s.approval].status # "absent"
                   /\ approval[s.approval].action = "publish" =>
                         approval[s.approval].version \in executed'[s.approval]
        <3> r \in Request
            BY <2>3
        <3> WITNESS r \in Request
        <3> HIDE DEF r
        <3> QED
            BY <2>1, <2>2, <2>3, <2>4, <2>5
    <2> QED
        BY <2>4, <2>6
<1> QED
    BY <1>1, <1>2

LEMMA CommitStep ==
    ASSUME LifecycleInv, NEW p \in Requests, PublishCommit(p) \/ RollbackCommit(p)
    PROVE  LifecycleInv'
<1>1. /\ req[p].pc \in {"publish", "restore"} /\ Execute(p) /\ UNCHANGED <<approval, record>>
      /\ \E state \in {"superseded", "rolled_back"} : Activate(req[p].version, req[p].picked, state)
    BY DEF PublishCommit, RollbackCommit, At
<1>2. /\ MayGoLive(req[p].version) /\ req[p].picked \in SUBSET Versions
    BY <1>1, Locals DEF LocalsOK, TargetPC, PublishPC, RollbackPC, Request
<1>3. /\ version' \in [Versions -> Row] /\ active' \in Versions
      /\ CheckKept /\ RowInv' /\ ActiveInv'
    BY <1>1, <1>2, ActivateRows
<1>4. /\ executed' \in [Approvals -> SUBSET Versions]
      /\ \A a \in Approvals : executed[a] \subseteq executed'[a]
    BY <1>1, ExecuteLocals
<1>5. PICK r \in Request :
         /\ Continue(p, r)
         /\ r.pc \in {"idle", "record_success"}
         /\ r.pc = "record_success" => r.approval \in Approvals
         /\ r.approval \in Approvals =>
               /\ approval[r.approval].status # "absent"
               /\ approval[r.approval].action = "publish" =>
                     approval[r.approval].version \in executed'[r.approval]
    BY <1>1, ExecuteLocals
<1>6. ApprovalKept
    BY <1>1, <1>4 DEF ApprovalKept
<1>7. LocalsOK(r)'
    BY <1>1, <1>5 DEF LocalsOK, TargetPC, PublishPC, RollbackPC, ApprovalPC
<1>8. req' \in [Requests -> Request] /\ RequestInv'
    BY <1>3, <1>5, <1>6, <1>7, RequestStep
<1>9. TypeOK'
    BY <1>1, <1>3, <1>4, <1>8 DEF LifecycleInv, TypeOK
<1>10. ApprovalInv' /\ RecordsTellTruth'
    BY <1>1, <1>3, <1>4 DEF LifecycleInv, ApprovalInv, MayGoLive, CheckKept, RecordsTellTruth
<1> QED
    BY <1>3, <1>8, <1>9, <1>10 DEF LifecycleInv

-----------------------------------------------------------------------------
\* Every step keeps the invariant.
LEMMA NextLifecycle == LifecycleInv /\ [Next]_vars => LifecycleInv'
<1> SUFFICES ASSUME LifecycleInv, [Next]_vars PROVE LifecycleInv'
    OBVIOUS
<1>1. ASSUME NEW p \in Requests, Lifecycle(p) PROVE LifecycleInv'
    BY <1>1, StartStep, CreateApprovalStep, RecordStep, PickStep, SelectNoneStep, CommitStep DEF Lifecycle
<1>2. ASSUME NEW p \in Requests, Decide(p) PROVE LifecycleInv'
    BY <1>2, DecisionReadStep, DecisionStep, RecordStep DEF Decide
<1>3. ASSUME NEW p \in Requests, Abort(p) PROVE LifecycleInv'
    BY <1>3, IdleType, LocalStep DEF Abort, Finish
<1>4. CASE UNCHANGED vars
    BY <1>4 DEF vars, tables, papers, LifecycleInv, TypeOK, RowInv, ActiveInv, ActiveIsPublished,
                ApprovalInv, MayGoLive, RequestInv, LocalsOK, Asked, RecordsTellTruth
<1> QED
    BY <1>1, <1>2, <1>3, <1>4, DraftStep DEF Next

\* The invariant holds in every state, however publishes, rollbacks, checks
\* and decisions overlap.
THEOREM LifecycleInvariant == Spec => []LifecycleInv
<1>1. Init => LifecycleInv
    BY InitLifecycle
<1>2. LifecycleInv /\ [Next]_vars => LifecycleInv'
    BY NextLifecycle
<1> QED
    BY <1>1, <1>2, PTL DEF Spec

\* Rows, approval requests and the locals of requests keep their types.
THEOREM TypeCorrect == Spec => []TypeOK
<1>1. LifecycleInv => TypeOK
    BY DEF LifecycleInv
<1> QED
    BY <1>1, LifecycleInvariant, PTL

\* The active pointer never names a version that left the air.
THEOREM ActivePublished == Spec => []ActiveIsPublished
<1>1. LifecycleInv => ActiveIsPublished
    BY DEF LifecycleInv, ActiveInv
<1> QED
    BY <1>1, LifecycleInvariant, PTL

\* Nothing goes on the air that was neither validated nor simulated, by whatever
\* way it gets there.
THEOREM LiveChecked == Spec => []LiveWasChecked
<1>1. LifecycleInv => LiveWasChecked
    BY DEF LifecycleInv, RowInv, ActiveInv, LiveStates, LiveWasChecked
<1> QED
    BY <1>1, LifecycleInvariant, PTL

\* A publish recorded as a success took place.
THEOREM RecordsTrue == Spec => []RecordsTellTruth
<1>1. LifecycleInv => RecordsTellTruth
    BY DEF LifecycleInv
<1> QED
    BY <1>1, LifecycleInvariant, PTL

-----------------------------------------------------------------------------
(* The refinement: to its readers the object is a PublishRegister.         *)

Checked == {v \in Versions : version[v].checked}
Aired   == {v \in Versions : version[v].live}

\* A draft or a check: at most one version more is checked.
LEMMA DraftRegistered ==
    ASSUME LifecycleInv, NEW v \in Versions, CreateVersion(v) \/ Check(v)
    PROVE  [Register!Next]_(Register!vars)
<1>0. version \in [Versions -> Row] /\ active' = active
    BY DEF LifecycleInv, TypeOK, CreateVersion, Check
<1>1. CASE CreateVersion(v)
    <2>1. \A w \in Versions : version'[w].checked = version[w].checked /\ version'[w].live = version[w].live
        BY <1>0, <1>1 DEF CreateVersion, Row
    <2>2. Checked' = Checked /\ Aired' = Aired
        BY <2>1 DEF Checked, Aired
    <2> QED
        BY <1>0, <2>2 DEF Register!vars, Checked, Aired
<1>2. CASE Check(v)
    <2>1. /\ version'[v].checked /\ version'[v].live = version[v].live
          /\ \A w \in Versions \ {v} : version'[w] = version[w]
        BY <1>0, <1>2 DEF Check, MarkVersionValidated, MarkVersionSimulated, Row
    <2>2. Checked' = Checked \cup {v} /\ Aired' = Aired
        BY <2>1 DEF Checked, Aired
    <2> QED
        BY <1>0, <2>2 DEF Register!Next, Register!Check, Checked, Aired
<1> QED
    BY <1>1, <1>2

\* A commit: its target, which was checked, goes on the air.
LEMMA CommitRegistered ==
    ASSUME LifecycleInv, NEW p \in Requests, PublishCommit(p) \/ RollbackCommit(p)
    PROVE  [Register!Next]_(Register!vars)
<1> DEFINE v == req[p].version
<1>1. /\ version \in [Versions -> Row]
      /\ req[p].pc \in {"publish", "restore"}
      /\ \E state \in {"superseded", "rolled_back"} : Activate(v, req[p].picked, state)
    BY DEF LifecycleInv, TypeOK, PublishCommit, RollbackCommit, At
<1>2. MayGoLive(v) /\ v \in Versions /\ version[v].checked /\ req[p].picked \in SUBSET Versions
    BY <1>1, Locals DEF LocalsOK, TargetPC, PublishPC, RollbackPC, MayGoLive, Request
<1>3. /\ active' = v /\ version'[v].live /\ version'[v].checked
      /\ \A w \in Versions \ {v} :
            version'[w].checked = version[w].checked /\ version'[w].live = version[w].live
    BY <1>1, <1>2, ActivateRows
<1>4. v \in Checked /\ Checked' = Checked /\ Aired' = Aired \cup {v}
    BY <1>2, <1>3 DEF Checked, Aired
<1> QED
    BY <1>2, <1>3, <1>4 DEF Register!Next, Register!GoLive, Checked, Aired

\* Every other step leaves the register alone.
LEMMA StepRegistered == LifecycleInv /\ [Next]_vars => [Register!Next]_(Register!vars)
<1> SUFFICES ASSUME LifecycleInv, [Next]_vars PROVE [Register!Next]_(Register!vars)
    OBVIOUS
<1>1. CASE UNCHANGED tables
    BY <1>1 DEF tables, Register!vars
<1>2. ASSUME NEW p \in Requests, Lifecycle(p) \/ Decide(p) \/ Abort(p)
      PROVE  UNCHANGED tables \/ PublishCommit(p) \/ RollbackCommit(p)
    BY <1>2 DEF Lifecycle, Decide, Abort, PublishRead, RollbackRead, CreateApprovalRequest,
                StorePendingPublishRecord, PublishSupersede, RollbackSelect, RollbackSelectNone,
                RollbackPick, ApproveRead, RejectRead, MarkApproved, RecordSuccess, MarkRejected,
                RecordFailed
<1>3. CASE UNCHANGED vars
    BY <1>1, <1>3 DEF vars
<1> QED
    BY <1>1, <1>2, <1>3, DraftRegistered, CommitRegistered DEF Next

\* Whoever reads the active version of the object reads a register of checked
\* versions that changes in single steps.
THEOREM RegisterHolds == Spec => IsRegister
<1>1. Init => Register!Init
    BY DEF Init, Register!Init
<1> QED
    BY <1>1, StepRegistered, LifecycleInvariant, PTL DEF Spec, IsRegister, Register!Spec
=============================================================================
