----------------------- MODULE PublishLifecycleProofs -----------------------
(***************************************************************************)
(* Proofs that the publish lifecycle keeps its types and its safety        *)
(* properties for every number of versions, graphs, approval requests,     *)
(* concurrent API requests and calls.                                      *)
(***************************************************************************)
EXTENDS PublishLifecycle, TLAPS

-----------------------------------------------------------------------------
(* Type correctness.  TypeOK alone is not inductive: that a request names  *)
(* a version where its next statement needs one depends on where it is.    *)

NoLocals == {"idle", "number_version", "mark_rejected", "record_success", "record_failed"}

LocalsOK(r) ==
    /\ r.pc \in PC \ NoLocals => r.version \in Versions
    /\ r.pc \in {"number_version", "insert_version"} => r.graph \in Graphs
    /\ r.pc \in {"store_record", "mark_approved", "mark_rejected",
                 "record_success", "record_failed"} => r.approval \in Approvals

\* What the steps of requests rely on besides TypeOK.
TypeInv ==
    /\ TypeOK
    /\ \A p \in Requests : LocalsOK(req[p])
    /\ \A a \in Approvals : approval[a].status # "absent" => approval[a].version \in Versions

\* The initial rows and locals have their types.
LEMMA InitTypeInv == Init => TypeInv
<1> SUFFICES ASSUME Init PROVE TypeInv
    OBVIOUS
<1> USE DEF Init, StoreInit, TypeInv, TypeOK, StoreTypeOK
<1>1. 1 \in Versions /\ NoVersion \notin Versions
    BY StoreAssumption DEF Versions, NoVersion
<1>2. StoreTypeOK
    BY <1>1 DEF VersionRow, VersionStates, FlowRow, PublishRow
<1>3. approval \in [Approvals -> ApprovalRow]
    BY DEF ApprovalRow
<1>4. IdleRequest \in RequestState /\ LocalsOK(IdleRequest)
    BY DEF IdleRequest, RequestState, PC, LocalsOK, NoLocals
<1>5. session \in [Calls -> SessionState]
    BY DEF NoSession, SessionState
<1> QED
    BY <1>2, <1>3, <1>4, <1>5

\* A request that moves on to well-formed locals leaves all of them well-formed.
LEMMA ContinueType ==
    ASSUME TypeInv, NEW p \in Requests, NEW r \in RequestState, LocalsOK(r), Continue(p, r)
    PROVE  /\ req' \in [Requests -> RequestState]
           /\ \A q \in Requests : LocalsOK(req'[q])
           /\ req'[p] = r
           /\ \A q \in Requests \ {p} : req'[q] = req[q]
<1> req \in [Requests -> RequestState] /\ \A q \in Requests : LocalsOK(req[q])
    BY DEF TypeInv, TypeOK
<1>1. req' = [req EXCEPT ![p] = r]
    BY DEF Continue
<1>2. req' \in [Requests -> RequestState] /\ req'[p] = r
      /\ \A q \in Requests \ {p} : req'[q] = req[q]
    BY <1>1
<1> QED
    BY <1>2

\* The locals of a slot that is free are well-formed.
LEMMA IdleType == IdleRequest \in RequestState /\ LocalsOK(IdleRequest)
BY DEF IdleRequest, RequestState, PC, LocalsOK, NoLocals

\* A step that only moves a request to well-formed locals keeps the types.
LEMMA LocalStep ==
    ASSUME TypeInv, NEW p \in Requests, NEW r \in RequestState, LocalsOK(r), Continue(p, r),
           UNCHANGED <<storeVars, approval, session>>
    PROVE  TypeInv'
<1>1. req' \in [Requests -> RequestState] /\ \A q \in Requests : LocalsOK(req'[q])
    BY ContinueType
<1>2. \A q \in Requests : LocalsOK(req[q])'
    BY <1>1 DEF LocalsOK, NoLocals, PC, Versions
<1> QED
    BY <1>1, <1>2 DEF TypeInv, TypeOK, StoreTypeOK, storeVars

\* A statement of a request on the rows of FlowStore keeps the types if it
\* keeps those of the rows and of the request.
LEMMA StoreStep ==
    ASSUME TypeInv, NEW p \in Requests, NEW r \in RequestState, LocalsOK(r), Continue(p, r),
           StoreTypeOK', UNCHANGED <<approval, session>>
    PROVE  TypeInv'
<1>1. req' \in [Requests -> RequestState] /\ \A q \in Requests : LocalsOK(req'[q])
    BY ContinueType
<1>2. \A q \in Requests : LocalsOK(req[q])'
    BY <1>1 DEF LocalsOK, NoLocals, PC, Versions
<1> QED
    BY <1>1, <1>2 DEF TypeInv, TypeOK

\* A statement on approval_requests, likewise.
LEMMA ApprovalStep ==
    ASSUME TypeInv, NEW p \in Requests, NEW r \in RequestState, LocalsOK(r), Continue(p, r),
           approval' \in [Approvals -> ApprovalRow],
           \A a \in Approvals : approval'[a].status # "absent" => approval'[a].version \in Versions,
           UNCHANGED <<storeVars, session>>
    PROVE  TypeInv'
<1>1. req' \in [Requests -> RequestState] /\ \A q \in Requests : LocalsOK(req'[q])
    BY ContinueType
<1>2. \A q \in Requests : LocalsOK(req[q])'
    BY <1>1 DEF LocalsOK, NoLocals, PC, Versions
<1> QED
    BY <1>1, <1>2 DEF TypeInv, TypeOK, StoreTypeOK, storeVars

\* The INSERT and the edit of a version keep the types of the rows.
LEMMA WriteTypes ==
    ASSUME StoreTypeOK, NEW v \in Versions, NEW g \in Graphs, NEW ai \in BOOLEAN,
           InsertVersion(v, g, ai) \/ UpdateVersionDefinition(v, g, ai)
    PROVE  StoreTypeOK'
<1> USE DEF StoreTypeOK, VersionRow, VersionStates, FlowRow
<1>1. CASE InsertVersion(v, g, ai)
    BY <1>1 DEF InsertVersion
<1>2. CASE UpdateVersionDefinition(v, g, ai)
    <2>1. (version[v].ai \/ ai) \in BOOLEAN
        OBVIOUS
    <2>2. version' = [version EXCEPT ![v] =
                        [version[v] EXCEPT !.graph = g, !.ai = version[v].ai \/ ai]]
        BY <1>2, Zenon DEF UpdateVersionDefinition
    <2>3. [version[v] EXCEPT !.graph = g, !.ai = version[v].ai \/ ai] \in VersionRow
        BY <2>1
    <2> QED
        BY <1>2, <2>2, <2>3 DEF UpdateVersionDefinition
<1> QED
    BY <1>1, <1>2

\* So do the marks of the checks.
LEMMA MarkTypes ==
    ASSUME StoreTypeOK, NEW v \in Versions, MarkVersionValidated(v) \/ MarkVersionSimulated(v)
    PROVE  StoreTypeOK'
BY DEF StoreTypeOK, VersionRow, VersionStates, FlowRow, MarkVersionValidated, MarkVersionSimulated

\* So do the outcomes of a decision.
LEMMA ResultTypes ==
    ASSUME StoreTypeOK, NEW a, NEW result \in {"success", "failed"},
           UpdatePublishRecordResult(a, result)
    PROVE  StoreTypeOK'
<1>1. \A r \in PublishRow : [r EXCEPT !.result = result] \in PublishRow
    BY DEF PublishRow
<1> QED
    BY <1>1 DEF StoreTypeOK, UpdatePublishRecordResult

\* A request that ends leaves its slot free.
LEMMA FinishStep ==
    ASSUME TypeInv, NEW p \in Requests, Finish(p), UNCHANGED <<approval, session>>, StoreTypeOK'
    PROVE  TypeInv'
BY IdleType, StoreStep DEF Finish

\* After publish or rollback the request is free or holds its approval.
LEMMA AfterTransactionStep ==
    ASSUME TypeInv, NEW p \in Requests, AfterTransaction(p), UNCHANGED <<approval, session>>,
           StoreTypeOK'
    PROVE  TypeInv'
<1>1. CASE req[p].approval = NoApproval
    BY <1>1, FinishStep DEF AfterTransaction
<1>2. CASE req[p].approval # NoApproval
    <2> DEFINE r == [IdleRequest EXCEPT !.pc = "record_success", !.approval = req[p].approval]
    <2>1. req[p].approval \in Approvals
        BY <1>2 DEF TypeInv, TypeOK, RequestState
    <2>2. r \in RequestState /\ LocalsOK(r)
        BY <2>1 DEF IdleRequest, RequestState, PC, LocalsOK, NoLocals
    <2>3. Continue(p, r)
        BY <1>2 DEF AfterTransaction
    <2> QED
        BY <2>2, <2>3, StoreStep
<1> QED
    BY <1>1, <1>2

\* Every step of the draft and check handlers keeps the types.
LEMMA DraftAndCheckTypes ==
    ASSUME TypeInv, NEW p \in Requests, DraftStep(p) \/ CheckStep(p)
    PROVE  TypeInv'
<1> USE DEF storeVars
<1>0. StoreTypeOK /\ req[p] \in RequestState /\ LocalsOK(req[p])
    BY DEF TypeInv, TypeOK
<1>1. ASSUME NEW graph \in Graphs \cup {NoGraph}, NEW byAi \in BOOLEAN,
             CreateVersionRead(p, graph, byAi)
      PROVE  TypeInv'
    <2>1. PICK v \in Versions :
             Continue(p, [IdleRequest EXCEPT
                !.pc = "number_version",
                !.graph = IF graph = NoGraph THEN version[v].graph ELSE graph,
                !.ai = byAi])
        BY <1>1 DEF CreateVersionRead
    <2> DEFINE r == [IdleRequest EXCEPT
                       !.pc = "number_version",
                       !.graph = IF graph = NoGraph THEN version[v].graph ELSE graph,
                       !.ai = byAi]
    <2>2. (IF graph = NoGraph THEN version[v].graph ELSE graph) \in Graphs
        BY <1>0 DEF StoreTypeOK, VersionRow
    <2>3. r \in RequestState /\ LocalsOK(r)
        BY <2>2 DEF IdleRequest, RequestState, PC, LocalsOK, NoLocals
    <2> QED
        BY <1>1, <2>1, <2>3, LocalStep DEF CreateVersionRead
<1>2. CASE CreateVersionNumber(p)
    <2>1. PICK n \in Versions :
             Continue(p, [req[p] EXCEPT !.pc = "insert_version", !.version = n])
        BY <1>2 DEF CreateVersionNumber
    <2>2. [req[p] EXCEPT !.pc = "insert_version", !.version = n] \in RequestState
          /\ LocalsOK([req[p] EXCEPT !.pc = "insert_version", !.version = n])
        BY <1>0, <1>2 DEF CreateVersionNumber, At, RequestState, PC, LocalsOK, NoLocals
    <2> QED
        BY <1>2, <2>1, <2>2, LocalStep DEF CreateVersionNumber
<1>3. CASE CreateVersionInsert(p)
    <2>1. req[p].version \in Versions /\ req[p].graph \in Graphs /\ req[p].ai \in BOOLEAN
        BY <1>0, <1>3 DEF CreateVersionInsert, At, LocalsOK, PC, NoLocals, RequestState
    <2>2. StoreTypeOK'
        BY <1>0, <1>3, <2>1, WriteTypes DEF CreateVersionInsert
    <2> QED
        BY <1>3, <2>2, FinishStep DEF CreateVersionInsert
<1>4. ASSUME NEW v \in Versions, ValidateRead(p, v) \/ SimulateRead(p, v) PROVE TypeInv'
    <2>1. /\ [IdleRequest EXCEPT !.pc = "mark_validated", !.version = v] \in RequestState
          /\ LocalsOK([IdleRequest EXCEPT !.pc = "mark_validated", !.version = v])
          /\ [IdleRequest EXCEPT !.pc = "mark_simulated", !.version = v] \in RequestState
          /\ LocalsOK([IdleRequest EXCEPT !.pc = "mark_simulated", !.version = v])
        BY DEF IdleRequest, RequestState, PC, LocalsOK, NoLocals
    <2> QED
        BY <1>4, <2>1, LocalStep DEF ValidateRead, SimulateRead
<1>5. CASE ValidateMark(p) \/ SimulateMark(p)
    <2>1. req[p].version \in Versions
        BY <1>0, <1>5 DEF ValidateMark, SimulateMark, At, LocalsOK, PC, NoLocals
    <2>2. StoreTypeOK'
        BY <1>0, <1>5, <2>1, MarkTypes DEF ValidateMark, SimulateMark
    <2> QED
        BY <1>5, <2>2, FinishStep DEF ValidateMark, SimulateMark
<1> QED
    BY <1>1, <1>2, <1>3, <1>4, <1>5 DEF DraftStep, CheckStep

\* Every step of publish and rollback keeps the types.
LEMMA PublishTypes ==
    ASSUME TypeInv, NEW p \in Requests, PublishStep(p)
    PROVE  TypeInv'
<1>0. StoreTypeOK /\ req[p] \in RequestState /\ LocalsOK(req[p])
    BY DEF TypeInv, TypeOK
<1>1. ASSUME NEW actor \in Actors, NEW policy \in BOOLEAN, NEW v \in Versions,
             PublishRead(p, v, actor, policy)
      PROVE  TypeInv'
    <2> DEFINE r(pc) == [IdleRequest EXCEPT !.pc = pc, !.version = v]
    <2>1. \A pc \in {"create_approval", "publish_supersede"} :
             r(pc) \in RequestState /\ LocalsOK(r(pc))
        BY DEF IdleRequest, RequestState, PC, LocalsOK, NoLocals
    <2>2. Continue(p, r("create_approval")) \/ Continue(p, r("publish_supersede"))
        BY <1>1 DEF PublishRead
    <2> QED
        BY <1>1, <2>1, <2>2, LocalStep DEF PublishRead
<1>2. ASSUME NEW actor \in Actors, NEW policy \in BOOLEAN, RollbackRead(p, actor, policy)
      PROVE  TypeInv'
    <2> DEFINE r(pc, v) == [IdleRequest EXCEPT !.pc = pc, !.version = v, !.action = "rollback"]
    <2>1. PICK v \in Versions :
             Continue(p, r("create_approval", v)) \/ Continue(p, r("rollback_select", v))
        BY <1>2 DEF RollbackRead
    <2>2. \A pc \in {"create_approval", "rollback_select"} :
             r(pc, v) \in RequestState /\ LocalsOK(r(pc, v))
        BY DEF IdleRequest, RequestState, PC, LocalsOK, NoLocals
    <2> QED
        BY <1>2, <2>1, <2>2, LocalStep DEF RollbackRead
<1>3. ASSUME NEW a \in Approvals, CreateApprovalRequest(p, a) PROVE TypeInv'
    <2> DEFINE r == [req[p] EXCEPT !.pc = "store_record", !.approval = a]
    <2>1. req[p].version \in Versions
        BY <1>0, <1>3 DEF CreateApprovalRequest, At, LocalsOK, PC, NoLocals
    <2>2. r \in RequestState /\ LocalsOK(r)
        BY <1>0, <2>1 DEF RequestState, PC, LocalsOK, NoLocals
    <2>3. /\ approval' \in [Approvals -> ApprovalRow]
          /\ \A b \in Approvals :
                approval'[b].status # "absent" => approval'[b].version \in Versions
        BY <1>0, <1>3, <2>1
        DEF CreateApprovalRequest, TypeInv, TypeOK, ApprovalRow, RequestState
    <2> QED
        BY <1>3, <2>2, <2>3, ApprovalStep DEF CreateApprovalRequest
<1>4. CASE StoreRequestRecord(p)
    <2>1. req[p].version \in Versions /\ req[p].approval \in Approvals
          /\ req[p].action \in {"publish", "rollback"}
        BY <1>0, <1>4 DEF StoreRequestRecord, At, LocalsOK, PC, NoLocals, RequestState
    <2>2. StoreTypeOK'
        BY <1>0, <1>4, <2>1 DEF StoreRequestRecord, StorePendingPublishRecord, StoreTypeOK, PublishRow
    <2> QED
        BY <1>4, <2>2, FinishStep DEF StoreRequestRecord
<1>5. CASE PublishSupersede(p) \/ RollbackSupersede(p)
    <2> DEFINE r(pc) == [req[p] EXCEPT !.pc = pc, !.snapshot = Published]
    <2>1. req[p].version \in Versions
        BY <1>0, <1>5 DEF PublishSupersede, RollbackSupersede, At, LocalsOK, PC, NoLocals
    <2>2. \A pc \in {"publish_commit", "rollback_commit"} :
             r(pc) \in RequestState /\ LocalsOK(r(pc))
        BY <1>0, <2>1 DEF RequestState, PC, LocalsOK, NoLocals, Published
    <2>3. Continue(p, r("publish_commit")) \/ Continue(p, r("rollback_commit"))
        BY <1>5 DEF PublishSupersede, RollbackSupersede
    <2> QED
        BY <1>5, <2>2, <2>3, LocalStep DEF PublishSupersede, RollbackSupersede
<1>6. CASE PublishCommit(p) \/ RollbackCommit(p)
    <2>1. /\ req[p].version \in Versions
          /\ req[p].snapshot \in SUBSET Versions
          /\ req[p].approval \in Approvals \cup {NoApproval}
        BY <1>0, <1>6 DEF PublishCommit, RollbackCommit, At, LocalsOK, PC, NoLocals, RequestState
    <2>2. \E action \in {"publish", "rollback"} :
             Activate(req[p].version, req[p].snapshot, action, req[p].approval)
        BY <1>6 DEF PublishCommit, RollbackCommit
    <2>3. StoreTypeOK'
        BY <1>0, <2>1, <2>2 DEF Activate, StoreTypeOK, VersionRow, VersionStates, FlowRow, PublishRow
    <2> QED
        BY <1>6, <2>3, AfterTransactionStep DEF PublishCommit, RollbackCommit
<1>7. CASE RollbackSelect(p)
    <2>1. PICK v \in Versions :
             Continue(p, [req[p] EXCEPT !.pc = "rollback_supersede", !.version = v])
        BY <1>7 DEF RollbackSelect
    <2>2. [req[p] EXCEPT !.pc = "rollback_supersede", !.version = v] \in RequestState
          /\ LocalsOK([req[p] EXCEPT !.pc = "rollback_supersede", !.version = v])
        BY <1>0 DEF RequestState, PC, LocalsOK, NoLocals
    <2> QED
        BY <1>7, <2>1, <2>2, LocalStep DEF RollbackSelect
<1>8. CASE RollbackSelectNone(p)
    BY <1>0, <1>8, AfterTransactionStep DEF RollbackSelectNone, StoreTypeOK, storeVars
<1> QED
    BY <1>1, <1>2, <1>3, <1>4, <1>5, <1>6, <1>7, <1>8 DEF PublishStep

\* Every step of approve and reject keeps the types.
LEMMA DecisionTypes ==
    ASSUME TypeInv, NEW p \in Requests, DecisionStep(p)
    PROVE  TypeInv'
<1>0. StoreTypeOK /\ req[p] \in RequestState /\ LocalsOK(req[p])
    BY DEF TypeInv, TypeOK
<1>1. ASSUME NEW a \in Approvals, ApproveRead(p, a) PROVE TypeInv'
    <2> DEFINE r == [IdleRequest EXCEPT
                       !.pc = "mark_approved", !.version = approval[a].version,
                       !.action = approval[a].action, !.approval = a]
    <2>1. approval[a].version \in Versions /\ approval[a].action \in {"publish", "rollback"}
        BY <1>1 DEF ApproveRead, TypeInv, TypeOK, ApprovalRow
    <2>2. r \in RequestState /\ LocalsOK(r)
        BY <2>1 DEF IdleRequest, RequestState, PC, LocalsOK, NoLocals
    <2> QED
        BY <1>1, <2>2, LocalStep DEF ApproveRead
<1>2. ASSUME NEW a \in Approvals, RejectRead(p, a) PROVE TypeInv'
    <2> DEFINE r == [IdleRequest EXCEPT
                       !.pc = "mark_rejected", !.approval = a, !.recorded = HasPublishRecord(a)]
    <2>1. HasPublishRecord(a) \in BOOLEAN
        BY DEF HasPublishRecord
    <2>2. r \in RequestState /\ LocalsOK(r)
        BY <2>1 DEF IdleRequest, RequestState, PC, LocalsOK, NoLocals
    <2> QED
        BY <1>2, <2>2, LocalStep DEF RejectRead
<1>3. CASE MarkApproved(p)
    <2> DEFINE r(pc) == [req[p] EXCEPT !.pc = pc]
    <2>1. req[p].version \in Versions
        BY <1>0, <1>3 DEF MarkApproved, At, LocalsOK, PC, NoLocals
    <2>2. \A pc \in {"publish_supersede", "rollback_select"} :
             r(pc) \in RequestState /\ LocalsOK(r(pc))
        BY <1>0, <2>1 DEF RequestState, PC, LocalsOK, NoLocals
    <2>3. Continue(p, r("publish_supersede")) \/ Continue(p, r("rollback_select"))
        BY <1>3 DEF MarkApproved, Goto
    <2>4. /\ approval' \in [Approvals -> ApprovalRow]
          /\ \A b \in Approvals :
                approval'[b].status # "absent" => approval'[b].version \in Versions
        BY <1>0, <1>3 DEF MarkApproved, TypeInv, TypeOK, ApprovalRow
    <2> QED
        BY <1>3, <2>2, <2>3, <2>4, ApprovalStep DEF MarkApproved
<1>4. CASE RecordSuccess(p) \/ RecordFailed(p)
    BY <1>0, <1>4, ResultTypes, FinishStep DEF RecordSuccess, RecordFailed
<1>5. CASE MarkRejected(p)
    <2>1. req[p].approval \in Approvals
        BY <1>0, <1>5 DEF MarkRejected, At, LocalsOK
    <2>2. /\ [req[p] EXCEPT !.pc = "record_failed"] \in RequestState
          /\ LocalsOK([req[p] EXCEPT !.pc = "record_failed"])
        BY <1>0, <2>1 DEF RequestState, PC, LocalsOK, NoLocals
    <2>3. Continue(p, [req[p] EXCEPT !.pc = "record_failed"]) \/ Continue(p, IdleRequest)
        BY <1>5 DEF MarkRejected, Goto, Finish
    <2>4. /\ approval' \in [Approvals -> ApprovalRow]
          /\ \A b \in Approvals :
                approval'[b].status # "absent" => approval'[b].version \in Versions
        BY <1>0, <1>5 DEF MarkRejected, TypeInv, TypeOK, ApprovalRow
    <2> QED
        BY <1>5, <2>2, <2>3, <2>4, IdleType, ApprovalStep DEF MarkRejected
<1> QED
    BY <1>1, <1>2, <1>3, <1>4, <1>5 DEF DecisionStep

\* Every step of the system keeps the types.
LEMMA NextTypeInv == TypeInv /\ [Next]_vars => TypeInv'
<1> SUFFICES ASSUME TypeInv, [Next]_vars PROVE TypeInv'
    OBVIOUS
<1>0. StoreTypeOK
    BY DEF TypeInv, TypeOK
<1>1. ASSUME NEW v \in Versions, NEW graph \in Graphs, NEW byAi \in BOOLEAN,
             EditDraft(v, graph, byAi)
      PROVE  TypeInv'
    <2>1. StoreTypeOK'
        BY <1>0, <1>1, WriteTypes DEF EditDraft
    <2> QED
        BY <1>1, <2>1 DEF EditDraft, TypeInv, TypeOK, LocalsOK, Versions
<1>2. ASSUME NEW p \in Requests, DraftStep(p) \/ CheckStep(p) PROVE TypeInv'
    BY <1>2, DraftAndCheckTypes
<1>3. ASSUME NEW p \in Requests, PublishStep(p) PROVE TypeInv'
    BY <1>3, PublishTypes
<1>4. ASSUME NEW p \in Requests, DecisionStep(p) PROVE TypeInv'
    BY <1>4, DecisionTypes
<1>5. ASSUME NEW p \in Requests, Abort(p) PROVE TypeInv'
    BY <1>0, <1>5, FinishStep DEF Abort, storeVars, StoreTypeOK
<1>6. ASSUME NEW c \in Calls, CallStep(c) PROVE TypeInv'
    <2>1. session' \in [Calls -> SessionState]
        BY <1>0, <1>6 DEF CallStep, StartSession, EndSession, TypeInv, TypeOK, SessionState,
                          NoSession, StoreTypeOK, VersionRow
    <2> QED
        BY <1>6, <2>1 DEF CallStep, StartSession, EndSession, storeVars, TypeInv, TypeOK,
                          StoreTypeOK, LocalsOK, Versions
<1>7. CASE UNCHANGED vars
    BY <1>7 DEF vars, TypeInv, TypeOK, StoreTypeOK, LocalsOK, Versions
<1> QED
    BY <1>1, <1>2, <1>3, <1>4, <1>5, <1>6, <1>7 DEF Next

\* Every row and every request keeps its type, in every reachable state.
THEOREM TypeCorrect == Spec => []TypeOK
<1>1. Spec => []TypeInv
    BY InitTypeInv, NextTypeInv, PTL DEF Spec
<1>2. TypeInv => TypeOK
    BY DEF TypeInv
<1> QED
    BY <1>1, <1>2, PTL

-----------------------------------------------------------------------------
(* Safety.  The argument: a version that has left draft never returns to   *)
(* it, so its graph and its lineage stand still; whoever holds such a      *)
(* version between two statements may go on believing what it read.        *)
(* Likewise a decided approval stays decided, and a version once executed  *)
(* stays on record.  The invariant says which request holds which of the   *)
(* three facts at which statement.                                         *)

LeftDraft(v) == version[v].state \notin {"absent", "draft"}
Decided(a)   == approval[a].status \in {"approved", "rejected"}
WasLive(v)   == \E s \in Executions : s.action = "publish" /\ s.version = v

HoldsChecked == {"create_approval", "store_record", "mark_approved", "publish_supersede",
                 "publish_commit", "rollback_supersede", "rollback_commit"}
Deciding     == {"publish_supersede", "publish_commit", "rollback_select",
                 "rollback_supersede", "rollback_commit"}

RequestInv(p) ==
    /\ req[p].pc \in HoldsChecked => LeftDraft(req[p].version)
    /\ req[p].pc \in {"publish_supersede", "publish_commit"} /\ req[p].approval = NoApproval
          => ~ version[req[p].version].ai
    /\ req[p].pc \in Deciding /\ req[p].approval # NoApproval => Decided(req[p].approval)
    /\ req[p].pc = "mark_approved" => approval[req[p].approval].status # "absent"
    /\ req[p].pc \in {"rollback_supersede", "rollback_commit"} => WasLive(req[p].version)

RecordInv(r) ==
    /\ LeftDraft(r.version)
    /\ r.action = "publish" /\ r.approval = NoApproval => ~ version[r.version].ai
    /\ r.approval # NoApproval => Decided(r.approval)
    /\ r.action = "rollback" => WasLive(r.version)

VersionInv(v)  == version[v].state \in {"published", "superseded"} => WasLive(v)
ApprovalInv(a) == approval[a].status # "absent" => LeftDraft(approval[a].version)
SessionInv(c)  ==
    session[c].version # NoVersion =>
        /\ LeftDraft(session[c].version)
        /\ version[session[c].version].graph = session[c].graph

SafetyInv ==
    /\ TypeInv
    /\ \A p \in Requests : RequestInv(p)
    /\ \A r \in Executions : RecordInv(r)
    /\ \A v \in Versions : VersionInv(v)
    /\ \A a \in Approvals : ApprovalInv(a)
    /\ \A c \in Calls : SessionInv(c)
    /\ ActiveNeverStale

\* No row has left draft, no request holds anything, in the initial state.
LEMMA InitSafety == Init => SafetyInv
<1> SUFFICES ASSUME Init PROVE SafetyInv
    OBVIOUS
<1> USE DEF Init, StoreInit
<1>1. TypeInv
    BY InitTypeInv
<1>2. \A p \in Requests : RequestInv(p)
    BY DEF IdleRequest, RequestInv, HoldsChecked, Deciding
<1>3. Executions = {}
    BY DEF Executions
<1>4. \A v \in Versions : VersionInv(v)
    BY DEF VersionInv, Versions
<1>5. \A a \in Approvals : ApprovalInv(a)
    BY DEF ApprovalInv
<1>6. \A c \in Calls : SessionInv(c)
    BY DEF SessionInv, NoSession
<1>7. ActiveNeverStale
    BY DEF ActiveNeverStale
<1> QED
    BY <1>1, <1>2, <1>3, <1>4, <1>5, <1>6, <1>7 DEF SafetyInv

\* The commit of the transaction a request has open.
Commit(p, action) ==
    /\ action = "publish" => At(p, "publish_commit")
    /\ action = "rollback" => At(p, "rollback_commit")
    /\ req[p].version \in Versions
    /\ Activate(req[p].version, req[p].snapshot, action, req[p].approval)

StoreEffect ==
    \/ UNCHANGED storeVars
    \/ \E v \in Versions, g \in Graphs, ai \in BOOLEAN :
          InsertVersion(v, g, ai) \/ UpdateVersionDefinition(v, g, ai)
    \/ \E v \in Versions : MarkVersionValidated(v) \/ MarkVersionSimulated(v)
    \/ \E v \in Versions, action \in {"publish", "rollback"}, a \in Approvals :
          StorePendingPublishRecord(v, action, a)
    \/ \E a \in Approvals, result \in {"success", "failed"} :
          UpdatePublishRecordResult(a, result)
    \/ \E p \in Requests, action \in {"publish", "rollback"} : Commit(p, action)

\* A step of the system does at most one statement on the rows of the store.
LEMMA StoreEffects ==
    ASSUME TypeInv, [Next]_vars
    PROVE  StoreEffect
<1>1. ASSUME NEW v \in Versions, NEW graph \in Graphs, NEW byAi \in BOOLEAN,
             EditDraft(v, graph, byAi)
      PROVE  StoreEffect
    BY <1>1 DEF EditDraft, StoreEffect
<1>2. ASSUME NEW p \in Requests, DraftStep(p) PROVE StoreEffect
    <2>1. CASE CreateVersionInsert(p)
        <3>1. req[p].version \in Versions /\ req[p].graph \in Graphs /\ req[p].ai \in BOOLEAN
            BY <2>1 DEF CreateVersionInsert, At, TypeInv, TypeOK, RequestState, LocalsOK,
                        PC, NoLocals
        <3> QED
            BY <2>1, <3>1 DEF CreateVersionInsert, StoreEffect
    <2>2. CASE ~ CreateVersionInsert(p)
        BY <1>2, <2>2 DEF DraftStep, CreateVersionRead, CreateVersionNumber, StoreEffect
    <2> QED
        BY <2>1, <2>2
<1>3. ASSUME NEW p \in Requests, CheckStep(p) PROVE StoreEffect
    <2>1. CASE ValidateMark(p) \/ SimulateMark(p)
        <3>1. req[p].version \in Versions
            BY <2>1 DEF ValidateMark, SimulateMark, At, TypeInv, LocalsOK, PC, NoLocals
        <3> QED
            BY <2>1, <3>1 DEF ValidateMark, SimulateMark, StoreEffect
    <2>2. CASE ~ (ValidateMark(p) \/ SimulateMark(p))
        BY <1>3, <2>2 DEF CheckStep, ValidateRead, SimulateRead, StoreEffect
    <2> QED
        BY <2>1, <2>2
<1>4. ASSUME NEW p \in Requests, PublishStep(p) PROVE StoreEffect
    <2>1. CASE StoreRequestRecord(p)
        <3>1. req[p].version \in Versions /\ req[p].approval \in Approvals
              /\ req[p].action \in {"publish", "rollback"}
            BY <2>1 DEF StoreRequestRecord, At, TypeInv, TypeOK, RequestState, LocalsOK,
                        PC, NoLocals
        <3> QED
            BY <2>1, <3>1 DEF StoreRequestRecord, StoreEffect
    <2>2. CASE PublishCommit(p) \/ RollbackCommit(p)
        <3>1. req[p].version \in Versions
            BY <2>2 DEF PublishCommit, RollbackCommit, At, TypeInv, LocalsOK, PC, NoLocals
        <3>2. \E action \in {"publish", "rollback"} : Commit(p, action)
            BY <2>2, <3>1 DEF PublishCommit, RollbackCommit, Commit
        <3> QED
            BY <3>2 DEF StoreEffect
    <2>3. CASE ~ (StoreRequestRecord(p) \/ PublishCommit(p) \/ RollbackCommit(p))
        BY <1>4, <2>3 DEF PublishStep, PublishRead, RollbackRead, CreateApprovalRequest,
              PublishSupersede, RollbackSelect, RollbackSelectNone, RollbackSupersede, StoreEffect
    <2> QED
        BY <2>1, <2>2, <2>3
<1>5. ASSUME NEW p \in Requests, DecisionStep(p) PROVE StoreEffect
    <2>1. CASE RecordSuccess(p) \/ RecordFailed(p)
        <3>1. req[p].approval \in Approvals
            BY <2>1 DEF RecordSuccess, RecordFailed, At, TypeInv, LocalsOK
        <3> QED
            BY <2>1, <3>1 DEF RecordSuccess, RecordFailed, StoreEffect
    <2>2. CASE ~ (RecordSuccess(p) \/ RecordFailed(p))
        BY <1>5, <2>2 DEF DecisionStep, ApproveRead, RejectRead, MarkApproved, MarkRejected,
                          StoreEffect
    <2> QED
        BY <2>1, <2>2
<1>6. ASSUME NEW p \in Requests, Abort(p) PROVE StoreEffect
    BY <1>6 DEF Abort, StoreEffect
<1>7. ASSUME NEW c \in Calls, CallStep(c) PROVE StoreEffect
    BY <1>7 DEF CallStep, StartSession, EndSession, StoreEffect
<1>8. CASE UNCHANGED vars
    BY <1>8 DEF vars, storeVars, StoreEffect
<1> QED
    BY <1>1, <1>2, <1>3, <1>4, <1>5, <1>6, <1>7, <1>8 DEF Next

\* A version that has left draft never returns; what it holds stands still.
LEMMA FrozenStep ==
    ASSUME TypeInv, StoreEffect, NEW v \in Versions, LeftDraft(v)
    PROVE  /\ LeftDraft(v)'
           /\ version'[v].graph = version[v].graph
           /\ version'[v].ai = version[v].ai
<1> USE DEF LeftDraft
<1>0. version \in [Versions -> VersionRow] /\ version[v].state \in VersionStates
    BY DEF TypeInv, TypeOK, StoreTypeOK, VersionRow
<1>1. CASE UNCHANGED storeVars
    BY <1>1 DEF storeVars
<1>2. ASSUME NEW w \in Versions, NEW g \in Graphs, NEW ai \in BOOLEAN,
             InsertVersion(w, g, ai) \/ UpdateVersionDefinition(w, g, ai)
      PROVE  version'[v] = version[v]
    <2>1. w # v
        BY <1>2 DEF InsertVersion, UpdateVersionDefinition, Exists
    <2>2. CASE InsertVersion(w, g, ai)
        BY <1>0, <2>1, <2>2 DEF InsertVersion
    <2>3. CASE UpdateVersionDefinition(w, g, ai)
        BY <1>0, <2>1, <2>3, Zenon DEF UpdateVersionDefinition
    <2> QED
        BY <1>2, <2>2, <2>3
<1>3. ASSUME NEW w \in Versions, MarkVersionValidated(w) \/ MarkVersionSimulated(w)
      PROVE  LeftDraft(v)' /\ version'[v].graph = version[v].graph /\ version'[v].ai = version[v].ai
    BY <1>0, <1>3 DEF MarkVersionValidated, MarkVersionSimulated, VersionRow
<1>4. ASSUME NEW p \in Requests, NEW action \in {"publish", "rollback"}, Commit(p, action)
      PROVE  LeftDraft(v)' /\ version'[v].graph = version[v].graph /\ version'[v].ai = version[v].ai
    BY <1>0, <1>4 DEF Commit, Activate, VersionRow
<1>5. CASE version' = version
    BY <1>5
<1> QED
    BY <1>1, <1>2, <1>3, <1>4, <1>5
    DEF StoreEffect, StorePendingPublishRecord, UpdatePublishRecordResult

\* An approval request is created once, decided once, and keeps its subject.
LEMMA ApprovalFrozen ==
    ASSUME TypeInv, [Next]_vars, NEW a \in Approvals, approval[a].status # "absent"
    PROVE  /\ approval'[a].status # "absent"
           /\ approval'[a].version = approval[a].version
           /\ Decided(a) => approval'[a].status = approval[a].status
<1> DEFINE Kept == /\ approval'[a].status # "absent"
                   /\ approval'[a].version = approval[a].version
                   /\ Decided(a) => approval'[a].status = approval[a].status
<1>0. approval \in [Approvals -> ApprovalRow]
    BY DEF TypeInv, TypeOK
<1>1. ASSUME NEW p \in Requests, NEW b \in Approvals, CreateApprovalRequest(p, b) PROVE Kept
    BY <1>0, <1>1 DEF CreateApprovalRequest
<1>2. ASSUME NEW p \in Requests, MarkApproved(p) PROVE Kept
    BY <1>0, <1>2 DEF MarkApproved, Decided, ApprovalRow
<1>3. ASSUME NEW p \in Requests, MarkRejected(p) PROVE Kept
    BY <1>0, <1>3 DEF MarkRejected, Decided, ApprovalRow
<1>4. ASSUME NEW p \in Requests, PublishStep(p),
             ~ \E b \in Approvals : CreateApprovalRequest(p, b)
      PROVE  approval' = approval
    BY <1>4 DEF PublishStep, PublishRead, RollbackRead, StoreRequestRecord, PublishSupersede,
          PublishCommit, RollbackSelect, RollbackSelectNone, RollbackSupersede, RollbackCommit
<1>5. ASSUME NEW p \in Requests, DecisionStep(p), ~ MarkApproved(p), ~ MarkRejected(p)
      PROVE  approval' = approval
    BY <1>5 DEF DecisionStep, ApproveRead, RejectRead, RecordSuccess, RecordFailed
<1>6. ASSUME NEW p \in Requests, DraftStep(p) \/ CheckStep(p) \/ Abort(p)
      PROVE  approval' = approval
    BY <1>6 DEF DraftStep, CreateVersionRead, CreateVersionNumber, CreateVersionInsert, CheckStep,
          ValidateRead, ValidateMark, SimulateRead, SimulateMark, Abort
<1>7. ASSUME NEW c \in Calls, CallStep(c) PROVE approval' = approval
    BY <1>7 DEF CallStep, StartSession, EndSession
<1>8. ASSUME NEW v \in Versions, NEW graph \in Graphs, NEW byAi \in BOOLEAN,
             EditDraft(v, graph, byAi)
      PROVE  approval' = approval
    BY <1>8 DEF EditDraft
<1>9. approval' = approval => Kept
    OBVIOUS
<1> QED
    BY <1>1, <1>2, <1>3, <1>4, <1>5, <1>6, <1>7, <1>8, <1>9 DEF Next, vars

\* A decision, once taken, is never changed.
THEOREM DecisionFinal == Spec => DecisionIsFinal
<1>1. TypeInv /\ [Next]_vars =>
        [\A a \in Approvals : approval[a].status \in {"approved", "rejected"} =>
            approval'[a].status = approval[a].status]_vars
    BY ApprovalFrozen DEF Decided
<1>2. Spec => []TypeInv
    BY InitTypeInv, NextTypeInv, PTL DEF Spec
<1> QED
    BY <1>1, <1>2, PTL DEF Spec, DecisionIsFinal

SameExecution(r, s) ==
    r.version = s.version /\ r.action = s.action /\ r.approval = s.approval

\* Executions stay on record, and a commit adds the one it is.
LEMMA ExecutionStep ==
    ASSUME TypeInv, StoreEffect
    PROVE  /\ \A s \in Executions : \E r \in Executions' : SameExecution(r, s)
           /\ \A r \in Executions' :
                 \/ \E s \in Executions : SameExecution(r, s)
                 \/ \E p \in Requests : /\ Commit(p, r.action)
                                       /\ r.version = req[p].version
                                       /\ r.approval = req[p].approval
           /\ \A p \in Requests, action \in {"publish", "rollback"} :
                 Commit(p, action) => \E r \in Executions' : r.version = req[p].version
                                                           /\ r.action = action
<1> USE DEF Executions, SameExecution
<1> DEFINE Goal == /\ \A s \in Executions : \E r \in Executions' : SameExecution(r, s)
                   /\ \A r \in Executions' :
                        \/ \E s \in Executions : SameExecution(r, s)
                        \/ \E p \in Requests : /\ Commit(p, r.action)
                                              /\ r.version = req[p].version
                                              /\ r.approval = req[p].approval
<1>1. ASSUME publishRecord' = publishRecord PROVE Goal
    <2>1. Executions' = Executions
        BY <1>1
    <2> QED
        BY <2>1
<1>2. ASSUME NEW v \in Versions, NEW act \in {"publish", "rollback"}, NEW a \in Approvals,
             StorePendingPublishRecord(v, act, a)
      PROVE  Executions' = Executions
    BY <1>2 DEF StorePendingPublishRecord
<1>3. ASSUME NEW a \in Approvals, NEW result \in {"success", "failed"},
             UpdatePublishRecordResult(a, result)
      PROVE  Goal
    <2> DEFINE upd(r) == IF r.approval = a THEN [r EXCEPT !.result = result] ELSE r
    <2>1. publishRecord' = {upd(r) : r \in publishRecord}
        BY <1>3 DEF UpdatePublishRecordResult
    <2>2. ASSUME NEW r \in publishRecord
          PROVE  SameExecution(upd(r), r) /\ upd(r).origin = r.origin
        BY DEF TypeInv, TypeOK, StoreTypeOK, PublishRow
    <2>3. \A s \in Executions : upd(s) \in Executions' /\ SameExecution(upd(s), s)
        BY <2>1, <2>2
    <2>4. ASSUME NEW r \in Executions' PROVE \E s \in Executions : SameExecution(r, s)
        BY <2>1, <2>2
    <2> QED
        BY <2>3, <2>4
<1>4. ASSUME NEW p \in Requests, NEW act \in {"publish", "rollback"}, Commit(p, act)
      PROVE  Goal
    <2>1. Executions' = Executions \cup
            {[version |-> req[p].version, action |-> act, approval |-> req[p].approval,
              result |-> "success", origin |-> "execution"]}
        BY <1>4 DEF Commit, Activate
    <2> QED
        BY <1>4, <2>1
<1>5. ASSUME NEW p \in Requests, NEW action \in {"publish", "rollback"}, Commit(p, action)
      PROVE  \E r \in Executions' : r.version = req[p].version /\ r.action = action
    <2> DEFINE row == [version |-> req[p].version, action |-> action,
                       approval |-> req[p].approval, result |-> "success",
                       origin |-> "execution"]
    <2>1. row \in Executions'
        BY <1>5 DEF Commit, Activate
    <2> QED
        BY <2>1
<1>6. \/ publishRecord' = publishRecord
      \/ \E v \in Versions, act \in {"publish", "rollback"}, a \in Approvals :
            StorePendingPublishRecord(v, act, a)
      \/ \E a \in Approvals, result \in {"success", "failed"} : UpdatePublishRecordResult(a, result)
      \/ \E p \in Requests, action \in {"publish", "rollback"} : Commit(p, action)
    BY DEF StoreEffect, storeVars, InsertVersion, UpdateVersionDefinition, MarkVersionValidated,
           MarkVersionSimulated
<1> QED
    BY <1>1, <1>2, <1>3, <1>4, <1>5, <1>6

\* A version that was live stays known as one.
LEMMA LiveStep ==
    ASSUME TypeInv, StoreEffect, NEW v, WasLive(v)
    PROVE  WasLive(v)'
BY ExecutionStep DEF WasLive, SameExecution

\* What a request holds stays true while other requests take their steps.
LEMMA RequestKept ==
    ASSUME SafetyInv, [Next]_vars, NEW p \in Requests, req'[p] = req[p]
    PROVE  RequestInv(p)'
<1>0. TypeInv /\ StoreEffect /\ RequestInv(p) /\ LocalsOK(req[p]) /\ req[p] \in RequestState
    BY StoreEffects DEF SafetyInv, TypeInv, TypeOK
<1>1. req[p].pc \in HoldsChecked => req[p].version \in Versions
    BY <1>0 DEF LocalsOK, HoldsChecked, PC, NoLocals
<1>2. req[p].pc \in HoldsChecked =>
         LeftDraft(req[p].version)' /\ version'[req[p].version].ai = version[req[p].version].ai
    BY <1>0, <1>1, FrozenStep DEF RequestInv, LeftDraft
<1>3. req[p].pc \in Deciding /\ req[p].approval # NoApproval => Decided(req[p].approval)'
    BY <1>0, ApprovalFrozen DEF RequestInv, Decided, RequestState
<1>4. req[p].pc = "mark_approved" => approval'[req[p].approval].status # "absent"
    BY <1>0, ApprovalFrozen DEF RequestInv, LocalsOK
<1>5. req[p].pc \in {"rollback_supersede", "rollback_commit"} => WasLive(req[p].version)'
    BY <1>0, LiveStep DEF RequestInv, WasLive
<1> QED
    BY <1>0, <1>2, <1>3, <1>4, <1>5 DEF RequestInv, HoldsChecked, LeftDraft, Decided, WasLive

\* The locals of a request change by its own steps alone.
LEMMA StepOwner ==
    ASSUME TypeInv, [Next]_vars, NEW p \in Requests, req'[p] # req[p]
    PROVE  DraftStep(p) \/ CheckStep(p) \/ PublishStep(p) \/ DecisionStep(p) \/ Abort(p)
<1>0. req \in [Requests -> RequestState]
    BY DEF TypeInv, TypeOK
<1>1. ASSUME NEW q \in Requests, NEW r, Continue(q, r) PROVE q = p
    BY <1>0, <1>1 DEF Continue
<1>2. ASSUME NEW q \in Requests, DraftStep(q) PROVE q = p
    BY <1>1, <1>2 DEF DraftStep, CreateVersionRead, CreateVersionNumber, CreateVersionInsert, Finish
<1>3. ASSUME NEW q \in Requests, CheckStep(q) PROVE q = p
    BY <1>1, <1>3 DEF CheckStep, ValidateRead, ValidateMark, SimulateRead, SimulateMark, Finish
<1>4. ASSUME NEW q \in Requests, PublishStep(q) PROVE q = p
    <2>1. ASSUME AfterTransaction(q) PROVE q = p
        BY <1>1, <2>1 DEF AfterTransaction, Finish
    <2> QED
        BY <1>1, <1>4, <2>1 DEF PublishStep, PublishRead, RollbackRead, CreateApprovalRequest,
              StoreRequestRecord, PublishSupersede, PublishCommit, RollbackSelect,
              RollbackSelectNone, RollbackSupersede, RollbackCommit, Finish
<1>5. ASSUME NEW q \in Requests, DecisionStep(q) PROVE q = p
    BY <1>1, <1>5 DEF DecisionStep, ApproveRead, MarkApproved, RecordSuccess, RejectRead,
          MarkRejected, RecordFailed, Finish, Goto
<1>6. ASSUME NEW q \in Requests, Abort(q) PROVE q = p
    BY <1>1, <1>6 DEF Abort, Finish
<1> QED
    BY <1>2, <1>3, <1>4, <1>5, <1>6 DEF Next, vars, EditDraft, CallStep, StartSession, EndSession

\* The slot of a request that ended is idle.
LEMMA Finished ==
    ASSUME req \in [Requests -> RequestState], NEW p \in Requests, Finish(p)
    PROVE  req'[p].pc = "idle"
BY DEF Finish, Continue, IdleRequest

\* A request that goes on keeps its other locals.
LEMMA Gone ==
    ASSUME req \in [Requests -> RequestState], NEW p \in Requests, NEW pc, Goto(p, pc)
    PROVE  req'[p].pc = pc /\ req'[p].version = req[p].version
           /\ req'[p].approval = req[p].approval
BY DEF Goto, Continue, RequestState

\* A request that holds nothing satisfies its invariant.
LEMMA HoldsNothing ==
    ASSUME NEW p \in Requests, req'[p].pc \notin HoldsChecked \cup Deciding
    PROVE  RequestInv(p)'
BY DEF RequestInv, HoldsChecked, Deciding

\* Every step of the publish and rollback handlers gives the request what it
\* holds at its next statement.
LEMMA PublishHolds ==
    ASSUME SafetyInv, NEW p \in Requests, PublishStep(p)
    PROVE  RequestInv(p)'
<1> USE DEF LeftDraft, Decided
<1>0. /\ TypeInv /\ req \in [Requests -> RequestState] /\ req[p] \in RequestState
      /\ RequestInv(p)
    BY DEF SafetyInv, TypeInv, TypeOK
<1>1. ASSUME NEW actor \in Actors, NEW policy \in BOOLEAN, NEW v \in Versions,
             PublishRead(p, v, actor, policy)
      PROVE  RequestInv(p)'
    <2>1. /\ req'[p].pc = IF RequiresApproval(v, actor, policy)
                          THEN "create_approval" ELSE "publish_supersede"
          /\ req'[p].version = v
          /\ req'[p].approval = NoApproval
        BY <1>0, <1>1 DEF PublishRead, Continue, IdleRequest
    <2>2. version' = version /\ version[v].state \in {"validated", "simulated"}
        BY <1>1 DEF PublishRead, storeVars
    <2>3. ~ RequiresApproval(v, actor, policy) => ~ version[v].ai
        BY DEF RequiresApproval
    <2> QED
        BY <2>1, <2>2, <2>3 DEF RequestInv, HoldsChecked, Deciding
<1>2. ASSUME NEW actor \in Actors, NEW policy \in BOOLEAN, RollbackRead(p, actor, policy)
      PROVE  RequestInv(p)'
    <2>1. PICK v \in Versions :
             /\ version[v].state = "superseded"
             /\ req'[p].pc \in {"create_approval", "rollback_select"}
             /\ req'[p].version = v
             /\ req'[p].approval = NoApproval
        BY <1>0, <1>2 DEF RollbackRead, Continue, IdleRequest, IsNewest, Superseded
    <2>2. version' = version
        BY <1>2 DEF RollbackRead, storeVars
    <2> QED
        BY <2>1, <2>2 DEF RequestInv, HoldsChecked, Deciding
<1>3. ASSUME NEW a \in Approvals, CreateApprovalRequest(p, a) PROVE RequestInv(p)'
    <2>1. /\ req[p].pc = "create_approval" /\ req'[p].pc = "store_record"
          /\ req'[p].version = req[p].version
        BY <1>0, <1>3 DEF CreateApprovalRequest, Continue, At, RequestState
    <2>2. version' = version
        BY <1>3 DEF CreateApprovalRequest, storeVars
    <2> QED
        BY <1>0, <2>1, <2>2 DEF RequestInv, HoldsChecked, Deciding
<1>4. CASE PublishSupersede(p)
    <2>1. /\ req[p].pc = "publish_supersede" /\ req'[p].pc = "publish_commit"
          /\ req'[p].version = req[p].version /\ req'[p].approval = req[p].approval
        BY <1>0, <1>4 DEF PublishSupersede, Continue, At, RequestState
    <2>2. version' = version /\ approval' = approval
        BY <1>4 DEF PublishSupersede, storeVars
    <2> QED
        BY <1>0, <2>1, <2>2 DEF RequestInv, HoldsChecked, Deciding
<1>5. CASE RollbackSelect(p)
    <2>1. PICK v \in Versions :
             /\ version[v].state = "superseded"
             /\ req[p].pc = "rollback_select" /\ req'[p].pc = "rollback_supersede"
             /\ req'[p].version = v /\ req'[p].approval = req[p].approval
        BY <1>0, <1>5 DEF RollbackSelect, Continue, At, RequestState, IsNewest, Superseded
    <2>2. version' = version /\ approval' = approval /\ publishRecord' = publishRecord
        BY <1>5 DEF RollbackSelect, storeVars
    <2>3. WasLive(v)
        BY <2>1 DEF SafetyInv, VersionInv
    <2> QED
        BY <1>0, <2>1, <2>2, <2>3 DEF RequestInv, HoldsChecked, Deciding, WasLive, Executions
<1>6. CASE RollbackSupersede(p)
    <2>1. /\ req[p].pc = "rollback_supersede" /\ req'[p].pc = "rollback_commit"
          /\ req'[p].version = req[p].version /\ req'[p].approval = req[p].approval
        BY <1>0, <1>6 DEF RollbackSupersede, Continue, At, RequestState
    <2>2. version' = version /\ approval' = approval /\ publishRecord' = publishRecord
        BY <1>6 DEF RollbackSupersede, storeVars
    <2> QED
        BY <1>0, <2>1, <2>2 DEF RequestInv, HoldsChecked, Deciding, WasLive, Executions
<1>7. CASE StoreRequestRecord(p) \/ PublishCommit(p) \/ RollbackCommit(p) \/ RollbackSelectNone(p)
    <2>1. AfterTransaction(p) \/ Finish(p)
        BY <1>7 DEF StoreRequestRecord, PublishCommit, RollbackCommit, RollbackSelectNone
    <2>2. CASE Finish(p)
        <3>1. req'[p].pc = "idle"
            BY <1>0, <2>2, Finished
        <3> QED
            BY <3>1, HoldsNothing DEF HoldsChecked, Deciding
    <2>3. CASE AfterTransaction(p)
        <3>1. CASE req[p].approval = NoApproval
            BY <1>0, <2>3, <3>1, Finished, HoldsNothing DEF AfterTransaction, HoldsChecked, Deciding
        <3>2. CASE req[p].approval # NoApproval
            <4>1. req'[p].pc = "record_success"
                BY <1>0, <2>3, <3>2 DEF AfterTransaction, Continue, IdleRequest
            <4> QED
                BY <4>1, HoldsNothing DEF HoldsChecked, Deciding
        <3> QED
            BY <3>1, <3>2
    <2> QED
        BY <2>1, <2>2, <2>3
<1> QED
    BY <1>1, <1>2, <1>3, <1>4, <1>5, <1>6, <1>7 DEF PublishStep

\* So does every step of approve and reject.
LEMMA DecisionHolds ==
    ASSUME SafetyInv, NEW p \in Requests, DecisionStep(p)
    PROVE  RequestInv(p)'
<1> USE DEF LeftDraft, Decided
<1>0. /\ TypeInv /\ req \in [Requests -> RequestState] /\ req[p] \in RequestState
      /\ RequestInv(p) /\ LocalsOK(req[p])
      /\ approval \in [Approvals -> ApprovalRow]
    BY DEF SafetyInv, TypeInv, TypeOK
<1>1. ASSUME NEW a \in Approvals, ApproveRead(p, a) PROVE RequestInv(p)'
    <2>1. /\ req'[p].pc = "mark_approved" /\ req'[p].version = approval[a].version
          /\ req'[p].approval = a
        BY <1>0, <1>1 DEF ApproveRead, Continue, IdleRequest
    <2>2. version' = version /\ approval' = approval /\ approval[a].status = "pending"
        BY <1>1 DEF ApproveRead, storeVars
    <2>3. LeftDraft(approval[a].version)
        BY <2>2 DEF SafetyInv, ApprovalInv
    <2> QED
        BY <2>1, <2>2, <2>3 DEF RequestInv, HoldsChecked, Deciding
<1>2. CASE MarkApproved(p)
    <2>1. /\ req[p].pc = "mark_approved"
          /\ req'[p].pc \in {"publish_supersede", "rollback_select"}
          /\ req'[p].version = req[p].version /\ req'[p].approval = req[p].approval
        BY <1>0, <1>2 DEF MarkApproved, Goto, Continue, At, RequestState
    <2>2. req[p].approval \in Approvals /\ approval[req[p].approval].status # "absent"
        BY <1>0, <2>1 DEF LocalsOK, RequestInv
    <2>3. approval'[req[p].approval].status \in {"approved", "rejected"}
        BY <1>0, <1>2, <2>2 DEF MarkApproved, ApprovalRow
    <2>4. version' = version /\ req[p].approval # NoApproval
        BY <1>2, <2>2, StoreAssumption DEF MarkApproved, storeVars
    <2> QED
        BY <1>0, <2>1, <2>3, <2>4 DEF RequestInv, HoldsChecked, Deciding
<1>3. ASSUME \/ \E a \in Approvals : RejectRead(p, a)
             \/ RecordSuccess(p) \/ MarkRejected(p) \/ RecordFailed(p)
      PROVE  RequestInv(p)'
    <2>1. ASSUME NEW a \in Approvals, RejectRead(p, a) PROVE req'[p].pc = "mark_rejected"
        BY <1>0, <2>1 DEF RejectRead, Continue, IdleRequest
    <2>2. ASSUME RecordSuccess(p) \/ RecordFailed(p) PROVE req'[p].pc = "idle"
        BY <1>0, <2>2, Finished DEF RecordSuccess, RecordFailed
    <2>3. ASSUME MarkRejected(p) PROVE req'[p].pc \in {"idle", "record_failed"}
        BY <1>0, <2>3, Finished, Gone DEF MarkRejected
    <2> QED
        BY <1>3, <2>1, <2>2, <2>3, HoldsNothing DEF HoldsChecked, Deciding
<1> QED
    BY <1>1, <1>2, <1>3 DEF DecisionStep

\* Every step of the system leaves every request with what it holds.
LEMMA RequestStep ==
    ASSUME SafetyInv, [Next]_vars, NEW p \in Requests
    PROVE  RequestInv(p)'
<1>0. TypeInv /\ req \in [Requests -> RequestState] /\ req[p] \in RequestState
    BY DEF SafetyInv, TypeInv, TypeOK
<1>1. CASE req'[p] = req[p]
    BY <1>1, RequestKept
<1>2. CASE PublishStep(p)
    BY <1>2, PublishHolds
<1>3. CASE DecisionStep(p)
    BY <1>3, DecisionHolds
<1>4. CASE DraftStep(p)
    <2>1. ASSUME NEW graph \in Graphs \cup {NoGraph}, NEW byAi \in BOOLEAN,
                 CreateVersionRead(p, graph, byAi)
          PROVE  req'[p].pc = "number_version"
        BY <1>0, <2>1 DEF CreateVersionRead, Continue, IdleRequest
    <2>2. ASSUME CreateVersionNumber(p) PROVE req'[p].pc = "insert_version"
        BY <1>0, <2>2 DEF CreateVersionNumber, Continue, RequestState
    <2>3. ASSUME CreateVersionInsert(p) PROVE req'[p].pc = "idle"
        BY <1>0, <2>3, Finished DEF CreateVersionInsert
    <2> QED
        BY <1>4, <2>1, <2>2, <2>3, HoldsNothing DEF DraftStep, HoldsChecked, Deciding
<1>5. CASE CheckStep(p)
    <2>1. ASSUME NEW v \in Versions, ValidateRead(p, v) PROVE req'[p].pc = "mark_validated"
        BY <1>0, <2>1 DEF ValidateRead, Continue, IdleRequest
    <2>2. ASSUME NEW v \in Versions, SimulateRead(p, v) PROVE req'[p].pc = "mark_simulated"
        BY <1>0, <2>2 DEF SimulateRead, Continue, IdleRequest
    <2>3. ASSUME ValidateMark(p) \/ SimulateMark(p) PROVE req'[p].pc = "idle"
        BY <1>0, <2>3, Finished DEF ValidateMark, SimulateMark
    <2> QED
        BY <1>5, <2>1, <2>2, <2>3, HoldsNothing DEF CheckStep, HoldsChecked, Deciding
<1>6. CASE Abort(p)
    BY <1>0, <1>6, Finished, HoldsNothing DEF Abort, HoldsChecked, Deciding
<1> QED
    BY <1>0, <1>1, <1>2, <1>3, <1>4, <1>5, <1>6, StepOwner

\* Every execution on record stays justified, and a commit justifies its own.
LEMMA RecordStep ==
    ASSUME SafetyInv, [Next]_vars, NEW r \in Executions'
    PROVE  RecordInv(r)'
<1>0. TypeInv /\ StoreEffect /\ TypeInv'
    BY StoreEffects, NextTypeInv DEF SafetyInv
<1>1. r.action \in {"publish", "rollback"}
    BY <1>0 DEF TypeInv, TypeOK, StoreTypeOK, PublishRow, Executions
<1>2. ASSUME NEW s \in Executions, SameExecution(r, s) PROVE RecordInv(r)'
    <2>1. /\ s.version \in Versions
          /\ s.approval \in Approvals \cup {NoApproval}
          /\ RecordInv(s)
        BY <1>0 DEF TypeInv, TypeOK, StoreTypeOK, PublishRow, Executions, SafetyInv
    <2>2. LeftDraft(s.version)' /\ version'[s.version].ai = version[s.version].ai
        BY <1>0, <2>1, FrozenStep DEF RecordInv, LeftDraft
    <2>3. s.approval # NoApproval => Decided(s.approval)'
        BY <1>0, <2>1, ApprovalFrozen DEF RecordInv, Decided
    <2>4. s.action = "rollback" => WasLive(s.version)'
        BY <1>0, <2>1, LiveStep DEF RecordInv, WasLive
    <2> QED
        BY <1>2, <2>1, <2>2, <2>3, <2>4 DEF RecordInv, SameExecution, LeftDraft, Decided, WasLive
<1>3. ASSUME NEW p \in Requests, Commit(p, r.action),
             r.version = req[p].version, r.approval = req[p].approval
      PROVE  RecordInv(r)'
    <2>1. /\ r.version \in Versions
          /\ r.approval \in Approvals \cup {NoApproval}
          /\ RequestInv(p)
        BY <1>0, <1>3 DEF TypeInv, TypeOK, RequestState, Commit, SafetyInv
    <2>2. /\ r.action = "publish" => req[p].pc = "publish_commit"
          /\ r.action = "rollback" => req[p].pc = "rollback_commit"
        BY <1>3 DEF Commit, At
    <2>3. LeftDraft(r.version)' /\ version'[r.version].ai = version[r.version].ai
        BY <1>0, <1>1, <1>3, <2>1, <2>2, FrozenStep DEF RequestInv, HoldsChecked, LeftDraft
    <2>4. r.approval # NoApproval => Decided(r.approval)'
        BY <1>0, <1>1, <1>3, <2>1, <2>2, ApprovalFrozen DEF RequestInv, Deciding, Decided
    <2>5. r.action = "rollback" => WasLive(r.version)'
        BY <1>0, <1>3, <2>1, <2>2, LiveStep DEF RequestInv, WasLive
    <2> QED
        BY <1>3, <2>1, <2>2, <2>3, <2>4, <2>5 DEF RecordInv, RequestInv, LeftDraft, Decided, WasLive
<1> QED
    BY <1>0, <1>2, <1>3, ExecutionStep

\* A version becomes published or superseded only if it was live, or now is.
LEMMA VersionStep ==
    ASSUME SafetyInv, [Next]_vars, NEW v \in Versions
    PROVE  VersionInv(v)'
<1>0. TypeInv /\ StoreEffect /\ VersionInv(v) /\ version \in [Versions -> VersionRow]
    BY StoreEffects DEF SafetyInv, TypeInv, TypeOK, StoreTypeOK
<1>1. ASSUME version'[v].state = version[v].state \/ version'[v].state \notin {"published", "superseded"}
      PROVE  VersionInv(v)'
    BY <1>0, <1>1, LiveStep DEF VersionInv, WasLive
<1>2. ASSUME NEW w \in Versions, NEW g \in Graphs, NEW ai \in BOOLEAN,
             InsertVersion(w, g, ai) \/ UpdateVersionDefinition(w, g, ai)
      PROVE  VersionInv(v)'
    <2>1. CASE InsertVersion(w, g, ai)
        BY <1>0, <1>1, <2>1 DEF InsertVersion
    <2>2. CASE UpdateVersionDefinition(w, g, ai)
        BY <1>0, <1>1, <2>2 DEF UpdateVersionDefinition, VersionRow
    <2> QED
        BY <1>2, <2>1, <2>2
<1>3. ASSUME NEW w \in Versions, MarkVersionValidated(w) \/ MarkVersionSimulated(w)
      PROVE  VersionInv(v)'
    BY <1>0, <1>1, <1>3 DEF MarkVersionValidated, MarkVersionSimulated, VersionRow
<1>4. ASSUME NEW p \in Requests, NEW action \in {"publish", "rollback"}, Commit(p, action)
      PROVE  VersionInv(v)'
    <2>1. CASE v # req[p].version
        <3>1. \/ version'[v].state = version[v].state
              \/ version[v].state = "published" /\ version'[v].state = "superseded"
            BY <1>0, <1>4, <2>1 DEF Commit, Activate, VersionRow
        <3> QED
            BY <1>0, <1>1, <3>1, LiveStep DEF VersionInv, WasLive
    <2>2. CASE v = req[p].version /\ action = "publish"
        <3>1. \E r \in Executions' : r.version = v /\ r.action = "publish"
            BY <1>0, <1>4, <2>2, ExecutionStep
        <3> QED
            BY <3>1 DEF VersionInv, WasLive
    <2>3. CASE v = req[p].version /\ action = "rollback"
        <3>1. WasLive(v)
            BY <1>4, <2>3 DEF SafetyInv, RequestInv, Commit, At
        <3> QED
            BY <1>0, <3>1, LiveStep DEF VersionInv, WasLive
    <2> QED
        BY <2>1, <2>2, <2>3
<1> QED
    BY <1>0, <1>1, <1>2, <1>3, <1>4
    DEF StoreEffect, storeVars, StorePendingPublishRecord, UpdatePublishRecordResult

\* An approval request names a version that had left draft when it was made.
LEMMA ApprovalInvStep ==
    ASSUME SafetyInv, [Next]_vars, NEW a \in Approvals
    PROVE  ApprovalInv(a)'
<1>0. TypeInv /\ StoreEffect /\ ApprovalInv(a) /\ approval \in [Approvals -> ApprovalRow]
    BY StoreEffects DEF SafetyInv, TypeInv, TypeOK
<1>1. CASE approval[a].status # "absent"
    <2>1. approval'[a].version = approval[a].version /\ approval[a].version \in Versions
        BY <1>0, <1>1, ApprovalFrozen DEF TypeInv
    <2> QED
        BY <1>0, <1>1, <2>1, FrozenStep DEF ApprovalInv, LeftDraft
<1>2. ASSUME NEW p \in Requests, CreateApprovalRequest(p, a) PROVE ApprovalInv(a)'
    <2>1. approval'[a].version = req[p].version /\ LeftDraft(req[p].version)
          /\ version' = version
        BY <1>0, <1>2 DEF CreateApprovalRequest, SafetyInv, RequestInv, At, HoldsChecked, storeVars
    <2> QED
        BY <2>1 DEF ApprovalInv, LeftDraft
<1>3. CASE /\ approval[a].status = "absent"
           /\ ~ \E p \in Requests : CreateApprovalRequest(p, a)
    <2>1. approval'[a].status = "absent"
        <3>1. ASSUME NEW p \in Requests, MarkApproved(p) \/ MarkRejected(p)
              PROVE  approval'[a].status = "absent"
            BY <1>0, <1>3, <3>1 DEF MarkApproved, MarkRejected, ApprovalRow
        <3>2. ASSUME NEW p \in Requests, NEW b \in Approvals, CreateApprovalRequest(p, b)
              PROVE  approval'[a].status = "absent"
            BY <1>0, <1>3, <3>2 DEF CreateApprovalRequest
        <3>3. ASSUME NEW p \in Requests,
                     \/ DraftStep(p) \/ CheckStep(p) \/ Abort(p)
                     \/ PublishStep(p) /\ ~ \E b \in Approvals : CreateApprovalRequest(p, b)
                     \/ DecisionStep(p) /\ ~ MarkApproved(p) /\ ~ MarkRejected(p)
              PROVE  approval' = approval
            BY <3>3 DEF DraftStep, CreateVersionRead, CreateVersionNumber, CreateVersionInsert,
               CheckStep, ValidateRead, ValidateMark, SimulateRead, SimulateMark, Abort,
               PublishStep, PublishRead, RollbackRead, StoreRequestRecord, PublishSupersede,
               PublishCommit, RollbackSelect, RollbackSelectNone, RollbackSupersede,
               RollbackCommit, DecisionStep, ApproveRead, RejectRead, RecordSuccess, RecordFailed
        <3> QED
            BY <1>3, <3>1, <3>2, <3>3
            DEF Next, vars, EditDraft, CallStep, StartSession, EndSession
    <2> QED
        BY <2>1 DEF ApprovalInv
<1> QED
    BY <1>1, <1>2, <1>3

\* A call stays pinned to a version whose graph stands still.
LEMMA SessionStep ==
    ASSUME SafetyInv, [Next]_vars, NEW c \in Calls
    PROVE  SessionInv(c)'
<1>0. TypeInv /\ StoreEffect /\ SessionInv(c) /\ session \in [Calls -> SessionState]
    BY StoreEffects DEF SafetyInv, TypeInv, TypeOK
<1>1. CASE session'[c] = session[c]
    <2>1. session[c].version # NoVersion => session[c].version \in Versions
        BY <1>0 DEF SessionState
    <2> QED
        BY <1>0, <1>1, <2>1, FrozenStep DEF SessionInv, LeftDraft
<1>2. ASSUME NEW v \in Versions, StartSession(c, v) PROVE SessionInv(c)'
    <2>1. /\ session'[c].version = v /\ session'[c].graph = version[v].graph
          /\ version' = version /\ version[v].state = "published"
        BY <1>0, <1>2 DEF StartSession, ServesNewCalls, storeVars
    <2> QED
        BY <2>1 DEF SessionInv, LeftDraft
<1>3. CASE EndSession(c)
    BY <1>0, <1>3 DEF EndSession, SessionInv, NoSession
<1>4. ASSUME session'[c] # session[c], ~ EndSession(c) PROVE \E v \in Versions : StartSession(c, v)
    <2>1. ASSUME NEW p \in Requests,
                 DraftStep(p) \/ CheckStep(p) \/ Abort(p) \/ PublishStep(p) \/ DecisionStep(p)
          PROVE  session' = session
        BY <2>1 DEF DraftStep, CreateVersionRead, CreateVersionNumber, CreateVersionInsert,
           CheckStep, ValidateRead, ValidateMark, SimulateRead, SimulateMark, Abort,
           PublishStep, PublishRead, RollbackRead, CreateApprovalRequest, StoreRequestRecord,
           PublishSupersede, PublishCommit, RollbackSelect, RollbackSelectNone,
           RollbackSupersede, RollbackCommit, DecisionStep, ApproveRead, RejectRead,
           MarkApproved, MarkRejected, RecordSuccess, RecordFailed
    <2>2. ASSUME NEW d \in Calls, CallStep(d), d # c PROVE session'[c] = session[c]
        BY <1>0, <2>2 DEF CallStep, StartSession, EndSession, TypeInv, TypeOK
    <2> QED
        BY <1>4, <2>1, <2>2 DEF Next, vars, EditDraft, CallStep
<1> QED
    BY <1>1, <1>2, <1>3, <1>4

\* No statement supersedes the version the flow points at.
LEMMA ActiveStep ==
    ASSUME SafetyInv, [Next]_vars
    PROVE  ActiveNeverStale'
<1>0. /\ TypeInv /\ StoreEffect /\ ActiveNeverStale
      /\ version \in [Versions -> VersionRow] /\ flow \in FlowRow
    BY StoreEffects DEF SafetyInv, TypeInv, TypeOK, StoreTypeOK
<1>1. ASSUME NEW w \in Versions, NEW g \in Graphs, NEW ai \in BOOLEAN, InsertVersion(w, g, ai)
      PROVE  ActiveNeverStale'
    BY <1>0, <1>1 DEF InsertVersion, Exists, ActiveNeverStale, FlowRow
<1>2. ASSUME NEW w \in Versions, NEW g \in Graphs, NEW ai \in BOOLEAN,
             UpdateVersionDefinition(w, g, ai)
      PROVE  ActiveNeverStale'
    <2>1. w # flow.active /\ flow' = flow
        BY <1>0, <1>2 DEF UpdateVersionDefinition, ActiveNeverStale, Versions, NoVersion
    <2>2. flow.active # NoVersion => flow.active \in Versions
        BY <1>0 DEF FlowRow
    <2>3. ASSUME NEW v \in Versions, v # w PROVE version'[v] = version[v]
        BY <1>0, <1>2, <2>3, Zenon DEF UpdateVersionDefinition
    <2> QED
        BY <1>0, <2>1, <2>2, <2>3 DEF ActiveNeverStale
<1>3. ASSUME NEW w \in Versions, MarkVersionValidated(w) \/ MarkVersionSimulated(w)
      PROVE  ActiveNeverStale'
    BY <1>0, <1>3 DEF MarkVersionValidated, MarkVersionSimulated, ActiveNeverStale, FlowRow, VersionRow
<1>4. ASSUME NEW p \in Requests, NEW action \in {"publish", "rollback"}, Commit(p, action)
      PROVE  ActiveNeverStale'
    BY <1>0, <1>4 DEF Commit, Activate, ActiveNeverStale, FlowRow, VersionRow
<1>5. ASSUME version' = version, flow' = flow PROVE ActiveNeverStale'
    BY <1>0, <1>5 DEF ActiveNeverStale
<1> QED
    BY <1>0, <1>1, <1>2, <1>3, <1>4, <1>5
    DEF StoreEffect, storeVars, StorePendingPublishRecord, UpdatePublishRecordResult

\* The invariant holds in every reachable state.
THEOREM SafetyInvariant == Spec => []SafetyInv
<1>1. SafetyInv /\ [Next]_vars => SafetyInv'
    <2> SUFFICES ASSUME SafetyInv, [Next]_vars PROVE SafetyInv'
        OBVIOUS
    <2>1. TypeInv'
        BY NextTypeInv DEF SafetyInv
    <2>2. \A p \in Requests : RequestInv(p)'
        BY RequestStep
    <2>3. \A r \in Executions' : RecordInv(r)'
        BY RecordStep
    <2>4. \A v \in Versions : VersionInv(v)'
        BY VersionStep
    <2>5. \A a \in Approvals : ApprovalInv(a)'
        BY ApprovalInvStep
    <2>6. \A c \in Calls : SessionInv(c)'
        BY SessionStep
    <2>7. ActiveNeverStale'
        BY ActiveStep
    <2> QED
        BY <2>1, <2>2, <2>3, <2>4, <2>5, <2>6, <2>7 DEF SafetyInv, Versions
<1> QED
    BY <1>1, InitSafety, PTL DEF Spec

\* A call plays the graph it started with until it ends.
THEOREM PinnedGraph == Spec => []PinnedGraphUnchanged
<1>1. SafetyInv => PinnedGraphUnchanged
    BY DEF SafetyInv, SessionInv, PinnedGraphUnchanged
<1> QED
    BY <1>1, SafetyInvariant, PTL

\* The flow never points at a superseded version or at one that never went live.
THEOREM ActiveCurrent == Spec => []ActiveNeverStale
<1>1. SafetyInv => ActiveNeverStale
    BY DEF SafetyInv
<1> QED
    BY <1>1, SafetyInvariant, PTL

\* An AI's version is published by an approval decision only.
THEOREM AiPublishApproved == Spec => []AiPublishNeedsApproval
<1>1. SafetyInv => AiPublishNeedsApproval
    BY DEF SafetyInv, RecordInv, AiPublishNeedsApproval
<1> QED
    BY <1>1, SafetyInvariant, PTL

\* Nothing is executed in the name of an approval request that is undecided.
THEOREM ExecutedAfterDecision == Spec => []ExecutedOnlyAfterDecision
<1>1. SafetyInv => ExecutedOnlyAfterDecision
    BY DEF SafetyInv, RecordInv, Decided, ExecutedOnlyAfterDecision
<1> QED
    BY <1>1, SafetyInvariant, PTL

\* Rollbacks go to versions that were live.
THEOREM RollbackToLive == Spec => []RollbackTargetWasLive
<1>1. SafetyInv => RollbackTargetWasLive
    BY DEF SafetyInv, RecordInv, WasLive, RollbackTargetWasLive
<1> QED
    BY <1>1, SafetyInvariant, PTL

-----------------------------------------------------------------------------
(* The refinement: to its calls the flow is a PublishRegister.             *)

Checked == {v \in Versions : version[v].state \notin {"absent", "draft"}}
Aired   == {r.version : r \in Executions}

\* A statement that leaves the executions on record, and at most checks a
\* version more.
LEMMA MarksRegistered ==
    ASSUME Aired' = Aired, flow'.active = flow.active,
           Checked' = Checked \/ \E v \in Versions : Checked' = Checked \cup {v}
    PROVE  [Register!Next]_(Register!vars)
<1>1. CASE Checked' = Checked
    BY <1>1 DEF Register!vars, Checked, Aired
<1>2. ASSUME NEW v \in Versions, Checked' = Checked \cup {v} PROVE Register!Next
    BY <1>2 DEF Register!Next, Register!Check, Checked, Aired
<1> QED
    BY <1>1, <1>2

\* The statements of the store, one by one.
LEMMA StatementRegistered ==
    ASSUME TypeInv, StoreEffect, \A p \in Requests : ~ \E action \in {"publish", "rollback"} : Commit(p, action)
    PROVE  [Register!Next]_(Register!vars)
<1>0. /\ version \in [Versions -> VersionRow] /\ flow \in FlowRow
    BY DEF TypeInv, TypeOK, StoreTypeOK
<1>1. CASE UNCHANGED storeVars
    <2>1. Checked' = Checked /\ Aired' = Aired /\ flow' = flow
        BY <1>1 DEF storeVars, Checked, Aired, Executions
    <2> QED
        BY <2>1, MarksRegistered
<1>2. ASSUME NEW v \in Versions, NEW g \in Graphs, NEW ai \in BOOLEAN,
             InsertVersion(v, g, ai) \/ UpdateVersionDefinition(v, g, ai)
      PROVE  [Register!Next]_(Register!vars)
    <2>1. /\ version[v].state \in {"absent", "draft"} /\ version'[v].state = "draft"
          /\ \A w \in Versions \ {v} : version'[w] = version[w]
          /\ publishRecord' = publishRecord /\ flow'.active = flow.active
        BY <1>0, <1>2 DEF InsertVersion, UpdateVersionDefinition, Exists, VersionRow, FlowRow
    <2>2. Checked' = Checked /\ Aired' = Aired
        BY <2>1 DEF Checked, Aired, Executions
    <2> QED
        BY <2>1, <2>2, MarksRegistered
<1>3. ASSUME NEW v \in Versions, MarkVersionValidated(v) \/ MarkVersionSimulated(v)
      PROVE  [Register!Next]_(Register!vars)
    <2>1. /\ \A w \in Versions \ {v} : version'[w] = version[w]
          /\ \/ version'[v].state \in {"validated", "simulated"}
             \/ version'[v].state = version[v].state
          /\ publishRecord' = publishRecord /\ flow' = flow
        BY <1>0, <1>3 DEF MarkVersionValidated, MarkVersionSimulated, VersionRow
    <2>2. Aired' = Aired
        BY <2>1 DEF Aired, Executions
    <2>3. Checked' = Checked \/ Checked' = Checked \cup {v}
        BY <2>1 DEF Checked
    <2> QED
        BY <2>1, <2>2, <2>3, MarksRegistered
<1>4. ASSUME NEW v \in Versions, NEW action \in {"publish", "rollback"}, NEW a \in Approvals,
             StorePendingPublishRecord(v, action, a)
      PROVE  [Register!Next]_(Register!vars)
    <2>1. Executions' = Executions
        BY <1>4 DEF StorePendingPublishRecord, Executions
    <2>2. Checked' = Checked /\ Aired' = Aired /\ flow' = flow
        BY <1>4, <2>1 DEF StorePendingPublishRecord, Checked, Aired
    <2> QED
        BY <2>2, MarksRegistered
<1>5. ASSUME NEW a \in Approvals, NEW result \in {"success", "failed"},
             UpdatePublishRecordResult(a, result)
      PROVE  [Register!Next]_(Register!vars)
    <2> DEFINE Updated(r) == IF r.approval = a THEN [r EXCEPT !.result = result] ELSE r
    <2>1. \A r \in publishRecord : r \in PublishRow
        BY DEF TypeInv, TypeOK, StoreTypeOK
    <2>2. \A r \in publishRecord : Updated(r).version = r.version /\ Updated(r).origin = r.origin
        BY <2>1 DEF PublishRow
    <2>3. publishRecord' = {Updated(r) : r \in publishRecord} /\ version' = version /\ flow' = flow
        BY <1>5 DEF UpdatePublishRecordResult
    <2> HIDE DEF Updated
    <2>4. Executions' = {Updated(r) : r \in Executions}
        BY <2>2, <2>3 DEF Executions
    <2>5. Aired' = Aired
        BY <2>2, <2>4 DEF Aired, Executions
    <2>6. Checked' = Checked
        BY <2>3 DEF Checked
    <2> QED
        BY <2>3, <2>5, <2>6, MarksRegistered
<1> QED
    BY <1>1, <1>2, <1>3, <1>4, <1>5 DEF StoreEffect

\* A commit: its target has left draft, and is on record.
LEMMA CommitRegistered ==
    ASSUME SafetyInv, NEW p \in Requests, NEW action \in {"publish", "rollback"}, Commit(p, action)
    PROVE  [Register!Next]_(Register!vars)
<1> PICK v \in Versions : v = req[p].version
    BY DEF Commit
<1>1. /\ LeftDraft(v)
      /\ Activate(v, req[p].snapshot, action, req[p].approval)
      /\ version \in [Versions -> VersionRow] /\ flow \in FlowRow
    <2>1. req[p].pc \in HoldsChecked
        BY DEF Commit, At, HoldsChecked
    <2>2. RequestInv(p) /\ TypeInv
        BY DEF SafetyInv
    <2> QED
        BY <2>1, <2>2 DEF TypeInv, TypeOK, StoreTypeOK, RequestInv, Commit
<1>2. flow'.active = v
    BY <1>1 DEF Activate, FlowRow
<1>3. Aired' = Aired \cup {v}
    <2> DEFINE e == [version |-> v, action |-> action, approval |-> req[p].approval,
                     result |-> "success", origin |-> "execution"]
    <2>1. publishRecord' = publishRecord \cup {e}
        BY <1>1 DEF Activate
    <2>2. e.origin = "execution" /\ e.version = v
        OBVIOUS
    <2> HIDE DEF e
    <2>3. Executions' = Executions \cup {e}
        BY <2>1, <2>2 DEF Executions
    <2> QED
        BY <2>2, <2>3 DEF Aired
<1>4. Checked' = Checked /\ v \in Checked
    <2>1. ASSUME NEW w \in Versions PROVE w \in Checked' <=> w \in Checked
        BY <1>1, <2>1 DEF Activate, Checked, LeftDraft, VersionRow
    <2> QED
        BY <1>1, <2>1 DEF Checked, LeftDraft
<1> QED
    BY <1>2, <1>3, <1>4 DEF Register!Next, Register!GoLive, Checked, Aired

\* The flow's active version is a register of checked versions that changes in
\* single steps, although a publish reads, checks and commits in several.
THEOREM RegisterHolds == Spec => IsRegister
<1>1. Init => Register!Init
    <2> SUFFICES ASSUME Init PROVE Register!Init
        OBVIOUS
    <2>1. \A v \in Versions : version[v].state \in {"absent", "draft"}
        BY DEF Init, StoreInit
    <2>2. Checked = {}
        BY <2>1 DEF Checked
    <2>3. Aired = {} /\ flow.active = NoVersion
        BY DEF Init, StoreInit, Aired, Executions
    <2> QED
        BY <2>2, <2>3 DEF Register!Init, Checked, Aired
<1>2. SafetyInv /\ [Next]_vars => [Register!Next]_(Register!vars)
    <2> SUFFICES ASSUME SafetyInv, [Next]_vars PROVE [Register!Next]_(Register!vars)
        OBVIOUS
    <2>1. TypeInv /\ StoreEffect
        BY StoreEffects DEF SafetyInv
    <2> QED
        BY <2>1, StatementRegistered, CommitRegistered
<1> QED
    BY <1>1, <1>2, SafetyInvariant, PTL DEF Spec, IsRegister, Register!Spec
=============================================================================
