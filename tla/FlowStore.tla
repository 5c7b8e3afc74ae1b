------------------------------ MODULE FlowStore ------------------------------
(***************************************************************************)
(* The rows IvrFlowRepository keeps in PostgreSQL for one IVR flow, and    *)
(* the statements and transactions that change them.  Every operator       *)
(* below is one point at which an effect becomes visible to the other      *)
(* connections; the services of PublishLifecycle decide when it runs.      *)
(*                                                                         *)
(* A version is named by its version_number: UNIQUE (flow_id,              *)
(* version_number) makes the number as good an identity as the row's uuid. *)
(***************************************************************************)
EXTENDS Integers

CONSTANTS
    MaxVersion,     \* bound: version numbers run from 1 to MaxVersion
    Graphs,         \* the call graphs a version can hold
    SoundGraphs,    \* those that pass validateIvrGraph and the reference checks
    Approvals,      \* identities of approval requests
    NoApproval,     \* approval_request_id IS NULL
    NoGraph         \* a request that carries no graph_json

ASSUME StoreAssumption ==
    /\ MaxVersion \in Nat \ {0}
    /\ SoundGraphs \subseteq Graphs
    /\ NoApproval \notin Approvals
    /\ NoGraph \notin Graphs

VARIABLES
    version,        \* flow_versions
    flow,           \* the ivr_flows row: active_version_id and draft_version_id
    publishRecord   \* publish_records

storeVars == <<version, flow, publishRecord>>

Versions  == 1..MaxVersion
NoVersion == 0
VersionStates ==
    {"absent", "draft", "validated", "simulated", "published", "superseded"}

\* ai: the metadata holds an ai_lineage that asks for a human approval.
VersionRow == [state : VersionStates, graph : Graphs, ai : BOOLEAN]
FlowRow    == [active : Versions \cup {NoVersion}, draft : Versions]

\* origin tells which INSERT wrote the row: storePendingPublishRecord writes
\* the request, publish and rollback write the execution.
PublishRow ==
    [version  : Versions,
     action   : {"publish", "rollback"},
     approval : Approvals \cup {NoApproval},
     result   : {"pending_approval", "success", "failed"},
     origin   : {"request", "execution"}]

StoreTypeOK ==
    /\ version \in [Versions -> VersionRow]
    /\ flow \in FlowRow
    /\ publishRecord \subseteq PublishRow

\* IvrFlowRepository.create: the flow is born with version 1 as its draft.
StoreInit ==
    /\ \E g \in Graphs, ai \in BOOLEAN :
          version = [v \in Versions |->
                       [state |-> IF v = 1 THEN "draft" ELSE "absent",
                        graph |-> g,
                        ai    |-> ai]]
    /\ flow = [active |-> NoVersion, draft |-> 1]
    /\ publishRecord = {}

Exists(v)   == version[v].state # "absent"
Published   == {v \in Versions : version[v].state = "published"}
Superseded  == {v \in Versions : version[v].state = "superseded"}
IsNewest(v, S) == v \in S /\ \A w \in S : w <= v

\* nextVersionNumber: MAX(version_number) + 1, read outside any transaction.
IsNextVersionNumber(n) ==
    /\ \A v \in Versions : Exists(v) => v < n
    /\ Exists(n - 1)

(* createVersion: the INSERT and the draft pointer in one transaction; the *)
(* unique number is checked by the INSERT.                                 *)
InsertVersion(n, g, ai) ==
    /\ ~ Exists(n)
    /\ version' = [version EXCEPT ![n] = [state |-> "draft", graph |-> g, ai |-> ai]]
    /\ flow' = [flow EXCEPT !.draft = n]
    /\ UNCHANGED publishRecord

\* Slip: any version can be edited.
UpdateAnyVersionDefinition(v, g, ai) ==
    /\ Exists(v)
    /\ version' = [version EXCEPT ![v].graph = g, ![v].ai = @ \/ ai]
    /\ UNCHANGED <<flow, publishRecord>>

\* updateVersionDefinition: metadata || new metadata keeps a lineage once set.
UpdateVersionDefinition(v, g, ai) ==
    /\ version[v].state = "draft"
    /\ version' = [version EXCEPT ![v].graph = g, ![v].ai = @ \/ ai]
    /\ UNCHANGED <<flow, publishRecord>>

\* markVersionValidated: WHERE names the row only, whatever its state is.
MarkVersionValidated(v) ==
    /\ version' = [version EXCEPT ![v].state = "validated"]
    /\ UNCHANGED <<flow, publishRecord>>

\* markVersionSimulated: CASE WHEN state = 'draft'.
MarkVersionSimulated(v) ==
    /\ version' = [version EXCEPT ![v].state = IF @ = "draft" THEN "simulated" ELSE @]
    /\ UNCHANGED <<flow, publishRecord>>

StorePendingPublishRecord(v, action, a) ==
    /\ publishRecord' = publishRecord \cup
          {[version |-> v, action |-> action, approval |-> a,
            result |-> "pending_approval", origin |-> "request"]}
    /\ UNCHANGED <<version, flow>>

\* updatePublishRecordResult: every row of the approval request, also the
\* execution's own.
UpdatePublishRecordResult(a, result) ==
    /\ publishRecord' = {IF r.approval = a THEN [r EXCEPT !.result = result] ELSE r
                           : r \in publishRecord}
    /\ UNCHANGED <<version, flow>>

\* Slip: the version is marked published before the others are superseded.
ActivateThenSupersede(v, snapshot, action, a) ==
    /\ version' = [w \in Versions |->
          IF w \in snapshot /\ version[w].state = "published"
          THEN [version[w] EXCEPT !.state = "superseded"]
          ELSE IF w = v THEN [version[w] EXCEPT !.state = "published"]
          ELSE version[w]]
    /\ flow' = [flow EXCEPT !.active = v]
    /\ publishRecord' = publishRecord \cup
          {[version |-> v, action |-> action, approval |-> a,
            result |-> "success", origin |-> "execution"]}

\* Slip: the UPDATE that supersedes has lost its condition on the state.
ActivateSupersedingAll(v, snapshot, action, a) ==
    /\ version' = [w \in Versions |->
          IF w = v THEN [version[w] EXCEPT !.state = "published"]
          ELSE IF Exists(w) THEN [version[w] EXCEPT !.state = "superseded"]
               ELSE version[w]]
    /\ flow' = [flow EXCEPT !.active = v]
    /\ publishRecord' = publishRecord \cup
          {[version |-> v, action |-> action, approval |-> a,
            result |-> "success", origin |-> "execution"]}

(***************************************************************************)
(* The commit of publish and of rollback.  Under READ COMMITTED the first  *)
(* UPDATE picks the published rows from the snapshot of its own start,     *)
(* waits for the locks of other transactions and re-checks state =         *)
(* 'published' on the rows it then gets: a version another transaction     *)
(* published meanwhile is not in its snapshot and is not superseded.  The  *)
(* locks it holds until COMMIT keep the rows still, so the re-check, the   *)
(* other statements and the commit are one step.                           *)
(***************************************************************************)
Activate(v, snapshot, action, a) ==
    /\ version' = [w \in Versions |->
          IF w = v THEN [version[w] EXCEPT !.state = "published"]
          ELSE IF w \in snapshot /\ version[w].state = "published"
               THEN [version[w] EXCEPT !.state = "superseded"]
               ELSE version[w]]
    /\ flow' = [flow EXCEPT !.active = v]
    /\ publishRecord' = publishRecord \cup
          {[version |-> v, action |-> action, approval |-> a,
            result |-> "success", origin |-> "execution"]}

\* findActiveFlowVersion: the version a new call is served, if there is one.
\* flows.status is 'active' from the first publish on, as active_version_id is set.
ServesNewCalls(v) == v = flow.active /\ v # NoVersion /\ version[v].state = "published"
=============================================================================
