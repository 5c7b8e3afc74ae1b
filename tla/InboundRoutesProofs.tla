------------------------- MODULE InboundRoutesProofs -------------------------
(***************************************************************************)
(* Proofs that a number called in a tenant's domain has one route, and     *)
(* that the active version of a route is one that went live, for every     *)
(* number of tenants, routes, versions and concurrent requests.            *)
(***************************************************************************)
EXTENDS InboundRoutes, TLAPS

-----------------------------------------------------------------------------
(* The invariant.  The index keeps match values of active routes apart,    *)
(* the lookup goes by phone numbers; the two agree because what a request  *)
(* will write of either it carries as a pair that agrees, however old its  *)
(* copy of the row is.                                                     *)

Versioned == {"check_validate", "mark_validated", "insert_version", "publish_supersede",
              "publish_commit", "rollback_supersede", "rollback_commit"}

\* What a request holds is of the kind its next statement needs.
Prepared(q) ==
    /\ q.pc # "idle" => q.route \in Routes
    /\ q.pc \in {"update_write", "insert_version"} => q.value \in Numbers
    /\ q.pc = "update_write" => q.value = Normalized(q.value, q.phone)
    /\ q.pc \in Versioned => q.version \in Versions

ReqInv == \A p \in Requests : Prepared(req[p])

\* inbound_routes_active_unique_match
UniqueInv ==
    \A r, s \in Routes :
        /\ r # s
        /\ route[r].status = "active"
        /\ route[s].status = "active"
        => \/ route[r].tenant # route[s].tenant
           \/ route[r].type # route[s].type
           \/ route[r].value # route[s].value

RouteInv ==
    /\ TypeOK
    /\ ReqInv
    /\ UniqueInv
    /\ BoundNumberIsValue
    /\ ActiveNeverStale

\* The parts of the type invariant.
LEMMA Types ==
    ASSUME TypeOK
    PROVE  /\ route \in [Routes -> RouteRow]
           /\ version \in [Routes -> [Versions -> VersionRow]]
           /\ req \in [Requests -> RequestState]
BY DEF TypeOK

LEMMA IdleFacts == Idle \in RequestState /\ Prepared(Idle)
BY DEF Idle, RequestState, PC, Prepared, Versioned

LEMMA NormalType ==
    ASSUME NEW value \in Numbers, NEW phone \in Phones \cup {NoPhone}
    PROVE  /\ Normalized(value, phone) \in Numbers
           /\ Normalized(Normalized(value, phone), phone) = Normalized(value, phone)
BY RouteAssumption DEF Normalized

\* New routes are drafts.
LEMMA InitRoute == Init => RouteInv
<1> SUFFICES ASSUME Init PROVE RouteInv
    OBVIOUS
<1>1. PICK tenant \in [Routes -> Tenants], type \in [Routes -> MatchTypes],
           value \in [Routes -> Numbers], phone \in [Routes -> Phones \cup {NoPhone}] :
          /\ \A r \in Routes : Bindable(type[r], phone[r])
          /\ route = [r \in Routes |->
                [tenant |-> tenant[r], type |-> type[r], value |-> Normalized(value[r], phone[r]),
                 phone |-> phone[r], status |-> "draft", active |-> NoVersion]]
    BY Zenon DEF Init
<1>3. \A r \in Routes : /\ route[r] \in RouteRow
                        /\ route[r].status = "draft"
                        /\ route[r].active = NoVersion
                        /\ route[r].value = Normalized(route[r].value, route[r].phone)
    <2> SUFFICES ASSUME NEW r \in Routes
                 PROVE  /\ route[r] \in RouteRow
                        /\ route[r].status = "draft"
                        /\ route[r].active = NoVersion
                        /\ route[r].value = Normalized(route[r].value, route[r].phone)
        OBVIOUS
    <2>1. tenant[r] \in Tenants /\ type[r] \in MatchTypes /\ phone[r] \in Phones \cup {NoPhone} /\ value[r] \in Numbers
        OBVIOUS
    <2> DEFINE n == Normalized(value[r], phone[r])
    <2>2. n \in Numbers /\ Normalized(n, phone[r]) = n
        BY <2>1, NormalType
    <2>3. route[r] = [tenant |-> tenant[r], type |-> type[r], value |-> n, phone |-> phone[r],
                      status |-> "draft", active |-> NoVersion]
        BY <1>1
    <2> HIDE DEF n
    <2> QED
        BY <2>1, <2>2, <2>3 DEF RouteRow
<1>4. route \in [Routes -> RouteRow]
    BY <1>1, <1>3
<1>5. version \in [Routes -> [Versions -> VersionRow]]
    <2>1. version = [r \in Routes |-> [v \in Versions |->
              [state |-> IF v = 1 THEN "draft" ELSE "absent", definition |-> route[r].value]]]
        BY DEF Init
    <2>2. \A r \in Routes : route[r].value \in Numbers
        BY <1>3 DEF RouteRow
    <2>3. \A r \in Routes, v \in Versions :
              [state |-> IF v = 1 THEN "draft" ELSE "absent", definition |-> route[r].value] \in VersionRow
        BY <2>2 DEF VersionRow, VersionStates
    <2> QED
        BY <2>1, <2>3
<1>6. req \in [Requests -> RequestState] /\ ReqInv
    BY IdleFacts DEF Init, ReqInv
<1>7. UniqueInv /\ BoundNumberIsValue /\ ActiveNeverStale
    BY <1>3 DEF UniqueInv, BoundNumberIsValue, ActiveNeverStale
<1> QED
    BY <1>4, <1>5, <1>6, <1>7 DEF RouteInv, TypeOK

-----------------------------------------------------------------------------
(* What one request does to its locals, and one statement to a row.        *)

LEMMA Moved ==
    ASSUME RouteInv, NEW p \in Requests, NEW q \in RequestState, Prepared(q), Continue(p, q)
    PROVE  req' \in [Requests -> RequestState] /\ ReqInv'
<1>1. req \in [Requests -> RequestState] /\ ReqInv
    BY Types DEF RouteInv
<1>2. req' = [req EXCEPT ![p] = q]
    BY DEF Continue
<1> QED
    BY <1>1, <1>2 DEF ReqInv

\* A step of a request that writes no row.
LEMMA MovedOnly ==
    ASSUME RouteInv, NEW p \in Requests, NEW q \in RequestState, Prepared(q), Continue(p, q),
           UNCHANGED <<route, version>>
    PROVE  RouteInv'
<1>1. req' \in [Requests -> RequestState] /\ ReqInv'
    BY Moved
<1>2. TypeOK'
    BY <1>1 DEF RouteInv, TypeOK
<1>3. UniqueInv' /\ BoundNumberIsValue' /\ ActiveNeverStale'
    BY DEF RouteInv, UniqueInv, BoundNumberIsValue, ActiveNeverStale
<1> QED
    BY <1>1, <1>2, <1>3 DEF RouteInv

LEMMA Finished ==
    ASSUME RouteInv, NEW p \in Requests, Finish(p)
    PROVE  req' \in [Requests -> RequestState] /\ ReqInv'
BY IdleFacts, Moved DEF Finish

\* The index looks at the row that is written, so no two active routes agree.
LEMMA RowWritten ==
    ASSUME RouteInv, NEW r \in Routes, NEW row \in RouteRow, WriteRoute(r, row),
           row.value = Normalized(row.value, row.phone)
    PROVE  /\ route' \in [Routes -> RouteRow]
           /\ route'[r] = row
           /\ \A s \in Routes \ {r} : route'[s] = route[s]
           /\ UniqueInv'
           /\ BoundNumberIsValue'
<1>1. route \in [Routes -> RouteRow] /\ UniqueInv /\ BoundNumberIsValue
    BY Types DEF RouteInv
<1>2. route' = [route EXCEPT ![r] = row] /\ UniqueMatch(r, row)
    BY DEF WriteRoute
<1>3. /\ route' \in [Routes -> RouteRow]
      /\ route'[r] = row
      /\ \A s \in Routes \ {r} : route'[s] = route[s]
    BY <1>1, <1>2
<1>4. UniqueInv'
    BY <1>1, <1>2, <1>3 DEF UniqueInv, UniqueMatch
<1>5. BoundNumberIsValue'
    BY <1>1, <1>3 DEF BoundNumberIsValue
<1> QED
    BY <1>3, <1>4, <1>5

\* A row whose status or pointer is set keeps what it matches on.
LEMMA RowKeeps ==
    ASSUME RouteInv, NEW r \in Routes,
           NEW status \in {"draft", "active", "inactive"}, NEW v \in Versions \cup {NoVersion}
    PROVE  LET row == [route[r] EXCEPT !.status = status, !.active = v] IN
              /\ row \in RouteRow
              /\ row.value = Normalized(row.value, row.phone)
              /\ row.active = v
<1>1. route[r] \in RouteRow /\ route[r].value = Normalized(route[r].value, route[r].phone)
    BY Types DEF RouteInv, BoundNumberIsValue
<1> QED
    BY <1>1 DEF RouteRow

-----------------------------------------------------------------------------
(* Steps that read.                                                        *)

LEMMA UpdateReadStep ==
    ASSUME RouteInv, NEW p \in Requests, NEW r \in Routes,
           NEW type \in MatchTypes \cup {Same}, NEW value \in Numbers \cup {Same},
           NEW phone \in Phones \cup {NoPhone, Same}, UpdateRead(p, r, type, value, phone)
    PROVE  RouteInv'
<1> DEFINE bound == Given(phone, route[r].phone)
           v0    == Given(value, route[r].value)
           v     == Normalized(v0, bound)
           q     == [Idle EXCEPT !.pc = "update_write", !.route = r, !.type = type,
                                 !.phone = bound, !.value = v]
<1>1. route[r] \in RouteRow
    BY Types DEF RouteInv
<1>2. bound \in Phones \cup {NoPhone} /\ v0 \in Numbers
    BY <1>1 DEF Given, RouteRow
<1>3. v \in Numbers /\ v = Normalized(v, bound)
    BY <1>2, NormalType
<1>4. Continue(p, q) /\ UNCHANGED <<route, version>>
    BY DEF UpdateRead
<1> HIDE DEF bound, v, v0
<1>5. q \in RequestState /\ Prepared(q)
    BY <1>2, <1>3 DEF Idle, RequestState, PC, Prepared, Versioned
<1> QED
    BY <1>4, <1>5, MovedOnly

LEMMA ActivateReadStep ==
    ASSUME RouteInv, NEW p \in Requests, NEW r \in Routes, ActivateRead(p, r)
    PROVE  RouteInv'
<1> DEFINE q == [Idle EXCEPT !.pc = "check_activate", !.route = r,
                             !.type = route[r].type, !.value = route[r].value]
<1>1. route[r] \in RouteRow
    BY Types DEF RouteInv
<1>2. q \in RequestState /\ Prepared(q)
    BY <1>1 DEF Idle, RequestState, PC, Prepared, Versioned, RouteRow
<1> QED
    BY <1>2, MovedOnly DEF ActivateRead

LEMMA ValidateReadStep ==
    ASSUME RouteInv, NEW p \in Requests, NEW r \in Routes, NEW v \in Versions,
           ValidateRead(p, r, v)
    PROVE  RouteInv'
<1> DEFINE q == [Idle EXCEPT !.pc = "check_validate", !.route = r, !.version = v,
                             !.type = route[r].type, !.value = route[r].value]
<1>1. route[r] \in RouteRow
    BY Types DEF RouteInv
<1>2. q \in RequestState /\ Prepared(q)
    BY <1>1 DEF Idle, RequestState, PC, Prepared, Versioned, RouteRow
<1> QED
    BY <1>2, MovedOnly DEF ValidateRead

LEMMA CheckStep ==
    ASSUME RouteInv, NEW p \in Requests, CheckValidate(p) \/ CheckActivate(p)
    PROVE  RouteInv'
<1>1. PICK to \in {"mark_validated", "set_active"} :
          /\ Continue(p, [Idle EXCEPT !.pc = to, !.route = req[p].route,
                                      !.version = req[p].version])
          /\ UNCHANGED <<route, version>>
          /\ At(p, IF to = "set_active" THEN "check_activate" ELSE "check_validate")
    BY DEF CheckValidate, CheckActivate, CheckConflict
<1> DEFINE q == [Idle EXCEPT !.pc = to, !.route = req[p].route, !.version = req[p].version]
<1>2. req[p] \in RequestState /\ Prepared(req[p])
    BY Types DEF RouteInv, ReqInv
<1>3. q \in RequestState /\ Prepared(q)
    BY <1>1, <1>2 DEF Idle, RequestState, PC, Prepared, Versioned, At
<1> QED
    BY <1>1, <1>3, MovedOnly

LEMMA CreateVersionNumberStep ==
    ASSUME RouteInv, NEW p \in Requests, NEW r \in Routes, NEW definition \in Numbers,
           CreateVersionNumber(p, r, definition)
    PROVE  RouteInv'
<1>1. PICK n \in Versions \ {1} :
          Continue(p, [Idle EXCEPT !.pc = "insert_version", !.route = r,
                                   !.version = n, !.value = definition])
    BY DEF CreateVersionNumber
<1> DEFINE q == [Idle EXCEPT !.pc = "insert_version", !.route = r,
                             !.version = n, !.value = definition]
<1>2. q \in RequestState /\ Prepared(q)
    BY DEF Idle, RequestState, PC, Prepared, Versioned
<1> QED
    BY <1>1, <1>2, MovedOnly DEF CreateVersionNumber

LEMMA PublishReadStep ==
    ASSUME RouteInv, NEW p \in Requests, NEW r \in Routes, NEW v \in Versions,
           PublishRead(p, r, v)
    PROVE  RouteInv'
<1> DEFINE q == [Idle EXCEPT !.pc = "publish_supersede", !.route = r, !.version = v]
<1>2. q \in RequestState /\ Prepared(q)
    BY DEF Idle, RequestState, PC, Prepared, Versioned
<1> QED
    BY <1>2, MovedOnly DEF PublishRead

LEMMA RollbackSelectStep ==
    ASSUME RouteInv, NEW p \in Requests, NEW r \in Routes, RollbackSelect(p, r)
    PROVE  RouteInv'
<1>1. PICK v \in Versions :
          Continue(p, [Idle EXCEPT !.pc = "rollback_supersede", !.route = r, !.version = v])
    BY DEF RollbackSelect, Superseded
<1> DEFINE q == [Idle EXCEPT !.pc = "rollback_supersede", !.route = r, !.version = v]
<1>2. q \in RequestState /\ Prepared(q)
    BY DEF Idle, RequestState, PC, Prepared, Versioned
<1> QED
    BY <1>1, <1>2, MovedOnly DEF RollbackSelect

LEMMA SupersedeStep ==
    ASSUME RouteInv, NEW p \in Requests, PublishSupersede(p) \/ RollbackSupersede(p)
    PROVE  RouteInv'
<1>1. PICK to \in {"publish_commit", "rollback_commit"} :
          /\ Continue(p, [req[p] EXCEPT !.pc = to, !.snapshot = Published(req[p].route)])
          /\ UNCHANGED <<route, version>>
          /\ req[p].pc \in {"publish_supersede", "rollback_supersede"}
    BY DEF PublishSupersede, RollbackSupersede, Supersede, At
<1> DEFINE S == Published(req[p].route)
           q == [req[p] EXCEPT !.pc = to, !.snapshot = S]
<1>2. req[p] \in RequestState /\ Prepared(req[p])
    BY Types DEF RouteInv, ReqInv
<1>3. S \in SUBSET Versions
    BY DEF Published
<1>5. Continue(p, q)
    BY <1>1
<1> HIDE DEF S
<1>4. q \in RequestState /\ Prepared(q)
    BY <1>1, <1>2, <1>3 DEF RequestState, PC, Prepared, Versioned
<1> QED
    BY <1>1, <1>4, <1>5, MovedOnly

-----------------------------------------------------------------------------
(* Steps that write a row of inbound_routes only.                          *)

\* The pointer of the row and the versions stay.
LEMMA RowOnly ==
    ASSUME RouteInv, NEW r \in Routes, NEW row \in RouteRow, WriteRoute(r, row),
           row.value = Normalized(row.value, row.phone), row.active = route[r].active,
           UNCHANGED version, req' \in [Requests -> RequestState], ReqInv'
    PROVE  RouteInv'
<1>1. /\ route' \in [Routes -> RouteRow]
      /\ route'[r] = row
      /\ \A s \in Routes \ {r} : route'[s] = route[s]
      /\ UniqueInv' /\ BoundNumberIsValue'
    BY RowWritten
<1>2. TypeOK'
    BY <1>1 DEF RouteInv, TypeOK
<1>3. ActiveNeverStale'
    BY <1>1 DEF RouteInv, ActiveNeverStale
<1> QED
    BY <1>1, <1>2, <1>3 DEF RouteInv

LEMMA UpdateWriteStep ==
    ASSUME RouteInv, NEW p \in Requests, UpdateWrite(p)
    PROVE  RouteInv'
<1> DEFINE q   == req[p]
           r   == q.route
           t   == Given(q.type, route[r].type)
           row == [route[r] EXCEPT !.type = t, !.value = q.value, !.phone = q.phone]
<1>1. q \in RequestState /\ Prepared(q) /\ q.pc = "update_write"
    BY Types DEF RouteInv, ReqInv, UpdateWrite, At
<1>2. r \in Routes /\ q.value \in Numbers /\ q.value = Normalized(q.value, q.phone)
    BY <1>1 DEF Prepared
<1>3. route[r] \in RouteRow
    BY <1>2, Types DEF RouteInv
<1>4. t \in MatchTypes
    BY <1>1, <1>3 DEF Given, RequestState, RouteRow
<1>5. WriteRoute(r, row)
    BY DEF UpdateWrite
<1> HIDE DEF t
<1>6. /\ row \in RouteRow
      /\ row.value = Normalized(row.value, row.phone)
      /\ row.active = route[r].active
    BY <1>1, <1>2, <1>3, <1>4 DEF RouteRow, RequestState
<1> HIDE DEF row
<1> QED
    BY <1>2, <1>5, <1>6, Finished, RowOnly DEF UpdateWrite

LEMMA StatusStep ==
    ASSUME RouteInv, NEW r \in Routes, NEW status \in {"active", "inactive"},
           WriteRoute(r, [route[r] EXCEPT !.status = status]),
           UNCHANGED version, req' \in [Requests -> RequestState], ReqInv'
    PROVE  RouteInv'
<1> DEFINE row == [route[r] EXCEPT !.status = status]
<1>1. route[r] \in RouteRow /\ route[r].value = Normalized(route[r].value, route[r].phone)
    BY Types DEF RouteInv, BoundNumberIsValue
<1>2. /\ row \in RouteRow
      /\ row.value = Normalized(row.value, row.phone)
      /\ row.active = route[r].active
    BY <1>1 DEF RouteRow
<1> HIDE DEF row
<1>3. WriteRoute(r, row)
    BY DEF row
<1> QED
    BY <1>2, <1>3, RowOnly

LEMMA SetActiveStep ==
    ASSUME RouteInv, NEW p \in Requests, SetActive(p)
    PROVE  RouteInv'
<1>1. req[p].route \in Routes
    BY DEF RouteInv, ReqInv, Prepared, SetActive, At
<1> QED
    BY <1>1, Finished, StatusStep DEF SetActive

LEMMA DeactivateStep ==
    ASSUME RouteInv, NEW r \in Routes, Deactivate(r)
    PROVE  RouteInv'
<1>1. req' \in [Requests -> RequestState] /\ ReqInv'
    BY Types DEF Deactivate, RouteInv, ReqInv
<1> QED
    BY <1>1, StatusStep DEF Deactivate

-----------------------------------------------------------------------------
(* Steps that write route_versions.                                        *)

\* One version changes and is not stale, or was never live.
LEMMA VersionWritten ==
    ASSUME RouteInv, NEW p \in Requests, NEW r \in Routes, NEW v \in Versions,
           NEW row \in VersionRow,
           version' = [version EXCEPT ![r][v] = row],
           row.state \in {"published", "validated"} \/ version[r][v].state = "absent",
           UNCHANGED route, Finish(p)
    PROVE  RouteInv'
<1>1. version \in [Routes -> [Versions -> VersionRow]] /\ ActiveNeverStale
    BY Types DEF RouteInv
<1>2. version' \in [Routes -> [Versions -> VersionRow]]
    BY <1>1
<1>3. req' \in [Requests -> RequestState] /\ ReqInv'
    BY Finished
<1>4. \A s \in Routes, w \in Versions : version'[s][w] = version[s][w] \/ (s = r /\ w = v /\ version'[s][w] = row)
    BY <1>1
<1>a. \A s \in Routes : route[s] \in RouteRow
    BY Types DEF RouteInv
<1>5. ActiveNeverStale'
    <2> SUFFICES ASSUME NEW s \in Routes, route[s].active # NoVersion
                 PROVE  version'[s][route[s].active].state \in {"published", "validated"}
        BY DEF ActiveNeverStale
    <2>1. route[s].active \in Versions
        BY <1>a DEF RouteRow
    <2>2. version[s][route[s].active].state \in {"published", "validated"}
        BY <1>1 DEF ActiveNeverStale
    <2> QED
        BY <1>4, <2>1, <2>2
<1>6. UniqueInv' /\ BoundNumberIsValue'
    BY DEF RouteInv, UniqueInv, BoundNumberIsValue
<1>7. TypeOK'
    BY <1>2, <1>3 DEF RouteInv, TypeOK
<1> QED
    BY <1>3, <1>5, <1>6, <1>7 DEF RouteInv

LEMMA MarkValidatedStep ==
    ASSUME RouteInv, NEW p \in Requests, MarkValidated(p)
    PROVE  RouteInv'
<1> DEFINE r == req[p].route
           v == req[p].version
           row == [version[r][v] EXCEPT !.state = "validated"]
<1>1. r \in Routes /\ v \in Versions
    BY DEF RouteInv, ReqInv, Prepared, Versioned, MarkValidated, At
<1>2. version[r][v] \in VersionRow
    BY <1>1, Types DEF RouteInv
<1>3. row \in VersionRow /\ row.state = "validated"
    BY <1>2 DEF VersionRow, VersionStates
<1>4. version' = [version EXCEPT ![r][v] = row]
    BY DEF MarkValidated
<1> HIDE DEF row, r, v
<1> QED
    BY <1>1, <1>3, <1>4, VersionWritten DEF MarkValidated

LEMMA InsertVersionStep ==
    ASSUME RouteInv, NEW p \in Requests, InsertVersion(p)
    PROVE  RouteInv'
<1> DEFINE r == req[p].route
           v == req[p].version
           row == [state |-> "draft", definition |-> req[p].value]
<1>1. r \in Routes /\ v \in Versions /\ req[p].value \in Numbers
    BY DEF RouteInv, ReqInv, Prepared, Versioned, InsertVersion, At
<1>2. row \in VersionRow
    BY <1>1 DEF VersionRow, VersionStates
<1>3. version' = [version EXCEPT ![r][v] = row] /\ version[r][v].state = "absent"
    BY DEF InsertVersion, Exists
<1> HIDE DEF row, r, v
<1> QED
    BY <1>1, <1>2, <1>3, VersionWritten DEF InsertVersion

\* The transaction leaves its own target published and the pointer on it.
LEMMA CommitStep ==
    ASSUME RouteInv, NEW p \in Requests, PublishCommit(p) \/ RollbackCommit(p)
    PROVE  RouteInv'
<1> DEFINE r == req[p].route
           v == req[p].version
           Row(status) == [route[r] EXCEPT !.active = v, !.status = status]
           V == [w \in Versions |->
                    IF w = v THEN [version[r][w] EXCEPT !.state = "published"]
                    ELSE IF w \in req[p].snapshot /\ version[r][w].state = "published"
                         THEN [version[r][w] EXCEPT !.state = "superseded"]
                         ELSE version[r][w]]
<1>1. r \in Routes /\ v \in Versions /\ Finish(p)
    BY DEF RouteInv, ReqInv, Prepared, Versioned, PublishCommit, RollbackCommit, At
<1>2. version \in [Routes -> [Versions -> VersionRow]] /\ route[r] \in RouteRow
    BY <1>1, Types DEF RouteInv
<1>3. version' = [version EXCEPT ![r] = V]
    BY DEF PublishCommit, RollbackCommit, SupersedeThenPublish
<1>4. V \in [Versions -> VersionRow] /\ V[v].state = "published"
    <2>1. \A w \in Versions : version[r][w] \in VersionRow
        BY <1>1, <1>2
    <2> QED
        BY <1>1, <2>1 DEF VersionRow, VersionStates
<1> HIDE DEF V
<1>5. /\ version' \in [Routes -> [Versions -> VersionRow]]
      /\ version'[r][v].state = "published"
      /\ \A s \in Routes \ {r} : version'[s] = version[s]
    BY <1>1, <1>2, <1>3, <1>4
<1>6. PICK status \in {"draft", "active", "inactive"} : WriteRoute(r, Row(status))
    <2>1. CASE PublishCommit(p)
        BY <2>1 DEF PublishCommit
    <2>2. CASE RollbackCommit(p)
        <3>1. [route[r] EXCEPT !.active = v] = Row(route[r].status)
            BY <1>2 DEF RouteRow
        <3>2. route[r].status \in {"draft", "active", "inactive"}
            BY <1>2 DEF RouteRow
        <3> QED
            BY <2>2, <3>1, <3>2 DEF RollbackCommit
    <2> QED
        BY <2>1, <2>2
<1> DEFINE row == Row(status)
<1>7. row \in RouteRow /\ row.value = Normalized(row.value, row.phone) /\ row.active = v
    <2>1. route[r].value = Normalized(route[r].value, route[r].phone)
        BY <1>1 DEF RouteInv, BoundNumberIsValue
    <2> QED
        BY <1>1, <1>2, <2>1 DEF RouteRow
<1>8. WriteRoute(r, row)
    BY <1>6
<1> HIDE DEF row
<1>9. /\ route' \in [Routes -> RouteRow]
      /\ route'[r].active = v
      /\ \A s \in Routes \ {r} : route'[s] = route[s]
      /\ UniqueInv' /\ BoundNumberIsValue'
    BY <1>1, <1>7, <1>8, RowWritten
<1>10. req' \in [Requests -> RequestState] /\ ReqInv'
    BY <1>1, Finished
<1>11. ActiveNeverStale'
    BY <1>1, <1>5, <1>9 DEF RouteInv, ActiveNeverStale
<1> QED
    BY <1>5, <1>9, <1>10, <1>11 DEF RouteInv, TypeOK

-----------------------------------------------------------------------------
LEMMA RequestStep ==
    ASSUME RouteInv, NEW p \in Requests, RowStep(p) \/ VersionStep(p) \/ Abort(p)
    PROVE  RouteInv'
<1>1. CASE RowStep(p)
    BY <1>1, UpdateReadStep, UpdateWriteStep, ActivateReadStep, CheckStep, SetActiveStep DEF RowStep
<1>2. CASE VersionStep(p)
    BY <1>2, ValidateReadStep, PublishReadStep, CheckStep, MarkValidatedStep,
       CreateVersionNumberStep, InsertVersionStep, SupersedeStep, CommitStep,
       RollbackSelectStep DEF VersionStep
<1>3. CASE Abort(p)
    BY <1>3, IdleFacts, MovedOnly DEF Abort, Finish
<1> QED
    BY <1>1, <1>2, <1>3

LEMMA NextRoute == RouteInv /\ [Next]_vars => RouteInv'
<1> SUFFICES ASSUME RouteInv, [Next]_vars PROVE RouteInv'
    OBVIOUS
<1>1. CASE Next
    BY <1>1, DeactivateStep, RequestStep DEF Next
<1>2. CASE UNCHANGED vars
    BY <1>2 DEF vars, RouteInv, TypeOK, ReqInv, UniqueInv, BoundNumberIsValue, ActiveNeverStale
<1> QED
    BY <1>1, <1>2

-----------------------------------------------------------------------------
\* The inductive invariant, for every number of routes, versions and requests.
THEOREM RouteInvariant == Spec => []RouteInv
BY InitRoute, NextRoute, PTL DEF Spec

\* Rows and requests keep their types.
THEOREM TypeCorrect == Spec => []TypeOK
<1>1. RouteInv => TypeOK
    BY DEF RouteInv
<1> QED
    BY <1>1, RouteInvariant, PTL

\* A bound route shows its phone number as its match value, whatever stale
\* copies its updates start from.
THEOREM BoundValue == Spec => []BoundNumberIsValue
<1>1. RouteInv => BoundNumberIsValue
    BY DEF RouteInv
<1> QED
    BY <1>1, RouteInvariant, PTL

\* In the dialplan lookup a called number reaches at most one route of the
\* tenant, for any number of tenants.
THEOREM OneRoutePerNumber == Spec => []DidUnambiguous
<1>1. RouteInv => DidUnambiguous
    <2> SUFFICES ASSUME RouteInv, NEW t \in Tenants, NEW number \in Numbers,
                        NEW r \in FoundForDialplan(t, number),
                        NEW s \in FoundForDialplan(t, number), r # s
                 PROVE  FALSE
        BY DEF DidUnambiguous
    <2>0. /\ r \in Routes /\ s \in Routes /\ route[r].tenant = route[s].tenant
          /\ Answers(r, number) /\ Answers(s, number)
        BY DEF FoundForDialplan
    <2>1. route[r].value = number /\ route[s].value = number
        BY <2>0 DEF RouteInv, BoundNumberIsValue, Answers
    <2> QED
        BY <2>0, <2>1 DEF RouteInv, UniqueInv, Answers
<1> QED
    BY <1>1, RouteInvariant, PTL

\* The active version of a route is never a superseded one.
THEOREM ActiveCurrent == Spec => []ActiveNeverStale
<1>1. RouteInv => ActiveNeverStale
    BY DEF RouteInv
<1> QED
    BY <1>1, RouteInvariant, PTL
=============================================================================
