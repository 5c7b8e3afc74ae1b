---------------------------- MODULE InboundRoutes ----------------------------
(***************************************************************************)
(* The inbound routes of some tenants: the API requests of                 *)
(* InboundRouteService over the rows of inbound_routes and route_versions, *)
(* and the lookups that resolve a called number, for the dialplan of one   *)
(* tenant's domain and for a call of which only the number is known.       *)
(*                                                                         *)
(* A route has two lives.  Its row holds what the lookup matches on, and   *)
(* its versions go through a publish lifecycle of their own.  A request is *)
(* a sequence of statements with an await between each two; what it read   *)
(* before an await it still believes after it.                             *)
(*                                                                         *)
(* A phone number is named by its e164_number, unique in a tenant and      *)
(* never updated; nothing keeps two tenants from having the same one.  The *)
(* check that a target exists is left open: it may end the request or not. *)
(* The name, the target and the draft pointer of a route, which neither    *)
(* lookup nor lifecycle reads, are left out.                               *)
(***************************************************************************)
EXTENDS Integers

CONSTANTS
    Tenants,
    Routes,         \* the inbound routes, each of one tenant
    NoRoute,        \* of a request that is on none
    MaxVersion,     \* bound: version numbers run from 1 to MaxVersion
    MatchTypes,     \* did, trunk, pattern
    Numbers,        \* the match values: called numbers
    Phones,         \* the numbers that are rows of phone_numbers, in each tenant
    NoPhone,        \* phone_number_id IS NULL
    Same,           \* a field the body of a PATCH does not carry
    Requests        \* slots of API requests in progress

ASSUME RouteAssumption ==
    /\ MaxVersion \in Nat \ {0}
    /\ "did" \in MatchTypes
    /\ Phones \subseteq Numbers
    /\ NoRoute \notin Routes
    /\ NoPhone \notin Phones
    /\ Same \notin MatchTypes \cup Numbers \cup Phones \cup {NoPhone}

VARIABLES
    route,          \* inbound_routes
    version,        \* route_versions, by route and version_number
    req             \* the locals of each request

vars == <<route, version, req>>

Versions  == 1..MaxVersion
NoVersion == 0
VersionStates == {"absent", "draft", "validated", "published", "superseded"}

RouteRow ==
    [tenant : Tenants,
     type   : MatchTypes,
     value  : Numbers,
     phone  : Phones \cup {NoPhone},
     status : {"draft", "active", "inactive"},
     active : Versions \cup {NoVersion}]

\* The definition of a version is the match_value it asks for.
VersionRow == [state : VersionStates, definition : Numbers]

PC == {"idle", "update_write", "check_activate", "set_active",
       "check_validate", "mark_validated", "insert_version", "publish_supersede",
       "publish_commit", "rollback_supersede", "rollback_commit"}

\* What a request may hold of a row it read, or means to write to one.
RequestState ==
    [pc       : PC,
     route    : Routes \cup {NoRoute},
     type     : MatchTypes \cup {Same},
     value    : Numbers \cup {Same},
     phone    : Phones \cup {NoPhone},
     version  : Versions \cup {NoVersion},
     snapshot : SUBSET Versions]    \* published rows the open transaction saw

TypeOK ==
    /\ route \in [Routes -> RouteRow]
    /\ version \in [Routes -> [Versions -> VersionRow]]
    /\ req \in [Requests -> RequestState]

Idle == [pc |-> "idle", route |-> NoRoute, type |-> Same,
         value |-> Same, phone |-> NoPhone, version |-> NoVersion, snapshot |-> {}]

\* normalizePhoneNumberBinding: a phone number may be bound to a did only, and
\* brings its own number as the match value.
Bindable(type, phone)     == phone # NoPhone => type = "did"
Normalized(value, phone)  == IF phone = NoPhone THEN value ELSE phone

\* Every route has just been created, with version 1 as its draft.
Init ==
    /\ \E tenant \in [Routes -> Tenants], type \in [Routes -> MatchTypes],
          value \in [Routes -> Numbers], phone \in [Routes -> Phones \cup {NoPhone}] :
          /\ \A r \in Routes : Bindable(type[r], phone[r])
          /\ route = [r \in Routes |->
                [tenant |-> tenant[r], type |-> type[r], value |-> Normalized(value[r], phone[r]),
                 phone |-> phone[r], status |-> "draft", active |-> NoVersion]]
    /\ version = [r \in Routes |-> [v \in Versions |->
          [state |-> IF v = 1 THEN "draft" ELSE "absent",
           definition |-> route[r].value]]]
    /\ req = [p \in Requests |-> Idle]

At(p, pc)      == req[p].pc = pc
Continue(p, q) == req' = [req EXCEPT ![p] = q]
Finish(p)      == Continue(p, Idle)

Exists(r, v)   == version[r][v].state # "absent"
Published(r)   == {v \in Versions : version[r][v].state = "published"}
Superseded(r)  == {v \in Versions : version[r][v].state = "superseded"}

\* inbound_routes_active_unique_match, checked by each statement that writes
\* a row: of a tenant's active routes of a type at most one has a match value.
UniqueMatch(r, row) ==
    row.status = "active" =>
        \A s \in Routes \ {r} : route[s].status = "active" =>
            \/ route[s].tenant # row.tenant
            \/ route[s].type # row.type
            \/ route[s].value # row.value

\* Slip: no index, only the checks the requests make themselves.
WriteRouteUnindexed(r, row) ==
    route' = [route EXCEPT ![r] = row]

WriteRoute(r, row) ==
    /\ UniqueMatch(r, row)
    /\ route' = [route EXCEPT ![r] = row]

-----------------------------------------------------------------------------
(* update: a PATCH of the row, whatever its status.                        *)

Given(field, current) == IF field = Same THEN current ELSE field

\* Slip: the phone number is stored, its number is not copied.
UpdateReadUnnormalized(p, r, type, value, phone) ==
    /\ At(p, "idle")
    /\ type # Same \/ value # Same \/ phone # Same
    /\ LET bound == Given(phone, route[r].phone) IN
          /\ Bindable(Given(type, route[r].type), bound)
          /\ Continue(p, [Idle EXCEPT
                !.pc = "update_write", !.route = r, !.type = type, !.phone = bound,
                !.value = Given(value, route[r].value)])
    /\ UNCHANGED <<route, version>>

\* The match type is checked against the row as it was read, and written only
\* when the body carries one; the match value and the phone number are
\* written together, the row's own when the body has none.
UpdateRead(p, r, type, value, phone) ==
    /\ At(p, "idle")
    /\ type # Same \/ value # Same \/ phone # Same
    /\ LET bound == Given(phone, route[r].phone) IN
          /\ Bindable(Given(type, route[r].type), bound)
          /\ Continue(p, [Idle EXCEPT
                !.pc = "update_write", !.route = r, !.type = type, !.phone = bound,
                !.value = Normalized(Given(value, route[r].value), bound)])
    /\ UNCHANGED <<route, version>>

UpdateWrite(p) ==
    /\ At(p, "update_write")
    /\ LET q == req[p] IN
          WriteRoute(q.route, [route[q.route] EXCEPT
             !.type = Given(q.type, @), !.value = q.value, !.phone = q.phone])
    /\ Finish(p)
    /\ UNCHANGED version

-----------------------------------------------------------------------------
(* validate and activate: read the route, look for an active route of the  *)
(* tenant with the match it had, and write.  deactivate has nothing to check.          *)

ValidateRead(p, r, v) ==
    /\ At(p, "idle")
    /\ Exists(r, v)
    /\ Continue(p, [Idle EXCEPT
          !.pc = "check_validate", !.route = r, !.version = v,
          !.type = route[r].type, !.value = route[r].value])
    /\ UNCHANGED <<route, version>>

ActivateRead(p, r) ==
    /\ At(p, "idle")
    /\ Continue(p, [Idle EXCEPT
          !.pc = "check_activate", !.route = r,
          !.type = route[r].type, !.value = route[r].value])
    /\ UNCHANGED <<route, version>>

\* hasConflictingActiveRoute
CheckConflict(p, from, to) ==
    /\ At(p, from)
    /\ ~ \E s \in Routes \ {req[p].route} :
            /\ route[s].tenant = route[req[p].route].tenant
            /\ route[s].status = "active"
            /\ route[s].type = req[p].type
            /\ route[s].value = req[p].value
    /\ Continue(p, [Idle EXCEPT
          !.pc = to, !.route = req[p].route, !.version = req[p].version])
    /\ UNCHANGED <<route, version>>

CheckValidate(p) == CheckConflict(p, "check_validate", "mark_validated")
CheckActivate(p) == CheckConflict(p, "check_activate", "set_active")

\* markVersionValidated: WHERE names the row only, whatever its state is.
MarkValidated(p) ==
    /\ At(p, "mark_validated")
    /\ version' = [version EXCEPT ![req[p].route][req[p].version].state = "validated"]
    /\ Finish(p)
    /\ UNCHANGED route

SetActive(p) ==
    /\ At(p, "set_active")
    /\ WriteRoute(req[p].route, [route[req[p].route] EXCEPT !.status = "active"])
    /\ Finish(p)
    /\ UNCHANGED version

Deactivate(r) ==
    /\ WriteRoute(r, [route[r] EXCEPT !.status = "inactive"])
    /\ UNCHANGED <<version, req>>

-----------------------------------------------------------------------------
(* createVersion, publish and rollback.                                    *)

\* nextVersionNumber, read before the transaction of the INSERT.
CreateVersionNumber(p, r, definition) ==
    /\ At(p, "idle")
    /\ \E n \in Versions \ {1} :
          /\ Exists(r, n - 1)
          /\ \A v \in Versions : Exists(r, v) => v < n
          /\ Continue(p, [Idle EXCEPT !.pc = "insert_version", !.route = r,
                             !.version = n, !.value = definition])
    /\ UNCHANGED <<route, version>>

InsertVersion(p) ==
    /\ At(p, "insert_version")
    /\ ~ Exists(req[p].route, req[p].version)
    /\ version' = [version EXCEPT ![req[p].route][req[p].version] =
          [state |-> "draft", definition |-> req[p].value]]
    /\ Finish(p)
    /\ UNCHANGED route

PublishRead(p, r, v) ==
    /\ At(p, "idle")
    /\ version[r][v].state = "validated"
    /\ Continue(p, [Idle EXCEPT !.pc = "publish_supersede", !.route = r, !.version = v])
    /\ UNCHANGED <<route, version>>

\* BEGIN and the start of the UPDATE that supersedes what is published: under
\* READ COMMITTED it picks its rows from the snapshot of this moment.
Supersede(p, from, to) ==
    /\ At(p, from)
    /\ Continue(p, [req[p] EXCEPT !.pc = to, !.snapshot = Published(req[p].route)])
    /\ UNCHANGED <<route, version>>

PublishSupersede(p)  == Supersede(p, "publish_supersede", "publish_commit")
RollbackSupersede(p) == Supersede(p, "rollback_supersede", "rollback_commit")

\* Slip: the target is marked published before the others are superseded.
PublishThenSupersede(p) ==
    LET q == req[p] IN
        version' = [version EXCEPT ![q.route] = [w \in Versions |->
            IF w \in q.snapshot /\ version[q.route][w].state = "published"
            THEN [version[q.route][w] EXCEPT !.state = "superseded"]
            ELSE IF w = q.version
                 THEN [version[q.route][w] EXCEPT !.state = "published"]
                 ELSE version[q.route][w]]]

\* The rest of the transaction, up to COMMIT: the rows of the snapshot that
\* are still published are superseded, then the target is published.
SupersedeThenPublish(p) ==
    LET q == req[p] IN
        version' = [version EXCEPT ![q.route] = [w \in Versions |->
            IF w = q.version
            THEN [version[q.route][w] EXCEPT !.state = "published"]
            ELSE IF w \in q.snapshot /\ version[q.route][w].state = "published"
                 THEN [version[q.route][w] EXCEPT !.state = "superseded"]
                 ELSE version[q.route][w]]]

PublishCommit(p) ==
    /\ At(p, "publish_commit")
    /\ SupersedeThenPublish(p)
    /\ WriteRoute(req[p].route, [route[req[p].route] EXCEPT
          !.active = req[p].version, !.status = "active"])
    /\ Finish(p)

\* The newest superseded version, found inside the transaction.
RollbackSelect(p, r) ==
    /\ At(p, "idle")
    /\ \E v \in Superseded(r) :
          /\ \A w \in Superseded(r) : w <= v
          /\ Continue(p, [Idle EXCEPT !.pc = "rollback_supersede", !.route = r, !.version = v])
    /\ UNCHANGED <<route, version>>

\* The pointer moves; the status, and all that the lookup matches on, stay.
RollbackCommit(p) ==
    /\ At(p, "rollback_commit")
    /\ SupersedeThenPublish(p)
    /\ WriteRoute(req[p].route, [route[req[p].route] EXCEPT !.active = req[p].version])
    /\ Finish(p)

\* A request ends early: an error reply, a statement the index or the unique
\* version number refuses, whose transaction is rolled back, or a crash.
Abort(p) ==
    /\ ~ At(p, "idle")
    /\ Finish(p)
    /\ UNCHANGED <<route, version>>

-----------------------------------------------------------------------------
RowStep(p) ==
    \/ \E r \in Routes, type \in MatchTypes \cup {Same}, value \in Numbers \cup {Same},
          phone \in Phones \cup {NoPhone, Same} : UpdateRead(p, r, type, value, phone)
    \/ UpdateWrite(p)
    \/ \E r \in Routes : ActivateRead(p, r)
    \/ CheckActivate(p)
    \/ SetActive(p)

VersionStep(p) ==
    \/ \E r \in Routes, v \in Versions : ValidateRead(p, r, v) \/ PublishRead(p, r, v)
    \/ CheckValidate(p)
    \/ MarkValidated(p)
    \/ \E r \in Routes, definition \in Numbers : CreateVersionNumber(p, r, definition)
    \/ InsertVersion(p)
    \/ PublishSupersede(p)
    \/ PublishCommit(p)
    \/ \E r \in Routes : RollbackSelect(p, r)
    \/ RollbackSupersede(p)
    \/ RollbackCommit(p)

Next ==
    \/ \E r \in Routes : Deactivate(r)
    \/ \E p \in Requests : RowStep(p) \/ VersionStep(p) \/ Abort(p)

Spec == Init /\ [][Next]_vars

-----------------------------------------------------------------------------
(* The lookups.  Routes by trunk and by pattern come after the did routes, *)
(* and only in the second lookup.                                          *)

\* An active did route answers for the number of the phone number it is bound
\* to, and for its match value when it has none.
Answers(r, number) ==
    /\ route[r].status = "active"
    /\ route[r].type = "did"
    /\ number = Normalized(route[r].value, route[r].phone)

FoundForDialplan(t, number) ==
    {r \in Routes : route[r].tenant = t /\ Answers(r, number)}

\* The lookup of a call from a trunk has no tenant to ask for: the rows, of
\* any tenant, among which ORDER BY leaves the first to chance.
FoundForCall(number) ==
    LET answering == {r \in Routes : Answers(r, number)}
        bound     == {r \in answering : route[r].phone # NoPhone}
    IN  IF bound # {} THEN bound ELSE answering

-----------------------------------------------------------------------------
(* Properties.                                                             *)

\* A called number reaches one route of the tenant whose domain was dialled.
\* The lookup takes the first row of an order that may not tell two such
\* routes apart; what makes it deterministic is the index, which knows match
\* values only, together with every writer of a row keeping the value equal to
\* the bound number.
DidUnambiguous ==
    \A t \in Tenants, number \in Numbers :
        \A r, s \in FoundForDialplan(t, number) : r = s

\* The active version of a route was published and never superseded since,
\* however publishes, rollbacks and checks of one route interleave.
ActiveNeverStale ==
    \A r \in Routes : route[r].active # NoVersion =>
        version[r][route[r].active].state \in {"published", "validated"}

\* A route bound to a phone number shows that number as its match value,
\* whatever updates it from a stale copy: the lookup goes by the one, the
\* unique index and the conflict checks by the other.
BoundNumberIsValue ==
    \A r \in Routes : route[r].value = Normalized(route[r].value, route[r].phone)

(* What the documents promise and the code does not keep.                  *)

\* When a route that has a live version goes to another one, by a publish or
\* by a rollback, and the two ask for different numbers, then what the lookup
\* matches on changes.
ActivationReachesLookup ==
    [][\A r \in Routes :
          LET from == route[r].active
              to   == route'[r].active IN
          /\ from # NoVersion
          /\ version[r][from].definition # version[r][to].definition
          => route'[r].value # route[r].value]_vars

\* The lookup of a call resolves its number to one tenant.
CallFindsOneTenant ==
    \A number \in Numbers : \A r, s \in FoundForCall(number) :
        route[r].tenant = route[s].tenant

\* A phone number is bound to a did route only.
PhoneIsDid == \A r \in Routes : Bindable(route[r].type, route[r].phone)
=============================================================================
