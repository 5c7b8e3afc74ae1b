---------------------------- MODULE RetentionPurge ----------------------------
(***************************************************************************)
(* RetentionPurgeService.run for one tenant, beside the API requests that  *)
(* place and release legal holds, and those by which users delete their    *)
(* voicemail.                                                              *)
(*                                                                         *)
(* For each category of data with a retention period a run purges, in one  *)
(* statement, the rows that are past the cutoff and under no active hold.  *)
(* Under READ COMMITTED that statement reads rows and holds from the       *)
(* snapshot of its start, and checks again, of a row another transaction   *)
(* has changed since, only what the row itself says.                       *)
(* Media have a file beside the row: the paths are collected by a SELECT   *)
(* of their own before, and the files deleted one by one after.  The last  *)
(* step of a category is the audit row.  Each step is an await; nothing    *)
(* keeps two runs apart, and a run can end anywhere.                       *)
(*                                                                         *)
(* A recording names the rows of every category that belong to it: its     *)
(* own, and the analysis with its transcript.  Dry runs change nothing and *)
(* are left out, as are the categories that differ by their table only.    *)
(***************************************************************************)
EXTENDS Naturals, Sequences

CONSTANTS
    Recordings,
    Plan,           \* buildPlans: the categories, in their order
    Media,          \* those with files: recording, voicemail
    UserDeleted,    \* those whose rows their users delete as well: voicemail
    Derived,        \* those of recording_analysis_requests: transcript, summary
    Holds,          \* identities of legal_hold_requests
    Jobs,           \* purge runs that may be in progress at once
    Actors,         \* actorIds a run may be started with
    UuidActors,     \* those the uuid column actor_id accepts
    NoActor         \* none given: actor_id IS NULL

Kinds == {Plan[i] : i \in DOMAIN Plan}

ASSUME RetentionAssumption ==
    /\ Plan \in Seq(STRING)
    /\ Plan # <<>>
    /\ Media \subseteq Kinds
    /\ UserDeleted \subseteq Kinds
    /\ Derived \subseteq Kinds \ Media
    /\ "all" \notin Kinds

VARIABLES
    kept,           \* by category, the recordings whose row still holds data
    file,           \* by category of media, those whose file is in storage
    hold,           \* legal_hold_requests
    audit,          \* tenant_audit_log: a row per purged category of a run
    job,            \* the locals of each run
    guarded         \* history, by hold: the data that was whole when it was placed

purgeVars == <<kept, file, hold, audit, job, guarded>>

Items == [kind : Kinds, of : Recordings]

\* What resource_id names: nothing (all of the type), the id of a row of the
\* type, the call, or for derived data the recording.
Scope ==
    [type : Kinds \cup {"all"},
     ref  : {"any", "row", "call", "recording"},
     of   : Recordings]

HoldRow == [status : {"absent", "active", "released"}, scope : Scope]

JobState ==
    [pc     : {"idle", "category", "collect", "purge", "commit", "delete", "audit"},
     actor  : Actors \cup {NoActor},
     step   : DOMAIN Plan,              \* place in the plan
     due    : SUBSET Recordings,        \* rows past the cutoff
     paths  : SUBSET Recordings,        \* files collected and not yet tried
     picked : SUBSET Recordings,        \* rows the open statement is to purge
     purged : SUBSET Recordings]        \* the rows record_count counts

AuditRow == [kind : Kinds, job : Jobs, rows : SUBSET Recordings]

PurgeTypeOK ==
    /\ kept \in [Kinds -> SUBSET Recordings]
    /\ file \in [Media -> SUBSET Recordings]
    /\ hold \in [Holds -> HoldRow]
    /\ audit \subseteq AuditRow
    /\ job \in [Jobs -> JobState]
    /\ guarded \in [Holds -> SUBSET Items]

PurgeInit ==
    /\ kept = [k \in Kinds |-> Recordings]
    /\ file = [k \in Media |-> Recordings]
    /\ hold \in [Holds -> [status : {"absent"}, scope : Scope]]
    /\ audit = {}
    /\ job = [j \in Jobs |-> [pc |-> "idle", actor |-> NoActor, step |-> 1,
                             due |-> {}, paths |-> {}, picked |-> {}, purged |-> {}]]
    /\ guarded = [h \in Holds |-> {}]

-----------------------------------------------------------------------------
(* Legal holds.                                                            *)

\* The NOT EXISTS clauses: a hold on a recording's id extends to
\* what was derived from it, one on its call does not.
Names(scope, kind, r) ==
    \/ scope.ref = "any"
    \/ scope.of = r /\ scope.ref = "row"
    \/ scope.of = r /\ scope.ref = IF kind \in Derived THEN "recording" ELSE "call"

Covers(scope, kind, r) ==
    \/ scope.type = "all"
    \/ scope.type = kind /\ Names(scope, kind, r)
    \/ kind \in Derived /\ scope.type = "recording" /\ scope.ref = "row" /\ scope.of = r

OnHold(kind, r) ==
    \E h \in Holds : hold[h].status = "active" /\ Covers(hold[h].scope, kind, r)

Kind(j)        == Plan[job[j].step]
At(j, pc)      == job[j].pc = pc

\* A run has its file on its list, or its row in the statement it has open.
Condemned(i) ==
    \E j \in Jobs : i.kind = Kind(j) /\ i.of \in job[j].paths \cup job[j].picked

\* The data is there, and no run is about to purge it.
Whole(i) ==
    /\ i.of \in kept[i.kind]
    /\ i.kind \in Media => i.of \in file[i.kind]
    /\ ~ Condemned(i)

CreateLegalHold(h) ==
    /\ hold[h].status = "absent"
    /\ hold' = [hold EXCEPT ![h].status = "active"]
    /\ guarded' = [guarded EXCEPT ![h] =
          {i \in Items : Covers(hold[h].scope, i.kind, i.of) /\ Whole(i)}]
    /\ UNCHANGED <<kept, file, audit, job>>

ReleaseLegalHold(h) ==
    /\ hold[h].status = "active"
    /\ hold' = [hold EXCEPT ![h].status = "released"]
    /\ UNCHANGED <<kept, file, audit, job, guarded>>

\* softDelete of a voicemail message, and the same of the self-service: no hold
\* is asked for, and the file stays.
SoftDelete(k, r) ==
    /\ k \in UserDeleted
    /\ r \in kept[k]
    /\ kept' = [kept EXCEPT ![k] = @ \ {r}]
    /\ UNCHANGED <<file, hold, audit, job, guarded>>

-----------------------------------------------------------------------------
(* The run.                                                                *)

Continue(j, s) == job' = [job EXCEPT ![j] = s]

Blank(j, pc, step) ==
    [job[j] EXCEPT !.pc = pc, !.step = step, !.due = {}, !.paths = {},
                   !.picked = {}, !.purged = {}]

EndRun(j) == Continue(j, [Blank(j, "idle", 1) EXCEPT !.actor = NoActor])

NextCategory(j) ==
    IF job[j].step = Len(Plan) THEN EndRun(j)
    ELSE Continue(j, Blank(j, "category", job[j].step + 1))

StartRun(j, actor) ==
    /\ At(j, "idle")
    /\ Continue(j, [Blank(j, "category", 1) EXCEPT !.actor = actor])
    /\ UNCHANGED <<kept, file, hold, audit, guarded>>

\* The tenant's policy keeps this category for ever.
SkipCategory(j) ==
    /\ At(j, "category")
    /\ NextCategory(j)
    /\ UNCHANGED <<kept, file, hold, audit, guarded>>

\* The cutoff is the run's start less the period of the policy, which may
\* have been any when the run read it.
SetCutoff(j, due) ==
    /\ At(j, "category")
    /\ Continue(j, [job[j] EXCEPT
          !.pc = IF Kind(j) \in Media THEN "collect" ELSE "purge", !.due = due])
    /\ UNCHANGED <<kept, file, hold, audit, guarded>>

\* Slip: the SELECT of the paths has lost its NOT EXISTS.
CollectHeldPaths(j) ==
    /\ At(j, "collect")
    /\ Continue(j, [job[j] EXCEPT
          !.pc = "purge", !.paths = {r \in job[j].due : r \in kept[Kind(j)]}])
    /\ UNCHANGED <<kept, file, hold, audit, guarded>>

Eligible(j) ==
    {r \in job[j].due : r \in kept[Kind(j)] /\ ~ OnHold(Kind(j), r)}

CollectStoragePaths(j) ==
    /\ At(j, "collect")
    /\ Continue(j, [job[j] EXCEPT !.pc = "purge", !.paths = Eligible(j)])
    /\ UNCHANGED <<kept, file, hold, audit, guarded>>

\* The UPDATE, or for call records the DELETE, starts: rows and holds are
\* those of its snapshot.
PurgeEligible(j) ==
    /\ At(j, "purge")
    /\ Continue(j, [job[j] EXCEPT !.pc = "commit", !.picked = Eligible(j)])
    /\ UNCHANGED <<kept, file, hold, audit, guarded>>

Purged(j, rows) ==
    [job[j] EXCEPT !.pc = IF Kind(j) \in Media THEN "delete" ELSE "audit",
                   !.picked = {}, !.purged = rows]

\* Slip: a row that was deleted in between is deleted, and counted, again.
CommitUnchecked(j) ==
    /\ At(j, "commit")
    /\ kept' = [kept EXCEPT ![Kind(j)] = @ \ job[j].picked]
    /\ Continue(j, Purged(j, job[j].picked))
    /\ UNCHANGED <<file, hold, audit, guarded>>

\* It commits: of the rows picked those that still hold data are purged, and
\* returned.  The holds are not looked at again.
CommitPurge(j) ==
    /\ At(j, "commit")
    /\ LET rows == job[j].picked \cap kept[Kind(j)] IN
          /\ kept' = [kept EXCEPT ![Kind(j)] = @ \ rows]
          /\ Continue(j, Purged(j, rows))
    /\ UNCHANGED <<file, hold, audit, guarded>>

\* storage.delete succeeds, also for a file that is gone, or fails: that is
\* counted, and the file never tried again.
DeleteFile(j, r) ==
    /\ At(j, "delete")
    /\ r \in job[j].paths
    /\ \/ file' = [file EXCEPT ![Kind(j)] = @ \ {r}]
       \/ UNCHANGED file
    /\ Continue(j, [job[j] EXCEPT !.paths = @ \ {r}])
    /\ UNCHANGED <<kept, hold, audit, guarded>>

FilesDone(j) ==
    /\ At(j, "delete")
    /\ job[j].paths = {}
    /\ Continue(j, [job[j] EXCEPT !.pc = "audit"])
    /\ UNCHANGED <<kept, file, hold, audit, guarded>>

AuditNothing(j) ==
    /\ At(j, "audit")
    /\ job[j].purged = {}
    /\ NextCategory(j)
    /\ UNCHANGED <<kept, file, hold, audit, guarded>>

AuditDeletion(j) ==
    /\ At(j, "audit")
    /\ job[j].purged # {}
    /\ job[j].actor \in UuidActors \cup {NoActor}
    /\ audit' = audit \cup {[kind |-> Kind(j), job |-> j, rows |-> job[j].purged]}
    /\ NextCategory(j)
    /\ UNCHANGED <<kept, file, hold, guarded>>

\* An actorId that is no uuid: the INSERT is refused and run throws.
AuditRefused(j) ==
    /\ At(j, "audit")
    /\ job[j].purged # {}
    /\ job[j].actor \notin UuidActors \cup {NoActor}
    /\ EndRun(j)
    /\ UNCHANGED <<kept, file, hold, audit, guarded>>

\* A failed statement, or the end of the process.
BreakOff(j) ==
    /\ ~ At(j, "idle")
    /\ EndRun(j)
    /\ UNCHANGED <<kept, file, hold, audit, guarded>>

-----------------------------------------------------------------------------
RunStep(j) ==
    \/ \E actor \in Actors \cup {NoActor} : StartRun(j, actor)
    \/ SkipCategory(j)
    \/ \E due \in SUBSET Recordings : SetCutoff(j, due)
    \/ CollectStoragePaths(j)
    \/ PurgeEligible(j)
    \/ CommitPurge(j)
    \/ \E r \in Recordings : DeleteFile(j, r)
    \/ FilesDone(j)
    \/ AuditNothing(j)
    \/ AuditDeletion(j)
    \/ AuditRefused(j)
    \/ BreakOff(j)

PurgeNext ==
    \/ \E h \in Holds : CreateLegalHold(h) \/ ReleaseLegalHold(h)
    \/ \E k \in UserDeleted, r \in Recordings : SoftDelete(k, r)
    \/ \E j \in Jobs : RunStep(j)

PurgeSpec == PurgeInit /\ [][PurgeNext]_purgeVars

-----------------------------------------------------------------------------
(* Properties.                                                             *)

\* What was whole when a hold was placed, on no run's list of files and in no
\* purge statement under way, outlives every run while the hold is active:
\* row and file, although the two are purged by different steps and holds
\* come and go between them.  A row its user deletes keeps its file.
HoldProtects ==
    \A h \in Holds : hold[h].status = "active" =>
        \A i \in guarded[h] :
            /\ i.kind \notin UserDeleted => i.of \in kept[i.kind]
            /\ i.kind \in Media => i.of \in file[i.kind]

\* The audit log counts the deletion of a row once, also when two runs work
\* on the same category.
AuditedOnce ==
    \A a, b \in audit : a.kind = b.kind /\ a.rows \cap b.rows # {} => a = b

(* What the documents promise and the code does not keep.                  *)

\* No step deletes a row that is on hold: neither the purge statement that was
\* under way when the hold was placed, nor the user of the voicemail box.
HeldRowKept ==
    [][\A k \in Kinds : \A r \in kept[k] : OnHold(k, r) => r \in kept'[k]]_purgeVars

\* What is on hold keeps its file.
HeldFileKept ==
    \A k \in Media : \A r \in kept[k] : OnHold(k, r) => r \in file[k]

\* When no run is in progress, every row that a run purged is in the audit log.
PurgedIsAudited ==
    (\A j \in Jobs : At(j, "idle")) =>
        \A k \in Kinds \ UserDeleted : \A r \in Recordings \ kept[k] :
            \E a \in audit : a.kind = k /\ r \in a.rows

\* A purged row leaves no file behind.
PurgedFileIsGone ==
    (\A j \in Jobs : At(j, "idle")) =>
        \A k \in Media : file[k] \subseteq kept[k]

\* The transcript goes with its recording.
TranscriptGoesWithRecording ==
    (\A j \in Jobs : At(j, "idle")) =>
        \A k \in Media, d \in Derived : kept[d] \subseteq kept[k]
=============================================================================
