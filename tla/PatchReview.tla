----------------------------- MODULE PatchReview -----------------------------
(***************************************************************************)
(* The AI patches of one IVR flow: the requests of ivrAiPatchController,   *)
(* the workers that compute the diffs, and the versions of the flow that   *)
(* reviewers and editors make meanwhile.                                   *)
(*                                                                         *)
(* A graph is known by the AI diffs that went into it; a graph an editor   *)
(* sends is the editor's own and holds none.  What happens to a version    *)
(* after it was drafted is in PublishLifecycle: here every version stays a *)
(* draft, the state in which it can still be edited.  A version is named   *)
(* by its version_number; the number is unique and the draft pointer moves *)
(* with the INSERT, so the draft is the newest version.                    *)
(***************************************************************************)
EXTENDS Integers

CONSTANTS
    Patches,        \* rows of ivr_ai_patch_requests
    NoPatch,        \* of a request that is on none
    Diffs,          \* what a worker may come up with
    NoDiff,         \* diff_json IS NULL
    MaxVersion,     \* bound: version numbers run from 1 to MaxVersion
    Requests        \* slots of API requests in progress

ASSUME PatchAssumption ==
    /\ MaxVersion \in Nat \ {0}
    /\ NoPatch \notin Patches
    /\ NoDiff \notin Diffs

VARIABLES
    patch,          \* ivr_ai_patch_requests
    version,        \* flow_versions
    newest,         \* MAX(version_number), the draft of the flow
    req,            \* the locals of each request
    made            \* history: the versions accept made, and of which diff

vars == <<patch, version, newest, req, made>>

Versions  == 1..MaxVersion
NoVersion == 0

PatchRow ==
    [status  : {"absent", "queued", "processing", "completed", "failed",
                "accepted", "rejected"},
     version : Versions \cup {NoVersion},
     diff    : Diffs \cup {NoDiff}]

\* ai: the metadata holds an ai_lineage that asks for a human approval.
VersionRow == [diffs : SUBSET Diffs, ai : BOOLEAN]

PC == {"idle", "insert_patch", "load_version", "number_version",
       "insert_version", "mark_accepted", "mark_rejected"}

RequestState ==
    [pc      : PC,
     patch   : Patches \cup {NoPatch},
     diff    : Diffs \cup {NoDiff},
     version : Versions \cup {NoVersion},
     row     : VersionRow]          \* the version it is about to insert

TypeOK ==
    /\ patch \in [Patches -> PatchRow]
    /\ version \in [Versions -> VersionRow]
    /\ newest \in Versions
    /\ req \in [Requests -> RequestState]
    /\ made \subseteq [patch : Patches, version : Versions, diff : Diffs]

Unwritten == [diffs |-> {}, ai |-> FALSE]
Idle == [pc |-> "idle", patch |-> NoPatch, diff |-> NoDiff,
         version |-> NoVersion, row |-> Unwritten]

\* The flow has its first draft; nobody asked for a patch yet.
Init ==
    /\ patch = [x \in Patches |->
                  [status |-> "absent", version |-> NoVersion, diff |-> NoDiff]]
    /\ version = [v \in Versions |-> Unwritten]
    /\ newest = 1
    /\ req = [p \in Requests |-> Idle]
    /\ made = {}

At(p, pc)      == req[p].pc = pc
Continue(p, q) == req' = [req EXCEPT ![p] = q]
Finish(p)      == Continue(p, Idle)

-----------------------------------------------------------------------------
(* A patch is asked for, and a worker computes it.                         *)

\* getById: the draft the patch is for.
CreatePatchRead(p) ==
    /\ At(p, "idle")
    /\ Continue(p, [Idle EXCEPT !.pc = "insert_patch", !.version = newest])
    /\ UNCHANGED <<patch, version, newest, made>>

InsertPatch(p, x) ==
    /\ At(p, "insert_patch")
    /\ patch[x].status = "absent"
    /\ patch' = [patch EXCEPT ![x].status = "queued", ![x].version = req[p].version]
    /\ Finish(p)
    /\ UNCHANGED <<version, newest, made>>

ClaimPatch(x) ==
    /\ patch[x].status = "queued"
    /\ patch' = [patch EXCEPT ![x].status = "processing"]
    /\ UNCHANGED <<version, newest, req, made>>

\* Slip: a result is stored whenever it arrives.
CompletePatchAlways(x, status, diff) ==
    /\ patch[x].status # "absent"
    /\ patch' = [patch EXCEPT ![x].status = status, ![x].diff = diff]
    /\ UNCHANGED <<version, newest, req, made>>

\* completeIvrAiPatch: by any worker, whoever claimed it, and also when no one
\* did.  A worker may send its result more than once.
CompletePatch(x, status, diff) ==
    /\ patch[x].status \in {"queued", "processing"}
    /\ patch' = [patch EXCEPT ![x].status = status, ![x].diff = diff]
    /\ UNCHANGED <<version, newest, req, made>>

-----------------------------------------------------------------------------
(* accept and reject.                                                      *)

AcceptRead(p, x) ==
    /\ At(p, "idle")
    /\ patch[x].status = "completed"
    /\ patch[x].diff # NoDiff
    /\ Continue(p, [Idle EXCEPT !.pc = "load_version", !.patch = x,
                       !.diff = patch[x].diff, !.version = patch[x].version])
    /\ UNCHANGED <<patch, version, newest, made>>

\* Slip: the patch is marked first, and the version made afterwards.
LoadVersionAndAccept(p) ==
    /\ At(p, "load_version")
    /\ patch[req[p].patch].status = "completed"
    /\ patch' = [patch EXCEPT ![req[p].patch].status = "accepted"]
    /\ Continue(p, [req[p] EXCEPT !.pc = "number_version",
          !.row = [diffs |-> version[req[p].version].diffs \cup {req[p].diff}, ai |-> TRUE]])
    /\ UNCHANGED <<version, newest, made>>

\* getVersion and applyIvrDiff: the version the patch was asked for, as it is
\* now, draft of the flow or not.
LoadVersion(p) ==
    /\ At(p, "load_version")
    /\ Continue(p, [req[p] EXCEPT !.pc = "number_version",
          !.row = [diffs |-> version[req[p].version].diffs \cup {req[p].diff}, ai |-> TRUE]])
    /\ UNCHANGED <<patch, version, newest, made>>

\* nextVersionNumber, read before the transaction of the INSERT.
NumberVersion(p) ==
    /\ At(p, "number_version")
    /\ newest + 1 \in Versions
    /\ Continue(p, [req[p] EXCEPT !.pc = "insert_version", !.version = newest + 1])
    /\ UNCHANGED <<patch, version, newest, made>>

\* Slip: no UNIQUE (flow_id, version_number).
NumberIsFreeAlways(n) == TRUE

\* UNIQUE (flow_id, version_number), or the INSERT is refused.
NumberIsFree(n) == n > newest

\* createVersion: the row and the draft pointer in one transaction.  accept
\* goes on to mark the patch; an editor is done.
InsertVersion(p) ==
    /\ At(p, "insert_version")
    /\ NumberIsFree(req[p].version)
    /\ version' = [version EXCEPT ![req[p].version] = req[p].row]
    /\ newest' = req[p].version
    /\ IF req[p].patch = NoPatch
       THEN /\ Finish(p)
            /\ UNCHANGED made
       ELSE /\ Continue(p, [req[p] EXCEPT !.pc = "mark_accepted"])
            /\ made' = made \cup {[patch |-> req[p].patch, version |-> req[p].version,
                                   diff |-> req[p].diff]}
    /\ UNCHANGED patch

\* acceptIvrAiPatch: when another reviewer decided meanwhile it matches no
\* row, and the request ends with an error; the version is there all the same.
MarkAccepted(p) ==
    /\ At(p, "mark_accepted")
    /\ patch' = [patch EXCEPT ![req[p].patch].status = IF @ = "completed" THEN "accepted" ELSE @]
    /\ Finish(p)
    /\ UNCHANGED <<version, newest, made>>

RejectRead(p, x) ==
    /\ At(p, "idle")
    /\ patch[x].status = "completed"
    /\ Continue(p, [Idle EXCEPT !.pc = "mark_rejected", !.patch = x])
    /\ UNCHANGED <<patch, version, newest, made>>

MarkRejected(p) ==
    /\ At(p, "mark_rejected")
    /\ patch' = [patch EXCEPT ![req[p].patch].status = IF @ = "completed" THEN "rejected" ELSE @]
    /\ Finish(p)
    /\ UNCHANGED <<version, newest, made>>

-----------------------------------------------------------------------------
(* Editors: createVersion and updateVersionDefinition of ivrFlowController. *)

\* findById: without a graph in the body the newest version's is copied; its
\* metadata is not.  ai: the body carries an ai_context.
CreateVersionRead(p, copy, ai) ==
    /\ At(p, "idle")
    /\ Continue(p, [Idle EXCEPT !.pc = "number_version",
          !.row = [diffs |-> IF copy THEN version[newest].diffs ELSE {}, ai |-> ai]])
    /\ UNCHANGED <<patch, version, newest, made>>

\* metadata || the new metadata: a lineage stays.
EditVersion(v, ai) ==
    /\ v <= newest
    /\ version' = [version EXCEPT ![v] = [diffs |-> {}, ai |-> @.ai \/ ai]]
    /\ UNCHANGED <<patch, newest, req, made>>

\* A request ends early: an error reply, a refused INSERT or a crash.
Abort(p) ==
    /\ ~ At(p, "idle")
    /\ Finish(p)
    /\ UNCHANGED <<patch, version, newest, made>>

-----------------------------------------------------------------------------
Worker(x) ==
    \/ ClaimPatch(x)
    \/ \E diff \in Diffs \cup {NoDiff} : CompletePatch(x, "completed", diff)
    \/ CompletePatch(x, "failed", NoDiff)

Review(p) ==
    \/ CreatePatchRead(p)
    \/ \E x \in Patches : InsertPatch(p, x) \/ AcceptRead(p, x) \/ RejectRead(p, x)
    \/ LoadVersion(p)
    \/ NumberVersion(p)
    \/ InsertVersion(p)
    \/ MarkAccepted(p)
    \/ MarkRejected(p)

Edit(p) == \E copy, ai \in BOOLEAN : CreateVersionRead(p, copy, ai)

Next ==
    \/ \E x \in Patches : Worker(x)
    \/ \E p \in Requests : Review(p) \/ Edit(p) \/ Abort(p)
    \/ \E v \in Versions, ai \in BOOLEAN : EditVersion(v, ai)

Spec == Init /\ [][Next]_vars

-----------------------------------------------------------------------------
(* Properties.                                                             *)

\* A patch that says accepted was turned into a version, wherever the request
\* that accepted it, or another one, failed on the way.
AcceptedIsMade ==
    \A x \in Patches : patch[x].status = "accepted" => \E m \in made : m.patch = x

\* The diff a version was made of is the diff the patch shows, then and ever
\* after: a late or repeated result of a worker does not replace it under the
\* eyes of the reviewers.
MadeAsReviewed ==
    \A m \in made :
        /\ patch[m.patch].diff = m.diff
        /\ patch[m.patch].status \in {"completed", "accepted", "rejected"}

\* Concurrent requests that read the same newest number never write one
\* version over another's.
MadeApart ==
    \A m, n \in made : m.version = n.version => m = n

(* What documents and comments promise and the code does not keep.         *)

\* A version whose graph holds what an AI drafted asks for a human approval.
LineageFollowsDiff ==
    \A v \in Versions : v <= newest /\ version[v].diffs # {} => version[v].ai

\* "Reject a completed patch: no changes applied."
RejectedLeavesNothing ==
    \A m \in made : patch[m.patch].status # "rejected"

\* "Accept a completed patch: applies the diff to the flow's draft version",
\* so what the draft held so far is in the new one as well.
AcceptBuildsOnDraft ==
    [][made' # made => version[newest].diffs \subseteq version'[newest'].diffs]_vars
=============================================================================
