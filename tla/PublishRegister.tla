--------------------------- MODULE PublishRegister ---------------------------
(***************************************************************************)
(* What a publish lifecycle promises to those who read the active version: *)
(* it changes in one step from one version to another, each of them was    *)
(* checked before it went on the air, no check is ever taken back, and     *)
(* what went on the air once is never said not to have.                    *)
(*                                                                         *)
(* PublishLifecycle and EnterpriseLifecycle implement this.  Whether it    *)
(* is a publish or a rollback, and who decided it, is theirs.              *)
(***************************************************************************)
CONSTANTS Versions, NoVersion

VARIABLES
    checked,        \* versions that passed a check
    aired,          \* versions that are, or were, on the air
    active          \* the version new readers get

vars == <<checked, aired, active>>

Init == checked = {} /\ aired = {} /\ active = NoVersion

Check(v) ==
    /\ checked' = checked \cup {v}
    /\ UNCHANGED <<aired, active>>

GoLive(v) ==
    /\ v \in checked
    /\ aired' = aired \cup {v}
    /\ active' = v
    /\ UNCHANGED checked

Next == \E v \in Versions : Check(v) \/ GoLive(v)

Spec == Init /\ [][Next]_vars
=============================================================================
