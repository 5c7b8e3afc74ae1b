----------------------------- MODULE ApplyOnce -----------------------------
(***************************************************************************)
(* What the table of apply requests promises: the command of a request     *)
(* runs at most once, and what the table records about it, once and for    *)
(* ever, is what happened.  A request may be lost: claimed by somebody who *)
(* never runs it or never says so.  GatewayApply implements this.          *)
(***************************************************************************)
EXTENDS Naturals

CONSTANT Requests

VARIABLES
    phase,      \* where each request is
    runs        \* how often its command was run

vars == <<phase, runs>>

\* answered and refused: the command has ended well or not, which is not yet
\* recorded; applied and failed: it is.
Phases == {"absent", "waiting", "taken", "answered", "refused", "applied", "failed", "lost"}

TypeOK ==
    /\ phase \in [Requests -> Phases]
    /\ runs \in [Requests -> 0..1]

Init ==
    /\ phase = [r \in Requests |-> "absent"]
    /\ runs = [r \in Requests |-> 0]

Move(r, from, to) ==
    /\ phase[r] = from
    /\ phase' = [phase EXCEPT ![r] = to]

Quietly(r, from, to) == Move(r, from, to) /\ UNCHANGED runs
Run(r)               == runs' = [runs EXCEPT ![r] = @ + 1]

Submit(r) == Quietly(r, "absent", "waiting")
Take(r)   == Quietly(r, "waiting", "taken")
Answer(r) == Move(r, "taken", "answered") /\ Run(r)
\* Who gets no answer cannot tell whether the command was run.
Refuse(r) == Move(r, "taken", "refused") /\ (Run(r) \/ UNCHANGED runs)
Lose(r)   ==
    \/ Quietly(r, "waiting", "lost")
    \/ Move(r, "taken", "lost") /\ (Run(r) \/ UNCHANGED runs)
Record(r) == Quietly(r, "answered", "applied") \/ Quietly(r, "refused", "failed")

Next == \E r \in Requests :
    Submit(r) \/ Take(r) \/ Answer(r) \/ Refuse(r) \/ Lose(r) \/ Record(r)

Spec == Init /\ [][Next]_vars
=============================================================================
