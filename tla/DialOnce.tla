------------------------------ MODULE DialOnce ------------------------------
(***************************************************************************)
(* What the outbound call queue promises for each request: it is dialed at *)
(* most once, by whoever took it, and a request that was given up is never *)
(* dialed later.  OutboundDispatch implements this.                        *)
(***************************************************************************)
EXTENDS Naturals

CONSTANT Requests

VARIABLES
    phase,      \* where each request is
    dials       \* how often it was dialed

vars == <<phase, dials>>

Phases == {"absent", "waiting", "taken", "dialed", "dropped"}

TypeOK ==
    /\ phase \in [Requests -> Phases]
    /\ dials \in [Requests -> 0..1]

Init ==
    /\ phase = [r \in Requests |-> "absent"]
    /\ dials = [r \in Requests |-> 0]

Move(r, from, to) ==
    /\ phase[r] = from
    /\ phase' = [phase EXCEPT ![r] = to]

Submit(r) == Move(r, "absent", "waiting") /\ UNCHANGED dials
Take(r)   == Move(r, "waiting", "taken") /\ UNCHANGED dials
Dial(r)   == Move(r, "taken", "dialed") /\ dials' = [dials EXCEPT ![r] = @ + 1]
Drop(r)   == (Move(r, "waiting", "dropped") \/ Move(r, "taken", "dropped")) /\ UNCHANGED dials

Next == \E r \in Requests : Submit(r) \/ Take(r) \/ Dial(r) \/ Drop(r)

Spec == Init /\ [][Next]_vars
=============================================================================
