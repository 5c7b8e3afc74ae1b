---------------------------- MODULE AtLeastOnce ----------------------------
(***************************************************************************)
(* What a queue with a limit of tries promises for each of its messages.   *)
(* One try at a time is made; a message is done with only after it was     *)
(* heard, and given up only after all its tries; what is done is never     *)
(* sent again.  A message may be heard more than once, for a try that got  *)
(* no answer may have been heard, and it may be lost while a try is being  *)
(* made.  WebhookDelivery implements this.                                 *)
(***************************************************************************)
EXTENDS Naturals

CONSTANTS Messages, MaxTries

VARIABLES
    phase,      \* where each message is
    tries,      \* how often it was sent since it was last put in the queue
    heard       \* whether the receiver has it

vars == <<phase, tries, heard>>

\* answered and refused: a try has ended, which is not yet recorded.
Underway == {"taken", "answered", "refused"}
Phases   == Underway \cup {"absent", "waiting", "done", "givenUp", "dismissed", "lost"}

TypeOK ==
    /\ phase \in [Messages -> Phases]
    /\ tries \in [Messages -> 0..MaxTries]
    /\ heard \in [Messages -> BOOLEAN]

Init ==
    /\ phase = [m \in Messages |-> "absent"]
    /\ tries = [m \in Messages |-> 0]
    /\ heard = [m \in Messages |-> FALSE]

Move(S, from, to) ==
    /\ \A m \in S : phase[m] \in from
    /\ phase' = [m \in Messages |-> IF m \in S THEN to ELSE phase[m]]

Quietly(S, from, to) == Move(S, from, to) /\ UNCHANGED <<tries, heard>>

Submit(S) == Quietly(S, {"absent"}, "waiting")
Take(S)   == (\A m \in S : tries[m] < MaxTries) /\ Quietly(S, {"waiting"}, "taken")
Lose(S)   == Quietly(S, Underway, "lost")

Send(m, answer) ==
    /\ Move({m}, {"taken"}, answer)
    /\ tries' = [tries EXCEPT ![m] = @ + 1]
    /\ heard' \in {[heard EXCEPT ![m] = TRUE]} \cup (IF answer = "refused" THEN {heard} ELSE {})

Settle(m) == heard[m] /\ Quietly({m}, {"answered"}, "done")
TryAgain(m) == tries[m] < MaxTries /\ Quietly({m}, {"refused"}, "waiting")
GiveUp(m) == tries[m] = MaxTries /\ Quietly({m}, {"refused"}, "givenUp")

Requeue(m) ==
    /\ Move({m}, {"givenUp"}, "waiting")
    /\ tries' = [tries EXCEPT ![m] = 0]
    /\ UNCHANGED heard
Dismiss(m) == Quietly({m}, {"givenUp"}, "dismissed")

Next ==
    \/ \E S \in SUBSET Messages : Submit(S) \/ Take(S) \/ Lose(S)
    \/ \E m \in Messages :
          \/ Send(m, "answered") \/ Send(m, "refused")
          \/ Settle(m) \/ TryAgain(m) \/ GiveUp(m) \/ Requeue(m) \/ Dismiss(m)

Spec == Init /\ [][Next]_vars
=============================================================================
