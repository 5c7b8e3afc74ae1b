--------------------------- MODULE WebhookDelivery ---------------------------
(***************************************************************************)
(* The outbound webhook queue of one tenant: the rows of                   *)
(* webhook_delivery_queue and automation_webhooks, the batches of          *)
(* processDueWebhookDeliveries that work on them, and the receivers.       *)
(*                                                                         *)
(* setInterval starts a batch every second whether or not the last one has *)
(* ended, and every API process has its own timer, so batches overlap.     *)
(* webhook_delivery_log, a history nothing reads back, is left out.        *)
(***************************************************************************)
EXTENDS Naturals, FiniteSets

CONSTANTS
    Webhooks,
    Events,
    Batches,        \* batches that may run at the same time
    MaxAttempts,    \* max_attempts of a delivery
    FailureLimit,   \* failures in a row that disable a webhook
    BatchLimit,     \* LIMIT of the claim
    MaxRetries,     \* bound: retries an operator asks for
    NoEvent         \* a POST without the X-ManageCall-Delivery header

ASSUME WebhookAssumption ==
    /\ MaxAttempts \in Nat \ {0}
    /\ FailureLimit \in Nat \ {0}
    /\ BatchLimit \in Nat \ {0}
    /\ MaxRetries \in Nat
    /\ NoEvent \notin Events

VARIABLES
    webhook,    \* automation_webhooks
    delivery,   \* webhook_delivery_queue, by the unique (webhook_id, event_id)
    batch,      \* the locals of each batch
    posts,      \* POSTs sent for a delivery since it was last queued
    handled,    \* what the receiver did with the event of a delivery
    retries     \* retries an operator asked for so far

vars == <<webhook, delivery, batch, posts, handled, retries>>

Deliveries == Webhooks \X Events
HookOf(d)  == d[1]

\* on: neither revoked nor disabled; nothing here tells the two apart.
WebhookRow  == [on : BOOLEAN, failures : 0..FailureLimit]
DeliveryRow ==
    [status    : {"absent", "pending", "processing", "delivered", "failed", "abandoned"},
     attempts  : 0..MaxAttempts,
     due       : BOOLEAN,       \* next_attempt_at <= NOW()
     dismissed : BOOLEAN]

\* A batch at "post" is between two deliveries of its loop; at "count" and
\* "mark" it works on one, whose POST ended ok or not.
Batch ==
    [pc : {"idle", "post", "count", "mark"}, todo : SUBSET Deliveries,
     working : SUBSET Deliveries, ok : BOOLEAN]

IdleBatch == [pc |-> "idle", todo |-> {}, working |-> {}, ok |-> FALSE]

TypeOK ==
    /\ webhook \in [Webhooks -> WebhookRow]
    /\ delivery \in [Deliveries -> DeliveryRow]
    /\ batch \in [Batches -> Batch]
    /\ posts \in [Deliveries -> 0..MaxAttempts]
    /\ handled \in [Deliveries -> {"never", "once", "again"}]
    /\ retries \in 0..MaxRetries

Init ==
    /\ webhook = [w \in Webhooks |-> [on |-> TRUE, failures |-> 0]]
    /\ delivery = [d \in Deliveries |->
          [status |-> "absent", attempts |-> 0, due |-> FALSE, dismissed |-> FALSE]]
    /\ batch = [b \in Batches |-> IdleBatch]
    /\ posts = [d \in Deliveries |-> 0]
    /\ handled = [d \in Deliveries |-> "never"]
    /\ retries = 0

SetRow(d, row) == delivery' = [delivery EXCEPT ![d] = row]

-----------------------------------------------------------------------------
(* The API: events, operators, and the passing of time.                    *)

\* enqueueWebhookDeliveries: one INSERT for all webhooks that are on.  An
\* INSERT that fails is swallowed, which is this action not happening.
Enqueue(e) ==
    /\ \A w \in Webhooks : delivery[<<w, e>>].status = "absent"
    /\ \E w \in Webhooks : webhook[w].on
    /\ delivery' = [d \in Deliveries |->
          IF d[2] = e /\ webhook[HookOf(d)].on
          THEN [status |-> "pending", attempts |-> 0, due |-> TRUE, dismissed |-> FALSE]
          ELSE delivery[d]]
    /\ UNCHANGED <<webhook, batch, posts, handled, retries>>

RevokeWebhook(w) ==
    /\ webhook[w].on
    /\ webhook' = [webhook EXCEPT ![w].on = FALSE]
    /\ UNCHANGED <<delivery, batch, posts, handled, retries>>

\* Slip: the UPDATE does not look at the status.
RetryAnyDelivery(d) ==
    /\ delivery[d].status \in {"processing", "failed", "abandoned"} /\ ~ delivery[d].dismissed
    /\ retries < MaxRetries
    /\ retries' = retries + 1
    /\ SetRow(d, [delivery[d] EXCEPT !.status = "pending", !.attempts = 0, !.due = TRUE])
    /\ posts' = [posts EXCEPT ![d] = 0]
    /\ UNCHANGED <<webhook, batch, handled>>

RetryAbandonedDelivery(d) ==
    /\ delivery[d].status = "abandoned" /\ ~ delivery[d].dismissed
    /\ retries < MaxRetries
    /\ retries' = retries + 1
    /\ SetRow(d, [delivery[d] EXCEPT !.status = "pending", !.attempts = 0, !.due = TRUE])
    /\ posts' = [posts EXCEPT ![d] = 0]
    /\ UNCHANGED <<webhook, batch, handled>>

DismissAbandonedDelivery(d) ==
    /\ delivery[d].status = "abandoned" /\ ~ delivery[d].dismissed
    /\ SetRow(d, [delivery[d] EXCEPT !.dismissed = TRUE])
    /\ UNCHANGED <<webhook, batch, posts, handled, retries>>

\* next_attempt_at passes.
BecomeDue(d) ==
    /\ delivery[d].status = "failed" /\ ~ delivery[d].due
    /\ SetRow(d, [delivery[d] EXCEPT !.due = TRUE])
    /\ UNCHANGED <<webhook, batch, posts, handled, retries>>

-----------------------------------------------------------------------------
(* processDueWebhookDeliveries.                                            *)

Waiting(d) == delivery[d].status \in {"pending", "failed"}

\* Slip: a delivery another batch works on is due as well.
DueOrProcessing ==
    {d \in Deliveries : delivery[d].status \in {"pending", "failed", "processing"}
                        /\ delivery[d].due
                        /\ delivery[d].attempts < MaxAttempts /\ webhook[HookOf(d)].on}

\* The WHERE of claimDueWebhookDeliveries.
Due == {d \in Deliveries : Waiting(d) /\ delivery[d].due
                           /\ delivery[d].attempts < MaxAttempts /\ webhook[HookOf(d)].on}

\* FOR UPDATE SKIP LOCKED and the UPDATE around it are one statement.  It
\* takes some of what is due: at most BatchLimit, and not the rows that other
\* statements hold locked at the moment, of the delivery or of its webhook.
ClaimDue(b) ==
    /\ batch[b].pc = "idle"
    /\ \E claimed \in (SUBSET Due) \ {{}} :
          /\ Cardinality(claimed) <= BatchLimit
          /\ delivery' = [d \in Deliveries |->
                IF d \in claimed
                THEN [delivery[d] EXCEPT !.status = "processing", !.attempts = @ + 1]
                ELSE delivery[d]]
          /\ batch' = [batch EXCEPT ![b] =
                [pc |-> "post", todo |-> claimed, working |-> {}, ok |-> FALSE]]
    /\ UNCHANGED <<webhook, posts, handled, retries>>

\* The header carries the event_id of the claimed row; RETURNING does not
\* return it.
DeliveryHeader(d) == NoEvent

\* A receiver that keeps the ids it has seen handles an id once.
Receive(d) ==
    handled' = [handled EXCEPT ![d] =
        IF @ = "never" THEN "once"
        ELSE IF DeliveryHeader(d) = NoEvent THEN "again" ELSE @]

\* Slip: any answer counts as a good one.
PostUnchecked(b, d, ok) ==
    /\ batch[b].pc = "post" /\ d \in batch[b].todo
    /\ posts' = [posts EXCEPT ![d] = @ + 1]
    /\ IF ok THEN Receive(d) ELSE Receive(d) \/ UNCHANGED handled
    /\ batch' = [batch EXCEPT ![b] =
          [pc |-> "count", todo |-> @.todo \ {d}, working |-> {d}, ok |-> TRUE]]
    /\ UNCHANGED <<webhook, delivery, retries>>

\* fetch: an answer other than 2xx, a network error or the timeout says
\* nothing about what the receiver did.
Post(b, d, ok) ==
    /\ batch[b].pc = "post" /\ d \in batch[b].todo
    /\ posts' = [posts EXCEPT ![d] = @ + 1]
    /\ IF ok THEN Receive(d) ELSE Receive(d) \/ UNCHANGED handled
    /\ batch' = [batch EXCEPT ![b] =
          [pc |-> "count", todo |-> @.todo \ {d}, working |-> {d}, ok |-> ok]]
    /\ UNCHANGED <<webhook, delivery, retries>>

RecordDeliveryFailure(w) ==
    webhook' = IF webhook[w].on
               THEN [webhook EXCEPT ![w] = [failures |-> webhook[w].failures + 1,
                                            on |-> webhook[w].failures + 1 < FailureLimit]]
               ELSE webhook

ResetDeliveryFailure(w) == webhook' = [webhook EXCEPT ![w].failures = 0]

\* An error of these statements, and of those that mark the row, is ignored.
Count(b) ==
    /\ batch[b].pc = "count"
    /\ \/ \E d \in batch[b].working :
             IF batch[b].ok THEN ResetDeliveryFailure(HookOf(d))
                            ELSE RecordDeliveryFailure(HookOf(d))
       \/ UNCHANGED webhook
    /\ batch' = [batch EXCEPT ![b].pc = "mark"]
    /\ UNCHANGED <<delivery, posts, handled, retries>>

MarkDelivered(d) == SetRow(d, [delivery[d] EXCEPT !.status = "delivered"])

\* Slip: one attempt too many is expected.
MarkFailedOffByOne(d) ==
    SetRow(d, IF delivery[d].attempts > MaxAttempts
              THEN [delivery[d] EXCEPT !.status = "abandoned"]
              ELSE [delivery[d] EXCEPT !.status = "failed", !.due = FALSE])

\* Slip: the last attempt is given up before it is made.
MarkFailedEarly(d) ==
    SetRow(d, IF delivery[d].attempts + 1 >= MaxAttempts
              THEN [delivery[d] EXCEPT !.status = "abandoned"]
              ELSE [delivery[d] EXCEPT !.status = "failed", !.due = FALSE])

MarkFailed(d) ==
    SetRow(d, IF delivery[d].attempts >= MaxAttempts
              THEN [delivery[d] EXCEPT !.status = "abandoned"]
              ELSE [delivery[d] EXCEPT !.status = "failed", !.due = FALSE])

NextDelivery(b) ==
    batch' = [batch EXCEPT ![b] =
        IF @.todo = {} THEN IdleBatch
        ELSE [pc |-> "post", todo |-> @.todo, working |-> {}, ok |-> FALSE]]

Mark(b) ==
    /\ batch[b].pc = "mark"
    /\ \E d \in batch[b].working :
          IF batch[b].ok THEN MarkDelivered(d) ELSE MarkFailed(d)
    /\ NextDelivery(b)
    /\ UNCHANGED <<webhook, posts, handled, retries>>

\* The row stays processing, which no statement ever looks for.
MarkIgnored(b) ==
    /\ batch[b].pc = "mark"
    /\ NextDelivery(b)
    /\ UNCHANGED <<webhook, delivery, posts, handled, retries>>

\* The API process ends, also between a POST and the mark.
Crash(b) ==
    /\ batch[b].pc # "idle"
    /\ batch' = [batch EXCEPT ![b] = IdleBatch]
    /\ UNCHANGED <<webhook, delivery, posts, handled, retries>>

-----------------------------------------------------------------------------
OperatorStep ==
    \/ \E e \in Events : Enqueue(e)
    \/ \E w \in Webhooks : RevokeWebhook(w)
    \/ \E d \in Deliveries : RetryAbandonedDelivery(d) \/ DismissAbandonedDelivery(d)

BatchStep(b) ==
    \/ ClaimDue(b)
    \/ \E d \in Deliveries, ok \in BOOLEAN : Post(b, d, ok)
    \/ Count(b)
    \/ Mark(b)

Next ==
    \/ OperatorStep
    \/ \E d \in Deliveries : BecomeDue(d)
    \/ \E b \in Batches : BatchStep(b) \/ MarkIgnored(b) \/ Crash(b)

\* Time passes, the timers go on ticking, also after a restart, and a fetch
\* ends after ten seconds.
Fairness ==
    /\ \A d \in Deliveries : WF_vars(BecomeDue(d))
    /\ \A b \in Batches : WF_vars(BatchStep(b))

Spec == Init /\ [][Next]_vars /\ Fairness

-----------------------------------------------------------------------------
(* Properties.                                                             *)

Held(b) == batch[b].todo \cup batch[b].working

\* Overlapping batches never work on the same delivery, and what a batch
\* works on is not retried by an operator under its hands.
HeldByOne ==
    \A b \in Batches :
        /\ \A d \in Held(b) : delivery[d].status = "processing"
        /\ \A c \in Batches \ {b} : Held(b) \cap Held(c) = {}

\* A delivery is given up only after MaxAttempts POSTs since it was queued,
\* although attempts are counted by the claim and the POST comes later.
AbandonedWasTried ==
    \A d \in Deliveries : delivery[d].status = "abandoned" => posts[d] = MaxAttempts

\* A delivered event stays delivered: no late failure of another batch and no
\* retry takes it back or sends it again.
DeliveredIsFinal ==
    [][\A d \in Deliveries : delivery[d].status = "delivered" =>
          delivery'[d].status = "delivered" /\ posts'[d] = posts[d]]_vars

\* What waits for an attempt gets it, unless its webhook is switched off:
\* none is starved by the others or by lost batches, and none is stuck
\* between its last attempt and being abandoned.
WaitingIsClaimed ==
    \A d \in Deliveries :
        Waiting(d) ~> (~ Waiting(d) \/ ~ webhook[HookOf(d)].on)

\* Where a delivery is.  What is processing and in no batch's hands is lost.
PhaseInHand(d) ==
    IF \E b \in Batches : d \in batch[b].todo THEN "taken"
    ELSE IF \E b \in Batches : d \in batch[b].working /\ batch[b].ok THEN "answered"
    ELSE IF \E b \in Batches : d \in batch[b].working THEN "refused"
    ELSE "lost"

Phase(d) ==
    CASE delivery[d].status = "absent"     -> "absent"
      [] Waiting(d)                        -> "waiting"
      [] delivery[d].status = "processing" -> PhaseInHand(d)
      [] delivery[d].status = "delivered"  -> "done"
      [] delivery[d].status = "abandoned"  -> IF delivery[d].dismissed THEN "dismissed" ELSE "givenUp"

\* Overlapping batches, restarts and operators together are one queue that
\* makes one try at a time, as many as promised, and settles what was heard.
Queue == INSTANCE AtLeastOnce WITH
    Messages <- Deliveries,
    MaxTries <- MaxAttempts,
    phase    <- [d \in Deliveries |-> Phase(d)],
    tries    <- posts,
    heard    <- [d \in Deliveries |-> handled[d] # "never"]
SentAtLeastOnce == Queue!Spec

(* What the documents promise and the code does not keep.                  *)

\* After a restart a delivery that was being sent is tried again or settled,
\* unless its webhook is switched off.
ClaimedIsSettled ==
    \A d \in Deliveries :
        delivery[d].status = "processing" ~>
            (delivery[d].status # "processing" \/ ~ webhook[HookOf(d)].on)

\* A receiver that keeps delivery ids handles each event once.
HandledOnce == \A d \in Deliveries : handled[d] # "again"
=============================================================================
