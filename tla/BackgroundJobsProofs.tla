------------------------- MODULE BackgroundJobsProofs -------------------------
(***************************************************************************)
(* Proofs about the two jobs of the API that overlap with themselves: the  *)
(* batches that send webhooks, for every number of webhooks, events and    *)
(* batches, and the runs that purge, for every number of recordings, holds *)
(* and runs and for every plan.  The jobs share no state; the two parts    *)
(* stand side by side.                                                     *)
(***************************************************************************)
EXTENDS WebhookDelivery, RetentionPurge, TLAPS

-----------------------------------------------------------------------------
(* Webhooks: the invariant.  Only a claim gives a batch a delivery,        *)
(* and it takes none that is processing, which all deliveries in a batch's *)
(* hands are.  So the POSTs of a delivery are those of its holder, one for *)
(* each attempt that was claimed and not lost.                             *)

\* Who holds a delivery holds it alone, and the row says so.
HolderInv ==
    \A b \in Batches, d \in Deliveries : d \in Held(b) =>
        /\ delivery[d].status = "processing"
        /\ \A c \in Batches : d \in Held(c) => c = b

\* A delivery is posted once for each attempt its holder, or an earlier one,
\* has made; the claim counted the attempt to come.
HolderTally ==
    \A b \in Batches, d \in Deliveries :
        /\ d \in batch[b].todo => posts[d] + 1 = delivery[d].attempts /\ d \notin batch[b].working
        /\ d \in batch[b].working => posts[d] = delivery[d].attempts

RowTally ==
    \A d \in Deliveries :
        /\ delivery[d].status = "absent" => posts[d] = 0
        /\ Waiting(d) => posts[d] = delivery[d].attempts
        /\ delivery[d].status = "abandoned" => posts[d] = MaxAttempts

\* A webhook at the limit is off.
HookInv == \A w \in Webhooks : webhook[w].on => webhook[w].failures < FailureLimit

WebhookInv == TypeOK /\ HolderInv /\ HolderTally /\ RowTally /\ HookInv

\* A delivery is a webhook and an event.
LEMMA DeliveryParts ==
    \A d \in Deliveries : HookOf(d) \in Webhooks /\ d[2] \in Events /\ d = <<HookOf(d), d[2]>>
BY DEF Deliveries, HookOf

\* What a batch holds are deliveries.
LEMMA HeldType == TypeOK => \A b \in Batches : batch[b].todo \subseteq Deliveries /\ batch[b].working \subseteq Deliveries
BY DEF TypeOK, Batch

\* The empty queue.
LEMMA InitWebhook == Init => WebhookInv
<1> SUFFICES ASSUME Init PROVE WebhookInv
    OBVIOUS
<1> USE DEF Init, IdleBatch
<1>1. TypeOK
    BY WebhookAssumption DEF TypeOK, WebhookRow, DeliveryRow, Batch
<1>2. HolderInv /\ HolderTally
    BY DEF HolderInv, HolderTally, Held
<1>3. RowTally
    BY DEF RowTally, Waiting
<1>4. HookInv
    BY WebhookAssumption DEF HookInv
<1> QED
    BY <1>1, <1>2, <1>3, <1>4 DEF WebhookInv

-----------------------------------------------------------------------------
(* One step lemma per action.  Most actions change the row of no delivery  *)
(* that is held, so a frame lemma carries the invariant for them.          *)

\* Batches only let go, and the rows of what they keep stay as they are.
LEMMA Frame ==
    ASSUME WebhookInv, TypeOK',
           \A b \in Batches : batch'[b].todo \subseteq batch[b].todo
                              /\ batch'[b].working \subseteq batch[b].working,
           \A b \in Batches, d \in Deliveries : d \in Held(b)' =>
               /\ delivery'[d].status = delivery[d].status
               /\ delivery'[d].attempts = delivery[d].attempts
               /\ posts'[d] = posts[d]
    PROVE  HolderInv' /\ HolderTally'
<1>1. \A b \in Batches, d \in Deliveries : d \in Held(b)' => d \in Held(b)
    BY DEF Held
<1>2. HolderInv'
    BY <1>1 DEF HolderInv, WebhookInv
<1>3. HolderTally'
    BY DEF HolderTally, WebhookInv, Held
<1> QED
    BY <1>2, <1>3

\* Counting, or switching off, keeps a webhook at the limit off.
LEMMA HookCounted ==
    ASSUME WebhookInv,
           \/ UNCHANGED webhook
           \/ \E w \in Webhooks : \/ ResetDeliveryFailure(w) \/ RecordDeliveryFailure(w)
                                 \/ webhook' = [webhook EXCEPT ![w].on = FALSE]
    PROVE  webhook' \in [Webhooks -> WebhookRow] /\ HookInv'
<1>1. webhook \in [Webhooks -> WebhookRow] /\ HookInv /\ FailureLimit \in Nat \ {0}
    BY WebhookAssumption DEF WebhookInv, TypeOK
<1>2. CASE UNCHANGED webhook
    BY <1>1, <1>2 DEF HookInv
<1>3. ASSUME NEW w \in Webhooks,
             ResetDeliveryFailure(w) \/ webhook' = [webhook EXCEPT ![w].on = FALSE]
      PROVE  webhook' \in [Webhooks -> WebhookRow] /\ HookInv'
    <2> DEFINE reset == [webhook[w] EXCEPT !.failures = 0]
               off   == [webhook[w] EXCEPT !.on = FALSE]
    <2>0. 0 \in 0..FailureLimit /\ 0 < FailureLimit
        BY <1>1
    <2>1. reset \in WebhookRow /\ reset.failures = 0 /\ off \in WebhookRow /\ ~ off.on
        BY <1>1, <2>0 DEF WebhookRow
    <2>2. webhook' = [webhook EXCEPT ![w] = reset] \/ webhook' = [webhook EXCEPT ![w] = off]
        BY <1>3 DEF ResetDeliveryFailure
    <2> HIDE DEF reset, off
    <2> QED
        BY <1>1, <2>0, <2>1, <2>2 DEF HookInv
<1>4. ASSUME NEW w \in Webhooks, RecordDeliveryFailure(w)
      PROVE  webhook' \in [Webhooks -> WebhookRow] /\ HookInv'
    <2>1. CASE ~ webhook[w].on
        BY <1>1, <1>4, <2>1 DEF RecordDeliveryFailure, HookInv
    <2>2. CASE webhook[w].on
        <3> DEFINE n == webhook[w].failures + 1
        <3>1. webhook[w].failures \in 0..FailureLimit /\ webhook[w].failures < FailureLimit
            BY <1>1, <2>2 DEF HookInv, WebhookRow
        <3>2. n \in 0..FailureLimit
            BY <1>1, <3>1
        <3>3. webhook' = [webhook EXCEPT ![w] = [failures |-> n, on |-> n < FailureLimit]]
            BY <1>4, <2>2 DEF RecordDeliveryFailure
        <3> HIDE DEF n
        <3>4. [failures |-> n, on |-> n < FailureLimit] \in WebhookRow
            BY <3>2 DEF WebhookRow
        <3> QED
            BY <1>1, <3>3, <3>4 DEF HookInv
    <2> QED
        BY <2>1, <2>2
<1> QED
    BY <1>2, <1>3, <1>4

\* Most steps leave the webhooks alone.
LEMMA HookKept == WebhookInv /\ UNCHANGED webhook => HookInv'
BY HookCounted

\* A new event has no POST yet and no holder.
LEMMA EnqueueStep == ASSUME WebhookInv, NEW e \in Events, Enqueue(e) PROVE WebhookInv'
<1>1. \A d \in Deliveries : d[2] = e => delivery[d].status = "absent"
    BY DeliveryParts DEF Enqueue
<1>2. UNCHANGED <<webhook, batch, posts, handled, retries>>
    BY DEF Enqueue
<1>3. \A d \in Deliveries : \/ delivery'[d] = delivery[d]
                            \/ /\ delivery[d].status = "absent"
                               /\ delivery'[d].status = "pending" /\ delivery'[d].attempts = 0
    BY <1>1 DEF Enqueue
<1>4. TypeOK'
    BY <1>2, WebhookAssumption DEF Enqueue, WebhookInv, TypeOK, DeliveryRow
<1>5. HolderInv' /\ HolderTally'
    BY <1>2, <1>3, <1>4, Frame DEF WebhookInv, HolderInv, Held
<1>6. RowTally'
    BY <1>2, <1>3 DEF WebhookInv, RowTally, Waiting
<1> QED
    BY <1>2, <1>4, <1>5, <1>6, HookKept DEF WebhookInv

\* A webhook going off or counting leaves the deliveries alone.
LEMMA WebhookStep ==
    ASSUME WebhookInv, UNCHANGED <<delivery, batch, posts, handled, retries>>,
           webhook' \in [Webhooks -> WebhookRow], HookInv'
    PROVE  WebhookInv'
<1>1. TypeOK'
    BY DEF WebhookInv, TypeOK
<1>2. HolderInv' /\ HolderTally'
    BY <1>1, Frame
<1>3. RowTally'
    BY DEF WebhookInv, RowTally, Waiting
<1> QED
    BY <1>1, <1>2, <1>3 DEF WebhookInv

\* Writing one row keeps the type of the others.
LEMMA RowWritten ==
    ASSUME TypeOK, NEW d \in Deliveries, NEW r \in DeliveryRow, SetRow(d, r)
    PROVE  /\ delivery' \in [Deliveries -> DeliveryRow]
           /\ delivery'[d] = r
           /\ \A c \in Deliveries \ {d} : delivery'[c] = delivery[c]
BY DEF SetRow, TypeOK

\* What an operator retries or dismisses, and what becomes due, is not held.
LEMMA RowStep ==
    ASSUME WebhookInv, NEW d \in Deliveries,
           RetryAbandonedDelivery(d) \/ DismissAbandonedDelivery(d) \/ BecomeDue(d)
    PROVE  WebhookInv'
<1>0. TypeOK /\ delivery[d] \in DeliveryRow
    BY DEF WebhookInv, TypeOK
<1>1. UNCHANGED <<webhook, batch, handled>> /\ delivery[d].status \in {"abandoned", "failed"}
    BY DEF RetryAbandonedDelivery, DismissAbandonedDelivery, BecomeDue
<1>2. /\ delivery' \in [Deliveries -> DeliveryRow]
      /\ \A c \in Deliveries \ {d} : delivery'[c] = delivery[c]
      /\ \/ /\ RetryAbandonedDelivery(d)
            /\ delivery'[d].status = "pending" /\ delivery'[d].attempts = 0
         \/ /\ delivery'[d].status = delivery[d].status
            /\ delivery'[d].attempts = delivery[d].attempts
            /\ UNCHANGED <<posts, retries>>
    <2>1. CASE RetryAbandonedDelivery(d)
        <3> DEFINE r == [delivery[d] EXCEPT !.status = "pending", !.attempts = 0, !.due = TRUE]
        <3>0. 0 \in 0..MaxAttempts
            BY WebhookAssumption
        <3>1. r \in DeliveryRow /\ r.status = "pending" /\ r.attempts = 0
            BY <1>0, <3>0 DEF DeliveryRow
        <3>2. SetRow(d, r)
            BY <2>1 DEF RetryAbandonedDelivery
        <3> HIDE DEF r
        <3> QED
            BY <1>0, <2>1, <3>1, <3>2, RowWritten
    <2>2. CASE DismissAbandonedDelivery(d)
        <3> DEFINE r == [delivery[d] EXCEPT !.dismissed = TRUE]
        <3>1. r \in DeliveryRow /\ r.status = delivery[d].status /\ r.attempts = delivery[d].attempts
            BY <1>0 DEF DeliveryRow
        <3>2. SetRow(d, r) /\ UNCHANGED <<posts, retries>>
            BY <2>2 DEF DismissAbandonedDelivery
        <3> HIDE DEF r
        <3> QED
            BY <1>0, <3>1, <3>2, RowWritten
    <2>3. CASE BecomeDue(d)
        <3> DEFINE r == [delivery[d] EXCEPT !.due = TRUE]
        <3>1. r \in DeliveryRow /\ r.status = delivery[d].status /\ r.attempts = delivery[d].attempts
            BY <1>0 DEF DeliveryRow
        <3>2. SetRow(d, r) /\ UNCHANGED <<posts, retries>>
            BY <2>3 DEF BecomeDue
        <3> HIDE DEF r
        <3> QED
            BY <1>0, <3>1, <3>2, RowWritten
    <2> QED
        BY <2>1, <2>2, <2>3
<1>4. /\ posts' \in [Deliveries -> 0..MaxAttempts] /\ retries' \in 0..MaxRetries
      /\ \A c \in Deliveries \ {d} : posts'[c] = posts[c]
      /\ \/ delivery'[d].status = "pending" /\ delivery'[d].attempts = 0 /\ posts'[d] = 0
         \/ /\ delivery'[d].status = delivery[d].status
            /\ delivery'[d].attempts = delivery[d].attempts /\ posts'[d] = posts[d]
    <2>1. CASE RetryAbandonedDelivery(d) /\ delivery'[d].status = "pending" /\ delivery'[d].attempts = 0
        <3>1. /\ posts' \in [Deliveries -> 0..MaxAttempts] /\ posts'[d] = 0
              /\ \A c \in Deliveries \ {d} : posts'[c] = posts[c]
            BY <1>0, <2>1, WebhookAssumption DEF RetryAbandonedDelivery, TypeOK
        <3>2. retries' \in 0..MaxRetries
            BY <1>0, <2>1, WebhookAssumption DEF RetryAbandonedDelivery, TypeOK
        <3> QED
            BY <2>1, <3>1, <3>2
    <2>2. CASE UNCHANGED <<posts, retries>> /\ delivery'[d].status = delivery[d].status
               /\ delivery'[d].attempts = delivery[d].attempts
        BY <1>0, <2>2 DEF TypeOK
    <2> QED
        BY <1>2, <2>1, <2>2
<1>5. TypeOK'
    BY <1>0, <1>1, <1>2, <1>4 DEF TypeOK
<1>6. \A b \in Batches : d \notin Held(b)
    BY <1>1 DEF WebhookInv, HolderInv
<1>7. HolderInv' /\ HolderTally'
    BY <1>1, <1>2, <1>4, <1>5, <1>6, Frame DEF Held
<1>8. RowTally'
    BY <1>2, <1>4 DEF WebhookInv, RowTally, Waiting
<1> QED
    BY <1>1, <1>5, <1>7, <1>8, HookKept DEF WebhookInv

\* A claim takes only what waits, so nothing another batch holds.
LEMMA ClaimStep == ASSUME WebhookInv, NEW b \in Batches, ClaimDue(b) PROVE WebhookInv'
<1>p. PICK claimed \in SUBSET Due :
        /\ delivery' = [d \in Deliveries |->
              IF d \in claimed
              THEN [delivery[d] EXCEPT !.status = "processing", !.attempts = @ + 1]
              ELSE delivery[d]]
        /\ batch' = [batch EXCEPT ![b] =
              [pc |-> "post", todo |-> claimed, working |-> {}, ok |-> FALSE]]
    BY DEF ClaimDue
<1>0. UNCHANGED <<webhook, posts, handled, retries>>
    BY DEF ClaimDue
<1>1. \A d \in claimed : d \in Deliveries /\ Waiting(d) /\ delivery[d].attempts < MaxAttempts
    BY DEF Due
<1>2. delivery' \in [Deliveries -> DeliveryRow]
    <2>1. ASSUME NEW d \in Deliveries PROVE delivery'[d] \in DeliveryRow
        <3>1. delivery[d] \in DeliveryRow
            BY DEF WebhookInv, TypeOK
        <3>2. CASE d \in claimed
            <4>0. delivery[d].attempts \in 0..MaxAttempts /\ delivery[d].attempts < MaxAttempts
                BY <1>1, <3>1, <3>2 DEF DeliveryRow
            <4> DEFINE n == delivery[d].attempts + 1
            <4>1. n \in 0..MaxAttempts
                BY <4>0, WebhookAssumption
            <4>2. delivery'[d] = [delivery[d] EXCEPT !.status = "processing", !.attempts = n]
                BY <1>p, <3>2
            <4> HIDE DEF n
            <4> QED
                BY <3>1, <4>1, <4>2 DEF DeliveryRow
        <3>3. CASE d \notin claimed
            BY <1>p, <3>1, <3>3
        <3> QED
            BY <3>2, <3>3
    <2> QED
        BY <1>p, <2>1
<1>3. batch' \in [Batches -> Batch]
    BY <1>p, <1>1 DEF WebhookInv, TypeOK, Batch
<1>4. TypeOK'
    BY <1>0, <1>2, <1>3 DEF WebhookInv, TypeOK
<1>5. /\ batch'[b].todo = claimed /\ batch'[b].working = {}
      /\ \A c \in Batches \ {b} : batch'[c] = batch[c]
    BY <1>p DEF WebhookInv, TypeOK
<1>6. \A d \in Deliveries :
         IF d \in claimed
         THEN delivery'[d].status = "processing" /\ delivery'[d].attempts = delivery[d].attempts + 1
         ELSE delivery'[d] = delivery[d]
    BY <1>p DEF WebhookInv, TypeOK, DeliveryRow
<1>7. \A c \in Batches, d \in Deliveries : d \in Held(c) => d \notin claimed
    BY <1>1 DEF WebhookInv, HolderInv, Waiting
<1>8. HolderInv'
    <2>1. ASSUME NEW c \in Batches, NEW d \in Deliveries, d \in Held(c)'
          PROVE  IF d \in claimed THEN c = b ELSE d \in Held(c)
        BY <1>5, <1>7, <2>1 DEF Held
    <2> QED
        BY <1>6, <1>7, <2>1 DEF WebhookInv, HolderInv
<1>9. HolderTally'
    BY <1>0, <1>1, <1>5, <1>6, <1>7 DEF WebhookInv, HolderTally, RowTally, Held
<1>10. RowTally'
    BY <1>0, <1>6 DEF WebhookInv, RowTally, Waiting
<1> QED
    BY <1>0, <1>4, <1>8, <1>9, <1>10, HookKept DEF WebhookInv

\* A POST is one more for a delivery in the batch's hands alone.
LEMMA PostStep ==
    ASSUME WebhookInv, NEW b \in Batches, NEW d \in Deliveries, NEW ok \in BOOLEAN, Post(b, d, ok)
    PROVE  WebhookInv'
<1>0. UNCHANGED <<webhook, delivery, retries>> /\ d \in batch[b].todo
      /\ posts' = [posts EXCEPT ![d] = @ + 1]
    BY DEF Post
<1>1. /\ batch'[b].todo = batch[b].todo \ {d} /\ batch'[b].working = {d}
      /\ \A c \in Batches \ {b} : batch'[c] = batch[c]
    BY DEF Post, WebhookInv, TypeOK
<1>2. \A c \in Batches \ {b} : d \notin Held(c)
    BY <1>0 DEF WebhookInv, HolderInv, Held
<1>3. posts[d] + 1 = delivery[d].attempts /\ delivery[d].status = "processing"
    BY <1>0 DEF WebhookInv, HolderTally, HolderInv, Held
<1>4. posts'[d] = delivery[d].attempts /\ \A a \in Deliveries \ {d} : posts'[a] = posts[a]
    BY <1>0, <1>3 DEF WebhookInv, TypeOK
<1>5. TypeOK'
    <2>1. posts' \in [Deliveries -> 0..MaxAttempts]
        BY <1>0, <1>3 DEF WebhookInv, TypeOK, DeliveryRow
    <2>2. batch' \in [Batches -> Batch]
        BY DEF Post, WebhookInv, TypeOK, Batch
    <2>3. handled' \in [Deliveries -> {"never", "once", "again"}]
        BY DEF Post, Receive, WebhookInv, TypeOK
    <2> QED
        BY <1>0, <2>1, <2>2, <2>3 DEF WebhookInv, TypeOK
<1>6. HolderInv'
    BY <1>0, <1>1 DEF WebhookInv, HolderInv, Held
<1>7. HolderTally'
    BY <1>0, <1>1, <1>2, <1>4 DEF WebhookInv, HolderTally, Held
<1>8. RowTally'
    BY <1>0, <1>3, <1>4 DEF WebhookInv, RowTally, Waiting
<1> QED
    BY <1>0, <1>5, <1>6, <1>7, <1>8, HookKept DEF WebhookInv

\* Counting touches the webhook's row only.
LEMMA CountStep == ASSUME WebhookInv, NEW b \in Batches, Count(b) PROVE WebhookInv'
<1>0. UNCHANGED <<delivery, posts, handled, retries>>
    BY DEF Count
<1>1. \A c \in Batches : batch'[c].todo = batch[c].todo /\ batch'[c].working = batch[c].working
    BY DEF Count, WebhookInv, TypeOK, Batch
<1>2. batch' \in [Batches -> Batch]
    BY DEF Count, WebhookInv, TypeOK, Batch
<1>3. webhook' \in [Webhooks -> WebhookRow] /\ HookInv'
    <2>1. \A d \in batch[b].working : HookOf(d) \in Webhooks
        BY DeliveryParts, HeldType DEF WebhookInv
    <2> QED
        BY <2>1, HookCounted DEF Count
<1>4. TypeOK'
    BY <1>0, <1>2, <1>3 DEF WebhookInv, TypeOK
<1>5. HolderInv' /\ HolderTally'
    BY <1>0, <1>1, <1>4, Frame
<1>6. RowTally'
    BY <1>0 DEF WebhookInv, RowTally, Waiting
<1> QED
    BY <1>3, <1>4, <1>5, <1>6 DEF WebhookInv

\* The loop lets go of the delivery it worked on, or of everything.
LEMMA LetGo ==
    ASSUME TypeOK, NEW b \in Batches, NextDelivery(b) \/ batch' = [batch EXCEPT ![b] = IdleBatch]
    PROVE  /\ batch' \in [Batches -> Batch]
           /\ batch'[b].todo \subseteq batch[b].todo /\ batch'[b].working = {}
           /\ \A c \in Batches \ {b} : batch'[c] = batch[c]
<1>1. batch \in [Batches -> Batch] /\ batch[b] \in Batch
    BY DEF TypeOK
<1>2. PICK next \in Batch :
          batch' = [batch EXCEPT ![b] = next] /\ next.todo \subseteq batch[b].todo /\ next.working = {}
    <2> DEFINE next == [pc |-> "post", todo |-> batch[b].todo, working |-> {}, ok |-> FALSE]
    <2>1. /\ next \in Batch /\ next.todo = batch[b].todo /\ next.working = {}
          /\ IdleBatch \in Batch /\ IdleBatch.todo = {} /\ IdleBatch.working = {}
        BY <1>1 DEF IdleBatch, Batch
    <2>2. batch' = [batch EXCEPT ![b] = IdleBatch] \/ batch' = [batch EXCEPT ![b] = next]
        BY DEF NextDelivery
    <2> HIDE DEF next
    <2> QED
        BY <2>1, <2>2
<1> QED
    BY <1>1, <1>2

\* A batch that lets go without touching the row leaves it processing.
LEMMA DropStep ==
    ASSUME WebhookInv, NEW b \in Batches, MarkIgnored(b) \/ Crash(b)
    PROVE  WebhookInv'
<1>0. UNCHANGED <<webhook, delivery, posts, handled, retries>>
    BY DEF MarkIgnored, Crash
<1>1. /\ batch' \in [Batches -> Batch]
      /\ batch'[b].todo \subseteq batch[b].todo /\ batch'[b].working = {}
      /\ \A c \in Batches \ {b} : batch'[c] = batch[c]
    BY LetGo DEF MarkIgnored, Crash, WebhookInv
<1>2. TypeOK'
    BY <1>0, <1>1 DEF WebhookInv, TypeOK
<1>3. HolderInv' /\ HolderTally'
    BY <1>0, <1>1, <1>2, Frame
<1>4. RowTally'
    BY <1>0 DEF WebhookInv, RowTally, Waiting
<1> QED
    BY <1>0, <1>2, <1>3, <1>4, HookKept DEF WebhookInv

\* Marking settles the one delivery the batch worked on, after its POST.
LEMMA MarkStep == ASSUME WebhookInv, NEW b \in Batches, Mark(b) PROVE WebhookInv'
<1>d. PICK d \in batch[b].working : IF batch[b].ok THEN MarkDelivered(d) ELSE MarkFailed(d)
    BY DEF Mark
<1>0. UNCHANGED <<webhook, posts, handled, retries>> /\ NextDelivery(b)
    BY DEF Mark
<1>1. /\ batch' \in [Batches -> Batch]
      /\ batch'[b].todo \subseteq batch[b].todo /\ batch'[b].working = {}
      /\ \A c \in Batches \ {b} : batch'[c] = batch[c]
    BY <1>0, LetGo DEF WebhookInv
<1>2. d \in Deliveries /\ posts[d] = delivery[d].attempts
    BY HeldType DEF WebhookInv, HolderTally
<1>3. /\ delivery' \in [Deliveries -> DeliveryRow]
      /\ \A a \in Deliveries \ {d} : delivery'[a] = delivery[a]
      /\ delivery'[d].attempts = delivery[d].attempts
      /\ delivery'[d].status \in {"delivered", "failed", "abandoned"}
      /\ delivery'[d].status = "abandoned" => delivery[d].attempts >= MaxAttempts
    <2>0. TypeOK /\ delivery[d] \in DeliveryRow
        BY <1>2 DEF WebhookInv, TypeOK
    <2>1. PICK r \in DeliveryRow :
             /\ SetRow(d, r) /\ r.attempts = delivery[d].attempts
             /\ r.status \in {"delivered", "failed", "abandoned"}
             /\ r.status = "abandoned" => delivery[d].attempts >= MaxAttempts
        <3> DEFINE sent     == [delivery[d] EXCEPT !.status = "delivered"]
                   given_up == [delivery[d] EXCEPT !.status = "abandoned"]
                   again    == [delivery[d] EXCEPT !.status = "failed", !.due = FALSE]
        <3>1. /\ sent \in DeliveryRow /\ given_up \in DeliveryRow /\ again \in DeliveryRow
              /\ sent.status = "delivered" /\ given_up.status = "abandoned" /\ again.status = "failed"
              /\ \A r \in {sent, given_up, again} : r.attempts = delivery[d].attempts
            BY <2>0 DEF DeliveryRow
        <3>2. \/ SetRow(d, sent) \/ SetRow(d, again)
              \/ SetRow(d, given_up) /\ delivery[d].attempts >= MaxAttempts
            BY <1>d DEF MarkDelivered, MarkFailed
        <3> HIDE DEF sent, given_up, again
        <3> QED
            BY <3>1, <3>2
    <2> QED
        BY <1>2, <2>0, <2>1, RowWritten
<1>5. TypeOK'
    BY <1>0, <1>1, <1>3 DEF WebhookInv, TypeOK
<1>6. \A c \in Batches : d \notin batch'[c].todo /\ d \notin batch'[c].working
    BY <1>1, <1>2 DEF WebhookInv, HolderInv, HolderTally, Held
<1>7. HolderInv' /\ HolderTally'
    BY <1>0, <1>1, <1>3, <1>5, <1>6, Frame DEF Held
<1>8. RowTally'
    <2>1. delivery[d].attempts \in 0..MaxAttempts /\ MaxAttempts \in Nat
        BY <1>2, WebhookAssumption DEF WebhookInv, TypeOK, DeliveryRow
    <2> QED
        BY <1>0, <1>2, <1>3, <2>1 DEF WebhookInv, RowTally, Waiting
<1> QED
    BY <1>0, <1>5, <1>7, <1>8, HookKept DEF WebhookInv

\* Every step.
LEMMA NextWebhook == WebhookInv /\ [Next]_vars => WebhookInv'
<1> SUFFICES ASSUME WebhookInv, [Next]_vars PROVE WebhookInv'
    OBVIOUS
<1>1. CASE OperatorStep
    <2>1. ASSUME NEW w \in Webhooks, RevokeWebhook(w) PROVE WebhookInv'
        <3>1. webhook' \in [Webhooks -> WebhookRow] /\ HookInv'
            BY <2>1, HookCounted DEF RevokeWebhook
        <3> QED
            BY <2>1, <3>1, WebhookStep DEF RevokeWebhook
    <2> QED
        BY <1>1, <2>1, EnqueueStep, RowStep DEF OperatorStep
<1>2. ASSUME NEW d \in Deliveries, BecomeDue(d) PROVE WebhookInv'
    BY <1>2, RowStep
<1>3. ASSUME NEW b \in Batches, BatchStep(b) \/ MarkIgnored(b) \/ Crash(b) PROVE WebhookInv'
    BY <1>3, ClaimStep, PostStep, CountStep, MarkStep, DropStep DEF BatchStep
<1>4. CASE UNCHANGED vars
    BY <1>4, WebhookStep, HookCounted DEF vars
<1> QED
    BY <1>1, <1>2, <1>3, <1>4 DEF Next

-----------------------------------------------------------------------------
(* The theorems.                                                           *)

\* The invariant holds however many batches overlap or are lost.
THEOREM WebhookInvariant == Spec => []WebhookInv
<1>1. Init => WebhookInv
    BY InitWebhook
<1>2. WebhookInv /\ [Next]_vars => WebhookInv'
    BY NextWebhook
<1> QED
    BY <1>1, <1>2, PTL DEF Spec

\* The rows and the locals stay within their types; a webhook's failures
\* never pass the limit that disables it.
THEOREM TypeCorrect == Spec => []TypeOK
<1>1. WebhookInv => TypeOK
    BY DEF WebhookInv
<1> QED
    BY <1>1, WebhookInvariant, PTL

\* No two batches ever work on the same delivery, for any number of batches
\* and API processes.
THEOREM DeliveryHeldByOne == Spec => []HeldByOne
<1>1. WebhookInv => HeldByOne
    BY HeldType DEF WebhookInv, HolderInv, HeldByOne, Held
<1> QED
    BY <1>1, WebhookInvariant, PTL

\* Every abandoned delivery was posted MaxAttempts times.
THEOREM AbandonedTried == Spec => []AbandonedWasTried
<1>1. WebhookInv => AbandonedWasTried
    BY DEF WebhookInv, RowTally, AbandonedWasTried
<1> QED
    BY <1>1, WebhookInvariant, PTL

\* A delivered event is neither taken back nor sent again.
THEOREM DeliveredFinal == Spec => DeliveredIsFinal
<1> DEFINE Kept == \A d \in Deliveries : delivery[d].status = "delivered" =>
                      delivery'[d].status = "delivered" /\ posts'[d] = posts[d]
<1>1. WebhookInv /\ [Next]_vars => [Kept]_vars
    <2> SUFFICES ASSUME WebhookInv, Next, NEW d \in Deliveries, delivery[d].status = "delivered"
                 PROVE  delivery'[d].status = "delivered" /\ posts'[d] = posts[d]
        BY DEF Kept
    <2>0. TypeOK /\ \A b \in Batches : d \notin Held(b)
        BY DEF WebhookInv, HolderInv
    <2>1. CASE OperatorStep
        <3>1. ASSUME NEW e \in Events, Enqueue(e)
              PROVE  delivery'[d].status = "delivered" /\ posts'[d] = posts[d]
            BY <3>1, DeliveryParts DEF Enqueue
        <3>2. ASSUME NEW c \in Deliveries, RetryAbandonedDelivery(c) \/ DismissAbandonedDelivery(c)
              PROVE  delivery'[d].status = "delivered" /\ posts'[d] = posts[d]
            BY <2>0, <3>2 DEF RetryAbandonedDelivery, DismissAbandonedDelivery, SetRow, TypeOK
        <3> QED
            BY <2>1, <3>1, <3>2 DEF OperatorStep, RevokeWebhook
    <2>2. ASSUME NEW c \in Deliveries, BecomeDue(c)
          PROVE  delivery'[d].status = "delivered" /\ posts'[d] = posts[d]
        BY <2>0, <2>2 DEF BecomeDue, SetRow, TypeOK
    <2>3. ASSUME NEW b \in Batches, BatchStep(b) \/ MarkIgnored(b) \/ Crash(b)
          PROVE  delivery'[d].status = "delivered" /\ posts'[d] = posts[d]
        <3>1. CASE ClaimDue(b)
            BY <3>1 DEF ClaimDue, Due, Waiting
        <3>2. ASSUME NEW c \in Deliveries, NEW ok \in BOOLEAN, Post(b, c, ok)
              PROVE  delivery'[d].status = "delivered" /\ posts'[d] = posts[d]
            BY <2>0, <3>2 DEF Post, Held, TypeOK
        <3>3. CASE Mark(b)
            <4> PICK c \in batch[b].working : IF batch[b].ok THEN MarkDelivered(c) ELSE MarkFailed(c)
                BY <3>3 DEF Mark
            <4>1. c # d
                BY <2>0 DEF Held
            <4> QED
                BY <2>0, <3>3, <4>1 DEF Mark, MarkDelivered, MarkFailed, SetRow, TypeOK
        <3> QED
            BY <2>3, <3>1, <3>2, <3>3 DEF BatchStep, Count, MarkIgnored, Crash
    <2> QED
        BY <2>1, <2>2, <2>3 DEF Next
<1> QED
    BY <1>1, WebhookInvariant, PTL DEF Spec, DeliveredIsFinal

-----------------------------------------------------------------------------
(* The refinement: the queue sends each delivery at least once.  For this  *)
(* the hands of a batch must be known in more detail: a batch works on one *)
(* delivery at a time, and a good answer comes from a receiver that has    *)
(* the event.                                                              *)

InHand(b) ==
    /\ batch[b].pc = "idle" => batch[b].todo = {}
    /\ batch[b].pc \in {"idle", "post"} => batch[b].working = {}
    /\ \A c, d \in batch[b].working : c = d
    /\ \A d \in batch[b].working : batch[b].ok => handled[d] # "never"

HandsInv == \A b \in Batches : InHand(b)

\* What the receiver has it keeps.
LEMMA HeardStays ==
    ASSUME TypeOK, [Next]_vars, NEW d \in Deliveries, handled[d] # "never"
    PROVE  handled'[d] # "never"
<1>1. ASSUME NEW c \in Deliveries, Receive(c) PROVE handled'[d] # "never"
    BY <1>1 DEF Receive, TypeOK
<1>2. ASSUME NEW b \in Batches, NEW c \in Deliveries, NEW ok \in BOOLEAN, Post(b, c, ok)
      PROVE  handled'[d] # "never"
    BY <1>1, <1>2 DEF Post
<1>3. ASSUME NEW b \in Batches, BatchStep(b) \/ MarkIgnored(b) \/ Crash(b)
      PROVE  handled'[d] # "never"
    BY <1>2, <1>3 DEF BatchStep, ClaimDue, Count, Mark, MarkIgnored, Crash
<1> QED
    BY <1>3 DEF Next, vars, OperatorStep, Enqueue, RevokeWebhook, RetryAbandonedDelivery,
                DismissAbandonedDelivery, BecomeDue

\* A batch whose hands do not change.
LEMMA HandsKept ==
    ASSUME WebhookInv, HandsInv, [Next]_vars, NEW b \in Batches, batch'[b] = batch[b]
    PROVE  InHand(b)'
<1>1. \A d \in batch[b].working : handled[d] # "never" => handled'[d] # "never"
    BY HeardStays, HeldType DEF WebhookInv
<1> QED
    BY <1>1 DEF HandsInv, InHand

LEMMA NextHands == WebhookInv /\ HandsInv /\ [Next]_vars => HandsInv'
<1> SUFFICES ASSUME WebhookInv, HandsInv, [Next]_vars, NEW b \in Batches PROVE InHand(b)'
    BY DEF HandsInv
<1>0. TypeOK /\ InHand(b)
    BY DEF WebhookInv, HandsInv
<1>1. CASE batch'[b] = batch[b]
    BY <1>1, HandsKept
<1>2. CASE ClaimDue(b)
    <2>1. PICK claimed : batch' = [batch EXCEPT ![b] =
              [pc |-> "post", todo |-> claimed, working |-> {}, ok |-> FALSE]]
        BY <1>2 DEF ClaimDue
    <2>2. batch'[b].pc = "post" /\ batch'[b].working = {}
        BY <1>0, <2>1 DEF TypeOK
    <2> QED
        BY <2>2 DEF InHand
<1>3. ASSUME NEW d \in Deliveries, NEW ok \in BOOLEAN, Post(b, d, ok) PROVE InHand(b)'
    <2>1. batch'[b].pc = "count" /\ batch'[b].working = {d} /\ batch'[b].ok = ok
        BY <1>0, <1>3 DEF Post, TypeOK
    <2>2. ok => handled'[d] # "never"
        BY <1>0, <1>3 DEF Post, Receive, TypeOK
    <2> QED
        BY <2>1, <2>2 DEF InHand
<1>4. CASE Count(b)
    <2>1. /\ batch'[b].pc = "mark" /\ batch'[b].todo = batch[b].todo
          /\ batch'[b].working = batch[b].working /\ batch'[b].ok = batch[b].ok
          /\ UNCHANGED handled
        BY <1>0, <1>4 DEF Count, TypeOK, Batch
    <2> QED
        BY <1>0, <2>1 DEF InHand
<1>5. CASE NextDelivery(b) \/ Crash(b)
  <2>1. \/ batch'[b] = IdleBatch
        \/ batch'[b] = [pc |-> "post", todo |-> batch[b].todo, working |-> {}, ok |-> FALSE]
      BY <1>0, <1>5 DEF NextDelivery, Crash, TypeOK
  <2> QED
      BY <2>1 DEF IdleBatch, InHand
<1>6. ASSUME NEW c \in Batches, BatchStep(c) \/ MarkIgnored(c) \/ Crash(c), c # b
      PROVE  batch'[b] = batch[b]
    <2>1. batch \in [Batches -> Batch]
        BY <1>0 DEF TypeOK
    <2> QED
        BY <1>6, <2>1 DEF BatchStep, ClaimDue, Post, Count, Mark, MarkIgnored, Crash, NextDelivery
<1>7. ASSUME NEW c \in Batches, BatchStep(c) \/ MarkIgnored(c) \/ Crash(c) PROVE InHand(b)'
    <2>1. CASE c # b
        BY <1>1, <1>6, <1>7, <2>1
    <2>2. CASE c = b
        BY <1>2, <1>3, <1>4, <1>5, <1>7, <2>2 DEF BatchStep, Mark, MarkIgnored
    <2> QED
        BY <2>1, <2>2
<1>8. CASE UNCHANGED batch
    BY <1>1, <1>8
<1> QED
    BY <1>7, <1>8 DEF Next, vars, OperatorStep, Enqueue, RevokeWebhook, RetryAbandonedDelivery,
                      DismissAbandonedDelivery, BecomeDue

\* Only what was given up is dismissed, and it stays so.
DismissedInv == \A d \in Deliveries : delivery[d].dismissed => delivery[d].status = "abandoned"

LEMMA NextDismissed == WebhookInv /\ DismissedInv /\ [Next]_vars => DismissedInv'
<1> SUFFICES ASSUME WebhookInv, DismissedInv, [Next]_vars, NEW d \in Deliveries,
                    delivery'[d].dismissed
             PROVE  delivery'[d].status = "abandoned"
    BY DEF DismissedInv
<1>0. TypeOK /\ delivery[d] \in DeliveryRow /\ (delivery[d].dismissed => delivery[d].status = "abandoned")
    BY DEF WebhookInv, TypeOK, DismissedInv
<1>1. CASE delivery'[d] = delivery[d]
    BY <1>0, <1>1
<1>2. ASSUME NEW e \in Events, Enqueue(e) PROVE delivery'[d].status = "abandoned"
    <2>1. delivery'[d].dismissed = FALSE \/ delivery'[d] = delivery[d]
        BY <1>2 DEF Enqueue
    <2> QED
        BY <1>1, <2>1
<1>3. ASSUME NEW c \in Deliveries,
             RetryAbandonedDelivery(c) \/ DismissAbandonedDelivery(c) \/ BecomeDue(c)
      PROVE  delivery'[d].status = "abandoned"
    <2>1. CASE c # d
        BY <1>0, <1>1, <1>3, <2>1 DEF RetryAbandonedDelivery, DismissAbandonedDelivery, BecomeDue,
                                      SetRow, TypeOK
    <2>2. CASE c = d
      <3>1. /\ RetryAbandonedDelivery(d) => ~ delivery[d].dismissed
                    /\ delivery'[d] = [delivery[d] EXCEPT !.status = "pending", !.attempts = 0,
                                                          !.due = TRUE]
            /\ DismissAbandonedDelivery(d) => delivery[d].status = "abandoned"
                    /\ delivery'[d] = [delivery[d] EXCEPT !.dismissed = TRUE]
            /\ BecomeDue(d) => delivery[d].status = "failed"
                    /\ delivery'[d] = [delivery[d] EXCEPT !.due = TRUE]
          BY <1>0 DEF RetryAbandonedDelivery, DismissAbandonedDelivery, BecomeDue, SetRow, TypeOK
      <3>2. RetryAbandonedDelivery(d) => ~ delivery'[d].dismissed
          BY <1>0, <3>1 DEF DeliveryRow
      <3>3. DismissAbandonedDelivery(d) => delivery'[d].status = "abandoned"
          BY <1>0, <3>1 DEF DeliveryRow
      <3>4. BecomeDue(d) => ~ delivery'[d].dismissed
          BY <1>0, <3>1 DEF DeliveryRow
      <3> QED
          BY <1>3, <2>2, <3>2, <3>3, <3>4
    <2> QED
        BY <2>1, <2>2
<1>4. ASSUME NEW b \in Batches, ClaimDue(b) PROVE delivery'[d].status = "abandoned"
    <2>1. \/ delivery'[d] = delivery[d]
          \/ /\ Waiting(d)
             /\ delivery'[d] = [delivery[d] EXCEPT !.status = "processing", !.attempts = @ + 1]
        BY <1>4 DEF ClaimDue, Due
    <2>2. CASE Waiting(d) /\ delivery'[d] = [delivery[d] EXCEPT !.status = "processing", !.attempts = @ + 1]
        BY <1>0, <2>2 DEF Waiting, DeliveryRow
    <2> QED
        BY <1>1, <2>1, <2>2
<1>5. ASSUME NEW b \in Batches, Mark(b) PROVE delivery'[d].status = "abandoned"
    <2>1. PICK c \in batch[b].working : MarkDelivered(c) \/ MarkFailed(c)
        BY <1>5 DEF Mark
    <2>2. c \in Deliveries /\ delivery[c].status = "processing"
        BY HeldType DEF WebhookInv, HolderInv, Held
    <2>3. CASE c # d
        BY <1>0, <1>1, <2>1, <2>3 DEF MarkDelivered, MarkFailed, SetRow, TypeOK
    <2>4. CASE c = d
      <3>1. ~ delivery[d].dismissed
          BY <1>0, <2>2, <2>4
      <3>2. \/ delivery'[d] = [delivery[d] EXCEPT !.status = "delivered"]
            \/ delivery'[d] = [delivery[d] EXCEPT !.status = "abandoned"]
            \/ delivery'[d] = [delivery[d] EXCEPT !.status = "failed", !.due = FALSE]
          BY <1>0, <2>1, <2>4 DEF MarkDelivered, MarkFailed, SetRow, TypeOK
      <3> QED
          BY <1>0, <3>1, <3>2 DEF DeliveryRow
    <2> QED
        BY <2>3, <2>4
<1>6. CASE UNCHANGED delivery
    BY <1>1, <1>6
<1> QED
    BY <1>2, <1>3, <1>4, <1>5, <1>6
       DEF Next, vars, OperatorStep, RevokeWebhook, BatchStep, Post, Count, MarkIgnored, Crash

LEMMA HandsInvariant == Spec => [](WebhookInv /\ HandsInv /\ DismissedInv)
<1>1. Init => HandsInv /\ DismissedInv
    BY DEF Init, IdleBatch, HandsInv, InHand, DismissedInv
<1> QED
    BY <1>1, NextHands, NextDismissed, WebhookInvariant, PTL DEF Spec

\* Where the deliveries are that batches hold, and the others.
HeldPhases ==
    \A b \in Batches, d \in Deliveries :
        /\ d \in batch[b].todo => Phase(d) = "taken"
        /\ d \in batch[b].working => Phase(d) = IF batch[b].ok THEN "answered" ELSE "refused"

FreePhases ==
    \A d \in Deliveries :
        /\ delivery[d].status = "absent" => Phase(d) = "absent"
        /\ delivery[d].status \in {"pending", "failed"} => Phase(d) = "waiting"
        /\ delivery[d].status = "delivered" => Phase(d) = "done"
        /\ delivery[d].status = "abandoned" =>
              Phase(d) = IF delivery[d].dismissed THEN "dismissed" ELSE "givenUp"
        /\ delivery[d].status = "processing" /\ (\A b \in Batches : d \notin Held(b)) =>
              Phase(d) = "lost"

LEMMA PhaseHeld == WebhookInv => HeldPhases
<1> SUFFICES ASSUME WebhookInv, NEW b \in Batches, NEW d \in Deliveries, d \in Held(b)
             PROVE  /\ d \in batch[b].todo => Phase(d) = "taken"
                    /\ d \in batch[b].working =>
                          Phase(d) = IF batch[b].ok THEN "answered" ELSE "refused"
    BY DEF HeldPhases, Held
<1>1. delivery[d].status = "processing" /\ \A c \in Batches : d \in Held(c) => c = b
    BY DEF WebhookInv, HolderInv
<1>2. d \in batch[b].todo => d \notin batch[b].working
    BY DEF WebhookInv, HolderTally
<1>3. Phase(d) = PhaseInHand(d)
    BY <1>1 DEF Phase, Waiting
<1> QED
    BY <1>1, <1>2, <1>3 DEF PhaseInHand, Held

LEMMA PhaseFree == FreePhases
<1> SUFFICES ASSUME NEW d \in Deliveries
             PROVE  /\ delivery[d].status = "absent" => Phase(d) = "absent"
                    /\ delivery[d].status \in {"pending", "failed"} => Phase(d) = "waiting"
                    /\ delivery[d].status = "delivered" => Phase(d) = "done"
                    /\ delivery[d].status = "abandoned" =>
                          Phase(d) = IF delivery[d].dismissed THEN "dismissed" ELSE "givenUp"
                    /\ delivery[d].status = "processing" /\ (\A b \in Batches : d \notin Held(b)) =>
                          Phase(d) = "lost"
    BY DEF FreePhases
<1>1. delivery[d].status = "processing" => Phase(d) = PhaseInHand(d)
    BY DEF Phase, Waiting
<1>2. (\A b \in Batches : d \notin Held(b)) => PhaseInHand(d) = "lost"
    BY DEF PhaseInHand, Held
<1> QED
    BY <1>1, <1>2 DEF Phase, Waiting

\* The same after a step.
LEMMA PhasesNext == FreePhases' /\ (WebhookInv' => HeldPhases')
BY PhaseHeld, PhaseFree, PTL

\* A delivery whose row and holder stay is where it was.
LEMMA PhaseKept ==
    ASSUME NEW d \in Deliveries,
           delivery'[d].status = delivery[d].status,
           delivery'[d].dismissed = delivery[d].dismissed,
           \A b \in Batches : /\ d \in batch'[b].todo <=> d \in batch[b].todo
                              /\ d \in batch'[b].working <=> d \in batch[b].working
                              /\ d \in batch[b].working => batch'[b].ok = batch[b].ok
    PROVE  Phase(d)' = Phase(d)
<1>1. Waiting(d)' <=> Waiting(d)
    BY DEF Waiting
<1>2. PhaseInHand(d)' = PhaseInHand(d)
    BY DEF PhaseInHand
<1> QED
    BY <1>1, <1>2 DEF Phase

\* Some deliveries move, the others stay.
LEMMA Moves ==
    ASSUME NEW S \in SUBSET Deliveries, NEW from, NEW to,
           \A d \in S : Phase(d) \in from /\ Phase(d)' = to,
           \A d \in Deliveries \ S : Phase(d)' = Phase(d)
    PROVE  Queue!Move(S, from, to)
BY DEF Queue!Move

\* Steps that move no delivery.
LEMMA QueueRests ==
    ASSUME \A d \in Deliveries : Phase(d)' = Phase(d), UNCHANGED <<posts, handled>>
    PROVE  UNCHANGED Queue!vars
BY DEF Queue!vars

\* An event is put in the queue of each webhook that is on.
LEMMA EnqueueSubmits ==
    ASSUME WebhookInv, NEW e \in Events, Enqueue(e)
    PROVE  Queue!Next
<1> DEFINE S == {d \in Deliveries : d[2] = e /\ webhook[HookOf(d)].on}
<1>1. \A d \in S : delivery[d].status = "absent" /\ delivery'[d].status = "pending"
    BY DeliveryParts DEF Enqueue
<1>2. UNCHANGED <<batch, posts, handled>> /\ \A d \in Deliveries \ S : delivery'[d] = delivery[d]
    BY DEF Enqueue
<1>3. \A d \in S : Phase(d) = "absent" /\ Phase(d)' = "waiting"
    BY <1>1, PhaseFree, PhasesNext DEF FreePhases
<1>4. \A d \in Deliveries \ S : Phase(d)' = Phase(d)
    BY <1>2, PhaseKept
<1> HIDE DEF S
<1>5. Queue!Submit(S)
    BY <1>2, <1>3, <1>4, Moves DEF S, Queue!Submit, Queue!Quietly
<1> QED
    BY <1>5 DEF S, Queue!Next

\* What an operator does to an abandoned delivery, and the passing of time.
LEMMA RowMoves ==
    ASSUME WebhookInv, NEW d \in Deliveries,
           RetryAbandonedDelivery(d) \/ DismissAbandonedDelivery(d) \/ BecomeDue(d)
    PROVE  Queue!Next \/ UNCHANGED Queue!vars
<1>0. TypeOK /\ delivery[d] \in DeliveryRow /\ UNCHANGED <<batch, handled>>
    BY DEF WebhookInv, TypeOK, RetryAbandonedDelivery, DismissAbandonedDelivery, BecomeDue
<1>1. \A c \in Deliveries \ {d} : delivery'[c] = delivery[c]
    BY <1>0 DEF RetryAbandonedDelivery, DismissAbandonedDelivery, BecomeDue, SetRow, TypeOK
<1>2. \A c \in Deliveries \ {d} : Phase(c)' = Phase(c)
    BY <1>0, <1>1, PhaseKept
<1>3. CASE RetryAbandonedDelivery(d)
    <2>1. /\ delivery[d].status = "abandoned" /\ ~ delivery[d].dismissed
          /\ delivery'[d].status = "pending" /\ posts' = [posts EXCEPT ![d] = 0]
        BY <1>0, <1>3 DEF RetryAbandonedDelivery, SetRow, TypeOK, DeliveryRow
    <2>2. Phase(d) = "givenUp" /\ Phase(d)' = "waiting"
        BY <2>1, PhaseFree, PhasesNext DEF FreePhases
    <2>3. Queue!Requeue(d)
        BY <1>0, <1>2, <2>1, <2>2, Moves DEF Queue!Requeue
    <2> QED
        BY <2>3 DEF Queue!Next
<1>4. CASE DismissAbandonedDelivery(d)
    <2>1. /\ delivery[d].status = "abandoned" /\ ~ delivery[d].dismissed
          /\ delivery'[d].status = "abandoned" /\ delivery'[d].dismissed /\ UNCHANGED posts
        BY <1>0, <1>4 DEF DismissAbandonedDelivery, SetRow, TypeOK, DeliveryRow
    <2>2. Phase(d) = "givenUp" /\ Phase(d)' = "dismissed"
        BY <2>1, PhaseFree, PhasesNext DEF FreePhases
    <2>3. Queue!Dismiss(d)
        BY <1>0, <1>2, <2>1, <2>2, Moves DEF Queue!Dismiss, Queue!Quietly
    <2> QED
        BY <2>3 DEF Queue!Next
<1>5. CASE BecomeDue(d)
    <2>1. /\ delivery'[d].status = delivery[d].status
          /\ delivery'[d].dismissed = delivery[d].dismissed /\ UNCHANGED posts
        BY <1>0, <1>5 DEF BecomeDue, SetRow, TypeOK, DeliveryRow
    <2> QED
        BY <1>0, <1>2, <2>1, PhaseKept, QueueRests
<1> QED
    BY <1>3, <1>4, <1>5

\* A claim takes what waits and has tries left.
LEMMA ClaimTakes ==
    ASSUME WebhookInv, WebhookInv', HandsInv, NEW b \in Batches, ClaimDue(b)
    PROVE  Queue!Next
<1>1. PICK claimed \in SUBSET Due :
        /\ delivery' = [d \in Deliveries |->
              IF d \in claimed
              THEN [delivery[d] EXCEPT !.status = "processing", !.attempts = @ + 1]
              ELSE delivery[d]]
        /\ batch' = [batch EXCEPT ![b] =
              [pc |-> "post", todo |-> claimed, working |-> {}, ok |-> FALSE]]
    BY DEF ClaimDue
<1>2. claimed \in SUBSET Deliveries /\ UNCHANGED <<posts, handled>>
    BY DEF Due, ClaimDue
<1>3. batch[b].todo = {} /\ batch[b].working = {}
    BY DEF HandsInv, InHand, ClaimDue
<1>4. /\ batch'[b].todo = claimed /\ batch'[b].working = {}
      /\ \A c \in Batches \ {b} : batch'[c] = batch[c]
    BY <1>1 DEF WebhookInv, TypeOK
<1>5. \A d \in claimed : /\ delivery[d].status \in {"pending", "failed"}
                         /\ delivery[d].attempts < MaxAttempts /\ posts[d] = delivery[d].attempts
    BY <1>2 DEF Due, Waiting, WebhookInv, RowTally
<1>6. \A d \in claimed : Phase(d) = "waiting" /\ Phase(d)' = "taken"
    BY <1>2, <1>4, <1>5, PhaseFree, PhasesNext DEF FreePhases, HeldPhases
<1>7. ASSUME NEW d \in Deliveries \ claimed PROVE Phase(d)' = Phase(d)
    <2>1. delivery'[d] = delivery[d]
        BY <1>1
    <2> QED
        BY <1>3, <1>4, <2>1, PhaseKept
<1>8. Queue!Take(claimed)
    BY <1>2, <1>5, <1>6, <1>7, Moves DEF Queue!Take, Queue!Quietly
<1> QED
    BY <1>2, <1>8 DEF Queue!Next

\* A POST is a try; what the answer says well the receiver has heard.
LEMMA PostSends ==
    ASSUME WebhookInv, WebhookInv', HandsInv, NEW b \in Batches, NEW d \in Deliveries,
           NEW ok \in BOOLEAN, Post(b, d, ok)
    PROVE  Queue!Next
<1> DEFINE answer == IF ok THEN "answered" ELSE "refused"
           heard  == [c \in Deliveries |-> handled[c] # "never"]
<1>0. TypeOK /\ UNCHANGED delivery /\ d \in batch[b].todo /\ posts' = [posts EXCEPT ![d] = @ + 1]
    BY DEF WebhookInv, Post
<1>1. batch[b].working = {}
    BY DEF HandsInv, InHand, Post
<1>2. /\ batch'[b].todo = batch[b].todo \ {d} /\ batch'[b].working = {d} /\ batch'[b].ok = ok
      /\ \A c \in Batches \ {b} : batch'[c] = batch[c]
    BY <1>0 DEF Post, TypeOK
<1>3. Phase(d) = "taken" /\ Phase(d)' = answer
    BY <1>0, <1>2, PhaseHeld, PhasesNext DEF HeldPhases
<1>4. \A c \in Deliveries \ {d} : Phase(c)' = Phase(c)
    BY <1>0, <1>1, <1>2, PhaseKept
<1>5. Queue!Move({d}, {"taken"}, answer)
    BY <1>3, <1>4, Moves
<1>6. heard' \in {[heard EXCEPT ![d] = TRUE]} \cup (IF answer = "refused" THEN {heard} ELSE {})
    <2>1. Receive(d) => heard' = [heard EXCEPT ![d] = TRUE]
        BY <1>0 DEF Receive, TypeOK
    <2>2. Receive(d) \/ (~ ok /\ UNCHANGED handled)
        BY DEF Post
    <2> QED
        BY <2>1, <2>2
<1>7. Queue!Send(d, answer)
    BY <1>0, <1>5, <1>6 DEF Queue!Send
<1> QED
    BY <1>7 DEF Queue!Next

\* A batch that goes on has its list, and none in its hands.
LEMMA HandsEmptied ==
    ASSUME TypeOK, NEW b \in Batches, NextDelivery(b)
    PROVE  /\ batch'[b].todo = batch[b].todo /\ batch'[b].working = {}
           /\ \A c \in Batches \ {b} : batch'[c] = batch[c]
<1>1. \/ batch[b].todo = {} /\ batch' = [batch EXCEPT ![b] = IdleBatch]
      \/ batch' = [batch EXCEPT ![b] =
            [pc |-> "post", todo |-> batch[b].todo, working |-> {}, ok |-> FALSE]]
    BY DEF NextDelivery
<1>2. IdleBatch.todo = {} /\ IdleBatch.working = {} /\ batch \in [Batches -> Batch]
    BY DEF IdleBatch, TypeOK
<1> QED
    BY <1>1, <1>2

\* The mark settles what was heard, and of the rest what has tries left is
\* tried again.
LEMMA MarkSettles ==
    ASSUME WebhookInv, WebhookInv', HandsInv, DismissedInv, NEW b \in Batches, Mark(b)
    PROVE  Queue!Next
<1>0. TypeOK /\ UNCHANGED <<posts, handled>> /\ NextDelivery(b)
    BY DEF WebhookInv, Mark
<1>d. PICK d \in batch[b].working : IF batch[b].ok THEN MarkDelivered(d) ELSE MarkFailed(d)
    BY DEF Mark
<1>1. /\ d \in Deliveries /\ batch[b].working = {d} /\ posts[d] = delivery[d].attempts
      /\ delivery[d] \in DeliveryRow /\ ~ delivery[d].dismissed
      /\ batch[b].ok => handled[d] # "never"
  <2>1. d \in Deliveries /\ delivery[d].status = "processing" /\ posts[d] = delivery[d].attempts
      BY HeldType DEF WebhookInv, HolderInv, HolderTally, Held
  <2>2. batch[b].working = {d} /\ (batch[b].ok => handled[d] # "never")
      BY DEF HandsInv, InHand
  <2> QED
      BY <1>0, <2>1, <2>2 DEF DismissedInv, TypeOK
<1>2. /\ batch'[b].todo = batch[b].todo /\ batch'[b].working = {}
      /\ \A c \in Batches \ {b} : batch'[c] = batch[c]
    BY <1>0, HandsEmptied
<1>3. \A c \in Deliveries \ {d} : delivery'[c] = delivery[c]
    BY <1>0, <1>d DEF MarkDelivered, MarkFailed, SetRow, TypeOK
<1>4. \A c \in Deliveries \ {d} : Phase(c)' = Phase(c)
    BY <1>1, <1>2, <1>3, PhaseKept
<1>5. CASE batch[b].ok
    <2>1. delivery'[d].status = "delivered"
        BY <1>0, <1>d, <1>1, <1>5 DEF MarkDelivered, SetRow, TypeOK, DeliveryRow
    <2>2. Phase(d) = "answered" /\ Phase(d)' = "done"
        BY <1>1, <1>5, <2>1, PhaseHeld, PhasesNext DEF HeldPhases, FreePhases
    <2>3. Queue!Settle(d)
        BY <1>0, <1>1, <1>4, <1>5, <2>2, Moves DEF Queue!Settle, Queue!Quietly
    <2> QED
        BY <1>1, <2>3 DEF Queue!Next
<1>6. CASE ~ batch[b].ok /\ delivery[d].attempts >= MaxAttempts
    <2>1. /\ delivery'[d].status = "abandoned" /\ delivery'[d].dismissed = delivery[d].dismissed
          /\ posts[d] = MaxAttempts
      <3>1. SetRow(d, [delivery[d] EXCEPT !.status = "abandoned"])
          BY <1>d, <1>6 DEF MarkFailed
      <3>2. delivery[d].attempts \in 0..MaxAttempts
          BY <1>1 DEF DeliveryRow
      <3>3. posts[d] = MaxAttempts
          BY <1>1, <1>6, <3>2, WebhookAssumption
      <3>4. delivery'[d] = [delivery[d] EXCEPT !.status = "abandoned"]
          BY <1>0, <1>1, <3>1 DEF SetRow, TypeOK
      <3> QED
          BY <1>1, <3>3, <3>4 DEF DeliveryRow
    <2>2. Phase(d) = "refused" /\ Phase(d)' = "givenUp"
        BY <1>1, <1>6, <2>1, PhaseHeld, PhasesNext DEF HeldPhases, FreePhases
    <2>3. Queue!GiveUp(d)
        BY <1>0, <1>1, <1>4, <2>1, <2>2, Moves DEF Queue!GiveUp, Queue!Quietly
    <2> QED
        BY <1>1, <2>3 DEF Queue!Next
<1>7. CASE ~ batch[b].ok /\ ~ (delivery[d].attempts >= MaxAttempts)
    <2>1. delivery'[d].status = "failed" /\ posts[d] < MaxAttempts
      <3>1. SetRow(d, [delivery[d] EXCEPT !.status = "failed", !.due = FALSE])
          BY <1>d, <1>7 DEF MarkFailed
      <3>2. delivery[d].attempts \in 0..MaxAttempts
          BY <1>1 DEF DeliveryRow
      <3> QED
          BY <1>0, <1>1, <1>7, <3>1, <3>2, WebhookAssumption DEF SetRow, TypeOK, DeliveryRow
    <2>2. Phase(d) = "refused" /\ Phase(d)' = "waiting"
        BY <1>1, <1>7, <2>1, PhaseHeld, PhasesNext DEF HeldPhases, FreePhases
    <2>3. Queue!TryAgain(d)
        BY <1>0, <1>1, <1>4, <2>1, <2>2, Moves DEF Queue!TryAgain, Queue!Quietly
    <2> QED
        BY <1>1, <2>3 DEF Queue!Next
<1> QED
    BY <1>5, <1>6, <1>7

\* A mark that is ignored loses the delivery, a crash all of the batch.
LEMMA DropLoses ==
    ASSUME WebhookInv, WebhookInv', HandsInv, NEW b \in Batches, MarkIgnored(b) \/ Crash(b)
    PROVE  Queue!Next
<1> DEFINE S == {d \in Held(b) : \A c \in Batches : d \notin Held(c)'}
<1>0. TypeOK /\ UNCHANGED <<delivery, posts, handled>> /\ S \in SUBSET Deliveries
    BY HeldType DEF WebhookInv, MarkIgnored, Crash, Held
<1>1. /\ \A c \in Batches \ {b} : batch'[c] = batch[c]
      /\ batch'[b].working = {}
      /\ batch'[b].todo = batch[b].todo \/ batch'[b].todo = {}
    <2>1. CASE MarkIgnored(b)
        BY <1>0, <2>1, HandsEmptied DEF MarkIgnored
    <2>2. CASE Crash(b)
        BY <1>0, <2>2 DEF Crash, TypeOK, IdleBatch
    <2> QED
        BY <2>1, <2>2
<1>2. ASSUME NEW d \in S
      PROVE  /\ Phase(d) \in {"taken", "answered", "refused"}
             /\ Phase(d)' = "lost"
    <2>1. d \in Deliveries /\ d \in Held(b) /\ \A c \in Batches : d \notin Held(c)'
        BY <1>0
    <2>2. delivery'[d].status = "processing"
        BY <1>0, <2>1 DEF WebhookInv, HolderInv
    <2> QED
        BY <2>1, <2>2, PhaseHeld, PhasesNext DEF HeldPhases, FreePhases, Held
<1>3. ASSUME NEW d \in Deliveries \ S PROVE Phase(d)' = Phase(d)
    <2>1. d \in batch[b].todo => d \notin batch[b].working
        BY DEF WebhookInv, HolderTally
    <2>2. CASE d \notin Held(b)
        BY <1>0, <1>1, <2>2, PhaseKept DEF Held
    <2>3. CASE d \in Held(b)
        <3>1. PICK c \in Batches : d \in Held(c)'
            BY <1>3, <2>3
        <3>2. c = b
            BY <1>1, <2>3, <3>1 DEF Held, WebhookInv, HolderInv
        <3>3. d \in batch'[b].todo /\ d \in batch[b].todo /\ d \notin batch[b].working
            BY <1>1, <2>1, <3>1, <3>2 DEF Held
        <3> QED
            BY <1>0, <1>1, <3>3, PhaseKept
    <2> QED
        BY <2>2, <2>3
<1> HIDE DEF S
<1>4. Queue!Lose(S)
    BY <1>0, <1>2, <1>3, Moves DEF Queue!Lose, Queue!Quietly, Queue!Underway
<1> QED
    BY <1>0, <1>4 DEF Queue!Next

\* Whatever happens, it is a step of the queue or none.
LEMMA StepQueued ==
    ASSUME WebhookInv, WebhookInv', HandsInv, DismissedInv, [Next]_vars
    PROVE  Queue!Next \/ UNCHANGED Queue!vars
<1>0. TypeOK
    BY DEF WebhookInv
<1>1. CASE UNCHANGED <<delivery, batch, posts, handled>>
    BY <1>1, PhaseKept, QueueRests
<1>2. CASE OperatorStep
    BY <1>1, <1>2, EnqueueSubmits, RowMoves DEF OperatorStep, RevokeWebhook
<1>3. ASSUME NEW d \in Deliveries, BecomeDue(d) PROVE Queue!Next \/ UNCHANGED Queue!vars
    BY <1>3, RowMoves
<1>4. ASSUME NEW b \in Batches, Count(b) PROVE Queue!Next \/ UNCHANGED Queue!vars
    <2>1. /\ UNCHANGED <<delivery, posts, handled>>
          /\ \A c \in Batches : /\ batch'[c].todo = batch[c].todo
                                /\ batch'[c].working = batch[c].working
                                /\ batch'[c].ok = batch[c].ok
        BY <1>0, <1>4 DEF Count, TypeOK, Batch
    <2> QED
        BY <2>1, PhaseKept, QueueRests
<1>5. ASSUME NEW b \in Batches, BatchStep(b) \/ MarkIgnored(b) \/ Crash(b)
      PROVE  Queue!Next \/ UNCHANGED Queue!vars
    BY <1>4, <1>5, ClaimTakes, PostSends, MarkSettles, DropLoses DEF BatchStep
<1>6. CASE UNCHANGED vars
    BY <1>1, <1>6 DEF vars
<1> QED
    BY <1>2, <1>3, <1>5, <1>6 DEF Next

\* Batches that overlap, restarts and operators are together a queue that
\* sends at least once and settles what was heard, for any number of each.
THEOREM QueueHolds == Spec => SentAtLeastOnce
<1>1. Init => Queue!Init
    <2> SUFFICES ASSUME Init PROVE Queue!Init
        OBVIOUS
    <2>1. \A d \in Deliveries : Phase(d) = "absent"
        BY PhaseFree DEF Init, FreePhases
    <2> QED
        BY <2>1 DEF Init, Queue!Init
<1>2. WebhookInv /\ WebhookInv' /\ HandsInv /\ DismissedInv /\ [Next]_vars
          => [Queue!Next]_(Queue!vars)
    BY StepQueued
<1> QED
    BY <1>1, <1>2, HandsInvariant, PTL DEF Spec, SentAtLeastOnce, Queue!Spec

-----------------------------------------------------------------------------
(* Purge runs: the invariant.  A run deletes the files on its list and the *)
(* rows of its statement only, and what was on no list and in no statement *)
(* when a hold was placed gets into none while the hold lasts, because the *)
(* SELECT and the statement look at the holds when they start.  A row is   *)
(* purged by one run, because the statement returns of the rows it picked  *)
(* those that it purges; so what runs have purged and not yet audited is   *)
(* apart.                                                                  *)

\* What a user does not delete has its row; a file is in storage; and no run
\* is about to purge either.
Spared(i) ==
    /\ i.kind \notin UserDeleted => i.of \in kept[i.kind]
    /\ i.kind \in Media => i.of \in file[i.kind]
    /\ ~ Condemned(i)

HoldInv ==
    \A h \in Holds : hold[h].status = "active" =>
        \A i \in guarded[h] : Covers(hold[h].scope, i.kind, i.of) /\ Spared(i)

GoneInv ==
    /\ \A j \in Jobs : \A r \in job[j].purged : r \notin kept[Kind(j)]
    /\ \A a \in audit : \A r \in a.rows : r \notin kept[a.kind]

ApartInv ==
    /\ \A j, k \in Jobs : j # k /\ Kind(j) = Kind(k) =>
          \A r \in job[j].purged : r \notin job[k].purged
    /\ \A j \in Jobs, a \in audit : a.kind = Kind(j) =>
          \A r \in a.rows : r \notin job[j].purged

PurgeInv == PurgeTypeOK /\ HoldInv /\ GoneInv /\ ApartInv /\ AuditedOnce

\* The place of a run in the plan names a category.
LEMMA PlanType == /\ DOMAIN Plan = 1..Len(Plan)
                  /\ Len(Plan) \in Nat \ {0}
                  /\ \A i \in DOMAIN Plan : Plan[i] \in Kinds
BY RetentionAssumption DEF Kinds

LEMMA KindType == PurgeTypeOK => \A j \in Jobs : job[j] \in JobState /\ Kind(j) \in Kinds
BY PlanType DEF PurgeTypeOK, JobState, Kind

\* Nothing is purged before the first run.
LEMMA InitPurge == PurgeInit => PurgeInv
<1> SUFFICES ASSUME PurgeInit PROVE PurgeInv
    OBVIOUS
<1>1. PurgeTypeOK
    <2>1. hold \in [Holds -> HoldRow]
        BY DEF PurgeInit, HoldRow
    <2>2. 1 \in DOMAIN Plan
        BY PlanType
    <2> QED
        BY <2>1, <2>2 DEF PurgeInit, PurgeTypeOK, JobState
<1>2. HoldInv
    BY DEF PurgeInit, HoldInv
<1>3. GoneInv /\ ApartInv /\ AuditedOnce
    BY DEF PurgeInit, GoneInv, ApartInv, AuditedOnce
<1> QED
    BY <1>1, <1>2, <1>3 DEF PurgeInv

-----------------------------------------------------------------------------
(* What the steps of a run have in common.                                 *)

\* A run that moves on keeps what it purged or forgets it, and its list of
\* files shrinks, is emptied, or is filled with what is under no hold.
LEMMA JobMoved ==
    ASSUME PurgeInv, NEW j \in Jobs, NEW s \in JobState, Continue(j, s),
           UNCHANGED <<kept, file, hold, audit, guarded>>,
           s.purged # {} => s.purged = job[j].purged /\ s.step = job[j].step,
           \A r \in s.paths \cup s.picked :
               \/ r \in job[j].paths \cup job[j].picked /\ s.step = job[j].step
               \/ ~ OnHold(Plan[s.step], r)
    PROVE  PurgeInv'
<1>0. PurgeTypeOK /\ job \in [Jobs -> JobState]
    BY DEF PurgeInv, PurgeTypeOK
<1>1. PurgeTypeOK'
    BY <1>0 DEF PurgeTypeOK, Continue
<1>2. job'[j] = s /\ \A k \in Jobs \ {j} : job'[k] = job[k]
    BY <1>0 DEF Continue
<1>3. \A k \in Jobs \ {j} : Kind(k)' = Kind(k)
    BY <1>2 DEF Kind
<1>4. Kind(j)' = Plan[s.step] /\ (s.step = job[j].step => Kind(j)' = Kind(j))
    BY <1>2 DEF Kind
<1>5. HoldInv'
    <2> SUFFICES ASSUME NEW h \in Holds, hold[h].status = "active", NEW i \in guarded[h]
                 PROVE  Covers(hold[h].scope, i.kind, i.of) /\ Spared(i)'
        BY DEF HoldInv
    <2>1. Covers(hold[h].scope, i.kind, i.of) /\ Spared(i) /\ i \in Items
        BY <1>0 DEF PurgeInv, HoldInv, PurgeTypeOK
    <2>2. ~ Condemned(i)'
        <3> SUFFICES ASSUME NEW k \in Jobs, i.kind = Kind(k)',
                            i.of \in job'[k].paths \cup job'[k].picked
                     PROVE  FALSE
            BY DEF Condemned
        <3>1. CASE k # j
            BY <1>2, <1>3, <2>1, <3>1 DEF Spared, Condemned
        <3>2. CASE k = j
            <4>1. i.of \in s.paths \cup s.picked /\ i.kind = Plan[s.step]
                BY <1>2, <1>4, <3>2
            <4>2. OnHold(i.kind, i.of)
                BY <2>1 DEF OnHold
            <4>3. i.of \in job[j].paths \cup job[j].picked /\ Kind(j)' = Kind(j)
                BY <1>4, <4>1, <4>2
            <4> QED
                BY <2>1, <3>2, <4>3 DEF Spared, Condemned
        <3> QED
            BY <3>1, <3>2
    <2> QED
        BY <2>1, <2>2 DEF Spared
<1>6. \A k \in Jobs : job'[k].purged # {} => job'[k].purged = job[k].purged /\ Kind(k)' = Kind(k)
    BY <1>2, <1>3, <1>4
<1>7. GoneInv'
    BY <1>6 DEF PurgeInv, GoneInv
<1>8. ApartInv'
    BY <1>6 DEF PurgeInv, ApartInv
<1>9. AuditedOnce'
    BY DEF PurgeInv, AuditedOnce
<1> QED
    BY <1>1, <1>5, <1>7, <1>8, <1>9 DEF PurgeInv

\* What a run starts a category with, or ends with.
LEMMA BlankType ==
    ASSUME PurgeTypeOK, NEW j \in Jobs, NEW step \in DOMAIN Plan, NEW pc \in {"idle", "category"}
    PROVE  /\ Blank(j, pc, step) \in JobState
           /\ Blank(j, pc, step).purged = {}
           /\ Blank(j, pc, step).paths = {} /\ Blank(j, pc, step).picked = {}
BY KindType DEF Blank, JobState

\* The next category, or the end of the run, whatever became of this one.
LEMMA NextType ==
    ASSUME PurgeTypeOK, NEW j \in Jobs, NextCategory(j) \/ EndRun(j)
    PROVE  \E s \in JobState : Continue(j, s) /\ s.purged = {} /\ s.paths = {} /\ s.picked = {}
<1>1. CASE EndRun(j)
    <2> DEFINE b == Blank(j, "idle", 1)
               s == [b EXCEPT !.actor = NoActor]
    <2>1. b \in JobState /\ b.purged = {} /\ b.paths = {} /\ b.picked = {}
        BY PlanType, BlankType
    <2>2. Continue(j, s)
        BY <1>1 DEF EndRun
    <2> HIDE DEF b
    <2>3. s \in JobState /\ s.purged = {} /\ s.paths = {} /\ s.picked = {}
        BY <2>1 DEF JobState
    <2> QED
        BY <2>2, <2>3
<1>2. CASE NextCategory(j) /\ job[j].step # Len(Plan)
    <2>1. job[j].step + 1 \in DOMAIN Plan
        BY <1>2, PlanType, KindType DEF JobState
    <2> QED
        BY <1>2, <2>1, BlankType DEF NextCategory
<1> QED
    BY <1>1, <1>2 DEF NextCategory

LEMMA RunEnds ==
    ASSUME PurgeInv, NEW j \in Jobs, NextCategory(j) \/ EndRun(j),
           UNCHANGED <<kept, file, hold, audit, guarded>>
    PROVE  PurgeInv'
<1>1. PICK s \in JobState : Continue(j, s) /\ s.purged = {} /\ s.paths = {} /\ s.picked = {}
    BY NextType DEF PurgeInv
<1> QED
    BY <1>1, JobMoved

-----------------------------------------------------------------------------
(* One lemma for each step of a run that does more.                        *)

LEMMA StartRunStep ==
    ASSUME PurgeInv, NEW j \in Jobs, NEW actor \in Actors \cup {NoActor}, StartRun(j, actor)
    PROVE  PurgeInv'
<1> DEFINE b == Blank(j, "category", 1)
           s == [b EXCEPT !.actor = actor]
<1>1. b \in JobState /\ b.purged = {} /\ b.paths = {} /\ b.picked = {}
    BY PlanType, BlankType DEF PurgeInv
<1>2. Continue(j, s)
    BY DEF StartRun
<1> HIDE DEF b
<1>3. s \in JobState /\ s.purged = {} /\ s.paths = {} /\ s.picked = {}
    BY <1>1 DEF JobState
<1> QED
    BY <1>2, <1>3, JobMoved DEF StartRun

LEMMA SetCutoffStep ==
    ASSUME PurgeInv, NEW j \in Jobs, NEW due \in SUBSET Recordings, SetCutoff(j, due)
    PROVE  PurgeInv'
<1> DEFINE s == [job[j] EXCEPT !.pc = IF Kind(j) \in Media THEN "collect" ELSE "purge",
                               !.due = due]
<1>0. job[j] \in JobState
    BY KindType DEF PurgeInv
<1>1. /\ s \in JobState /\ s.purged = job[j].purged
      /\ s.paths = job[j].paths /\ s.picked = job[j].picked /\ s.step = job[j].step
    BY <1>0 DEF JobState
<1>2. Continue(j, s)
    BY DEF SetCutoff
<1> HIDE DEF s
<1> QED
    BY <1>1, <1>2, JobMoved DEF SetCutoff

LEMMA CollectStep ==
    ASSUME PurgeInv, NEW j \in Jobs, CollectStoragePaths(j)
    PROVE  PurgeInv'
<1> DEFINE s == [job[j] EXCEPT !.pc = "purge", !.paths = Eligible(j)]
<1>0. job[j] \in JobState
    BY KindType DEF PurgeInv
<1>1. Eligible(j) \subseteq Recordings /\ \A r \in Eligible(j) : ~ OnHold(Kind(j), r)
    BY <1>0 DEF Eligible, JobState
<1>2. /\ s \in JobState /\ s.purged = job[j].purged
      /\ s.paths = Eligible(j) /\ s.picked = job[j].picked /\ s.step = job[j].step
    BY <1>0, <1>1 DEF JobState
<1>3. Continue(j, s)
    BY DEF CollectStoragePaths
<1>4. Plan[s.step] = Kind(j)
    BY <1>2 DEF Kind
<1> HIDE DEF s
<1> QED
    BY <1>1, <1>2, <1>3, <1>4, JobMoved DEF CollectStoragePaths

\* The statement picks rows that are under no hold.
LEMMA PickStep ==
    ASSUME PurgeInv, NEW j \in Jobs, PurgeEligible(j)
    PROVE  PurgeInv'
<1> DEFINE s == [job[j] EXCEPT !.pc = "commit", !.picked = Eligible(j)]
<1>0. job[j] \in JobState
    BY KindType DEF PurgeInv
<1>1. Eligible(j) \subseteq Recordings /\ \A r \in Eligible(j) : ~ OnHold(Kind(j), r)
    BY <1>0 DEF Eligible, JobState
<1>2. /\ s \in JobState /\ s.purged = job[j].purged
      /\ s.paths = job[j].paths /\ s.picked = Eligible(j) /\ s.step = job[j].step
    BY <1>0, <1>1 DEF JobState
<1>3. Continue(j, s)
    BY DEF PurgeEligible
<1>4. Plan[s.step] = Kind(j)
    BY <1>2 DEF Kind
<1> HIDE DEF s
<1> QED
    BY <1>1, <1>2, <1>3, <1>4, JobMoved DEF PurgeEligible

\* The rows the statement returns are among those it picked, were there
\* before, and are gone after.
LEMMA PurgeStep ==
    ASSUME PurgeInv, NEW j \in Jobs, CommitPurge(j)
    PROVE  PurgeInv'
<1> DEFINE K == Kind(j)
           E == job[j].picked \cap kept[K]
           s == Purged(j, E)
<1>0. /\ PurgeTypeOK /\ job[j] \in JobState /\ K \in Kinds
      /\ kept \in [Kinds -> SUBSET Recordings] /\ job \in [Jobs -> JobState]
    BY KindType DEF PurgeInv, PurgeTypeOK
<1>1. E \subseteq Recordings /\ E \subseteq job[j].picked /\ E \subseteq kept[K]
    BY <1>0 DEF JobState
<1>2. /\ kept' = [kept EXCEPT ![K] = @ \ E]
      /\ job' = [job EXCEPT ![j] = s]
      /\ UNCHANGED <<file, hold, audit, guarded>>
    BY DEF CommitPurge, Continue
<1> HIDE DEF K, E
<1>3. /\ s \in JobState /\ s.purged = E /\ s.picked = {}
      /\ s.paths = job[j].paths /\ s.step = job[j].step
    BY <1>0, <1>1 DEF JobState, Purged
<1> HIDE DEF s
<1>4. /\ job'[j].purged = E /\ job'[j].picked = {}
      /\ job'[j].paths = job[j].paths /\ job'[j].step = job[j].step
      /\ \A k \in Jobs \ {j} : job'[k] = job[k]
    BY <1>0, <1>2, <1>3
<1>5. \A k \in Jobs : /\ Kind(k)' = Kind(k) /\ job'[k].paths = job[k].paths
                      /\ job'[k].picked \subseteq job[k].picked
    BY <1>4 DEF Kind
<1>6. /\ \A k \in Kinds : kept'[k] \subseteq kept[k]
      /\ \A k \in Kinds : \A r \in kept[k] : r \notin kept'[k] => k = K /\ r \in E
      /\ \A r \in E : r \notin kept'[K]
    BY <1>0, <1>2
<1>7. PurgeTypeOK'
    BY <1>0, <1>1, <1>2, <1>3 DEF PurgeTypeOK
<1>8. HoldInv'
    <2> SUFFICES ASSUME NEW h \in Holds, hold[h].status = "active", NEW i \in guarded[h]
                 PROVE  Covers(hold[h].scope, i.kind, i.of) /\ Spared(i)'
        BY <1>2 DEF HoldInv
    <2>1. Covers(hold[h].scope, i.kind, i.of) /\ Spared(i) /\ i.kind \in Kinds
        BY <1>0 DEF PurgeInv, HoldInv, PurgeTypeOK, Items
    <2>2. i.kind = K => i.of \notin E
        BY <1>1, <2>1 DEF Spared, Condemned, K
    <2>3. i.kind \notin UserDeleted => i.of \in kept'[i.kind]
        BY <1>6, <2>1, <2>2 DEF Spared
    <2>4. Condemned(i)' => Condemned(i)
        BY <1>5 DEF Condemned
    <2> QED
        BY <1>2, <2>1, <2>3, <2>4 DEF Spared
<1>9. GoneInv'
    <2>1. \A k \in Jobs : \A r \in job'[k].purged : r \notin kept'[Kind(k)]
        BY <1>0, <1>4, <1>6, KindType DEF PurgeInv, GoneInv, K
    <2>2. \A a \in audit : \A r \in a.rows : r \notin kept'[a.kind]
        BY <1>0, <1>6 DEF PurgeInv, GoneInv, PurgeTypeOK, AuditRow
    <2> QED
        BY <1>2, <1>5, <2>1, <2>2 DEF GoneInv
<1>10. ApartInv'
    <2>1. \A k \in Jobs \ {j} : Kind(k) = K => \A r \in job[k].purged : r \notin E
        BY <1>1 DEF PurgeInv, GoneInv
    <2>2. \A a \in audit : a.kind = K => \A r \in a.rows : r \notin E
        BY <1>1 DEF PurgeInv, GoneInv
    <2> QED
        BY <1>2, <1>4, <1>5, <2>1, <2>2 DEF PurgeInv, ApartInv, K
<1>11. AuditedOnce'
    BY <1>2 DEF PurgeInv, AuditedOnce
<1> QED
    BY <1>7, <1>8, <1>9, <1>10, <1>11 DEF PurgeInv

\* The file deleted was on a list, so no hold found it whole.
LEMMA DeleteFileStep ==
    ASSUME PurgeInv, NEW j \in Jobs, NEW r \in Recordings, DeleteFile(j, r)
    PROVE  PurgeInv'
<1> DEFINE K == Kind(j)
           s == [job[j] EXCEPT !.paths = @ \ {r}]
<1>0. /\ PurgeTypeOK /\ job[j] \in JobState /\ K \in Kinds
      /\ file \in [Media -> SUBSET Recordings] /\ job \in [Jobs -> JobState]
    BY KindType DEF PurgeInv, PurgeTypeOK
<1>1. /\ file' = [file EXCEPT ![K] = @ \ {r}] \/ file' = file
      /\ r \in job[j].paths
      /\ job' = [job EXCEPT ![j] = s]
      /\ UNCHANGED <<kept, hold, audit, guarded>>
    BY DEF DeleteFile, Continue
<1> HIDE DEF K
<1>2. /\ s \in JobState /\ s.purged = job[j].purged
      /\ s.paths \subseteq job[j].paths /\ s.picked = job[j].picked /\ s.step = job[j].step
    BY <1>0 DEF JobState
<1> HIDE DEF s
<1>3. \A k \in Jobs : /\ job'[k].purged = job[k].purged
                      /\ job'[k].paths \subseteq job[k].paths
                      /\ job'[k].picked = job[k].picked
                      /\ job'[k].step = job[k].step
    BY <1>0, <1>1, <1>2
<1>4. \A k \in Jobs : Kind(k)' = Kind(k)
    BY <1>3 DEF Kind
<1>5. PurgeTypeOK'
    BY <1>0, <1>1, <1>2 DEF PurgeTypeOK
<1>6. HoldInv'
    <2> SUFFICES ASSUME NEW h \in Holds, hold[h].status = "active", NEW i \in guarded[h]
                 PROVE  Covers(hold[h].scope, i.kind, i.of) /\ Spared(i)'
        BY <1>1 DEF HoldInv
    <2>1. Covers(hold[h].scope, i.kind, i.of) /\ Spared(i)
        BY DEF PurgeInv, HoldInv
    <2>2. i.kind \in Media => i.of \in file'[i.kind]
        <3>1. i.kind = K /\ i.kind \in Media => i.of # r
            BY <1>1, <2>1 DEF Spared, Condemned, K
        <3> QED
            BY <1>0, <1>1, <2>1, <3>1 DEF Spared
    <2>3. Condemned(i)' => Condemned(i)
        BY <1>3, <1>4 DEF Condemned
    <2> QED
        BY <1>1, <2>1, <2>2, <2>3 DEF Spared
<1>7. GoneInv' /\ ApartInv' /\ AuditedOnce'
    BY <1>1, <1>3, <1>4 DEF PurgeInv, GoneInv, ApartInv, AuditedOnce
<1> QED
    BY <1>5, <1>6, <1>7 DEF PurgeInv

LEMMA FilesDoneStep ==
    ASSUME PurgeInv, NEW j \in Jobs, FilesDone(j)
    PROVE  PurgeInv'
<1> DEFINE s == [job[j] EXCEPT !.pc = "audit"]
<1>0. job[j] \in JobState
    BY KindType DEF PurgeInv
<1>1. /\ s \in JobState /\ s.purged = job[j].purged
      /\ s.paths = job[j].paths /\ s.picked = job[j].picked /\ s.step = job[j].step
    BY <1>0 DEF JobState
<1>2. Continue(j, s)
    BY DEF FilesDone
<1> HIDE DEF s
<1> QED
    BY <1>1, <1>2, JobMoved DEF FilesDone

\* The audit row takes over what the run had purged.
LEMMA AuditStep ==
    ASSUME PurgeInv, NEW j \in Jobs, AuditDeletion(j)
    PROVE  PurgeInv'
<1> DEFINE a0 == [kind |-> Kind(j), job |-> j, rows |-> job[j].purged]
<1>0. PurgeTypeOK /\ job[j] \in JobState /\ Kind(j) \in Kinds /\ job \in [Jobs -> JobState]
    BY KindType DEF PurgeInv, PurgeTypeOK
<1>1. PICK s \in JobState : Continue(j, s) /\ s.purged = {} /\ s.paths = {} /\ s.picked = {}
    BY <1>0, NextType DEF AuditDeletion
<1>2. audit' = audit \cup {a0} /\ UNCHANGED <<kept, file, hold, guarded>>
    BY DEF AuditDeletion
<1>3. a0 \in AuditRow /\ a0.kind = Kind(j) /\ a0.rows = job[j].purged
    BY <1>0 DEF AuditRow, JobState
<1> HIDE DEF a0
<1>4. job'[j] = s /\ \A k \in Jobs \ {j} : job'[k] = job[k] /\ Kind(k)' = Kind(k)
    BY <1>0, <1>1 DEF Continue, Kind
<1>5. PurgeTypeOK'
    BY <1>0, <1>1, <1>2, <1>3 DEF PurgeTypeOK, Continue
<1>6. HoldInv'
    <2> SUFFICES ASSUME NEW h \in Holds, hold[h].status = "active", NEW i \in guarded[h]
                 PROVE  Covers(hold[h].scope, i.kind, i.of) /\ Spared(i)'
        BY <1>2 DEF HoldInv
    <2>1. Covers(hold[h].scope, i.kind, i.of) /\ Spared(i)
        BY DEF PurgeInv, HoldInv
    <2>2. Condemned(i)' => Condemned(i)
        BY <1>1, <1>4 DEF Condemned
    <2> QED
        BY <1>2, <2>1, <2>2 DEF Spared
<1>7. GoneInv'
    BY <1>1, <1>2, <1>3, <1>4 DEF PurgeInv, GoneInv
<1>8. ApartInv'
    <2>1. \A k \in Jobs \ {j} : Kind(k) = Kind(j) => \A r \in job[j].purged : r \notin job[k].purged
        BY DEF PurgeInv, ApartInv
    <2>2. \A k, l \in Jobs : k # l /\ Kind(k)' = Kind(l)' =>
              \A r \in job'[k].purged : r \notin job'[l].purged
        BY <1>1, <1>4 DEF PurgeInv, ApartInv
    <2>3. \A k \in Jobs, a \in audit' : a.kind = Kind(k)' =>
              \A r \in a.rows : r \notin job'[k].purged
        BY <1>1, <1>2, <1>3, <1>4, <2>1 DEF PurgeInv, ApartInv
    <2> QED
        BY <2>2, <2>3 DEF ApartInv
<1>9. AuditedOnce'
    <2>1. \A a \in audit : a.kind = Kind(j) => a.rows \cap job[j].purged = {}
        BY DEF PurgeInv, ApartInv
    <2> QED
        BY <1>2, <1>3, <2>1 DEF PurgeInv, AuditedOnce
<1> QED
    BY <1>5, <1>6, <1>7, <1>8, <1>9 DEF PurgeInv

LEMMA RunStepKeeps ==
    ASSUME PurgeInv, NEW j \in Jobs, RunStep(j)
    PROVE  PurgeInv'
<1>1. CASE SkipCategory(j) \/ AuditNothing(j) \/ AuditRefused(j) \/ BreakOff(j)
    BY <1>1, RunEnds DEF SkipCategory, AuditNothing, AuditRefused, BreakOff
<1>2. CASE AuditDeletion(j)
    BY <1>2, AuditStep
<1> QED
    BY <1>1, <1>2, StartRunStep, SetCutoffStep, CollectStep, PickStep, PurgeStep,
       DeleteFileStep, FilesDoneStep DEF RunStep

\* A hold guards what it finds whole; a released one guards nothing.
LEMMA HoldStep ==
    ASSUME PurgeInv, NEW h \in Holds, CreateLegalHold(h) \/ ReleaseLegalHold(h)
    PROVE  PurgeInv'
<1>0. PurgeTypeOK /\ hold[h] \in HoldRow
    BY DEF PurgeInv, PurgeTypeOK
<1> DEFINE G == {i \in Items : Covers(hold[h].scope, i.kind, i.of) /\ Whole(i)}
<1>a. PICK s \in {"active", "released"} :
          /\ hold' = [hold EXCEPT ![h].status = s]
          /\ s = "active" => guarded' = [guarded EXCEPT ![h] = G]
          /\ s = "released" => guarded' = guarded
          /\ UNCHANGED <<kept, file, audit, job>>
    BY DEF CreateLegalHold, ReleaseLegalHold
<1>b. G \subseteq Items
    OBVIOUS
<1>c. \A i \in G : Covers(hold[h].scope, i.kind, i.of) /\ Spared(i)
    BY DEF Whole, Spared
<1> HIDE DEF G
<1> DEFINE row == [hold[h] EXCEPT !.status = s]
<1>d. row \in HoldRow /\ row.scope = hold[h].scope /\ row.status = s
    BY <1>0 DEF HoldRow
<1>e. hold' = [hold EXCEPT ![h] = row]
    BY <1>a
<1> HIDE DEF row
<1>1. /\ UNCHANGED <<kept, file, audit, job>>
      /\ \A g \in Holds : hold'[g].scope = hold[g].scope
      /\ \A g \in Holds \ {h} : hold'[g] = hold[g] /\ guarded'[g] = guarded[g]
      /\ hold' \in [Holds -> HoldRow] /\ guarded' \in [Holds -> SUBSET Items]
    BY <1>0, <1>a, <1>b, <1>d, <1>e DEF PurgeTypeOK
<1>2. PurgeTypeOK'
    BY <1>0, <1>1 DEF PurgeTypeOK
<1>3. \A i : Spared(i)' <=> Spared(i)
    BY <1>1 DEF Spared, Condemned, Kind
<1>4. hold'[h].status = "active" =>
          \A i \in guarded'[h] : Covers(hold[h].scope, i.kind, i.of) /\ Spared(i)
    <2>1. hold'[h].status = s
        BY <1>0, <1>d, <1>e DEF PurgeTypeOK
    <2> QED
        BY <1>0, <1>a, <1>c, <2>1 DEF PurgeTypeOK
<1>5. HoldInv'
    <2> SUFFICES ASSUME NEW g \in Holds, hold'[g].status = "active", NEW i \in guarded'[g]
                 PROVE  Covers(hold'[g].scope, i.kind, i.of) /\ Spared(i)
        BY <1>3 DEF HoldInv
    <2> QED
        BY <1>1, <1>4 DEF PurgeInv, HoldInv
<1>6. GoneInv' /\ ApartInv' /\ AuditedOnce'
    BY <1>1 DEF PurgeInv, GoneInv, ApartInv, AuditedOnce, Kind
<1> QED
    BY <1>2, <1>5, <1>6 DEF PurgeInv

\* A row its user deletes is one no hold is relied on for.
LEMMA SoftDeleteStep ==
    ASSUME PurgeInv, NEW k \in UserDeleted, NEW r \in Recordings, SoftDelete(k, r)
    PROVE  PurgeInv'
<1>0. PurgeTypeOK /\ k \in Kinds /\ kept \in [Kinds -> SUBSET Recordings]
    BY RetentionAssumption DEF PurgeInv, PurgeTypeOK
<1>1. kept' = [kept EXCEPT ![k] = @ \ {r}] /\ UNCHANGED <<file, hold, audit, job, guarded>>
    BY DEF SoftDelete
<1>2. \A l \in Kinds : kept'[l] \subseteq kept[l] /\ (l # k => kept'[l] = kept[l])
    BY <1>0, <1>1
<1>3. PurgeTypeOK'
    BY <1>0, <1>1 DEF PurgeTypeOK
<1>4. HoldInv'
    <2> SUFFICES ASSUME NEW h \in Holds, hold[h].status = "active", NEW i \in guarded[h]
                 PROVE  Covers(hold[h].scope, i.kind, i.of) /\ Spared(i)'
        BY <1>1 DEF HoldInv
    <2>1. Covers(hold[h].scope, i.kind, i.of) /\ Spared(i) /\ i.kind \in Kinds
        BY <1>0 DEF PurgeInv, HoldInv, PurgeTypeOK, Items
    <2>2. Condemned(i)' <=> Condemned(i)
        BY <1>1 DEF Condemned, Kind
    <2> QED
        BY <1>1, <1>2, <2>1, <2>2 DEF Spared
<1>5. GoneInv'
    BY <1>0, <1>1, <1>2, KindType DEF PurgeInv, GoneInv, Kind, PurgeTypeOK, AuditRow
<1>6. ApartInv' /\ AuditedOnce'
    BY <1>1 DEF PurgeInv, ApartInv, AuditedOnce, Kind
<1> QED
    BY <1>3, <1>4, <1>5, <1>6 DEF PurgeInv

LEMMA NextPurge == PurgeInv /\ [PurgeNext]_purgeVars => PurgeInv'
<1> SUFFICES ASSUME PurgeInv, [PurgeNext]_purgeVars PROVE PurgeInv'
    OBVIOUS
<1>1. CASE PurgeNext
    BY <1>1, HoldStep, SoftDeleteStep, RunStepKeeps DEF PurgeNext
<1>2. CASE UNCHANGED purgeVars
    <2>1. PurgeTypeOK' /\ HoldInv'
        BY <1>2 DEF purgeVars, PurgeInv, PurgeTypeOK, HoldInv, Spared, Condemned, Kind
    <2>2. GoneInv' /\ ApartInv' /\ AuditedOnce'
        BY <1>2 DEF purgeVars, PurgeInv, GoneInv, ApartInv, AuditedOnce, Kind
    <2> QED
        BY <2>1, <2>2 DEF PurgeInv
<1> QED
    BY <1>1, <1>2

-----------------------------------------------------------------------------
\* The inductive invariant, for every plan and every number of runs and holds.
THEOREM PurgeInvariant == PurgeSpec => []PurgeInv
BY InitPurge, NextPurge, PTL DEF PurgeSpec

\* Rows, holds and runs keep their types.
THEOREM PurgeTypeCorrect == PurgeSpec => []PurgeTypeOK
<1>1. PurgeInv => PurgeTypeOK
    BY DEF PurgeInv
<1> QED
    BY <1>1, PurgeInvariant, PTL

\* What a hold found whole, and in no statement under way, keeps its file while
\* the hold is active, and its row, unless it is one that users delete.
THEOREM HoldsProtect == PurgeSpec => []HoldProtects
<1>1. PurgeInv => HoldProtects
    BY DEF PurgeInv, HoldInv, HoldProtects, Spared
<1> QED
    BY <1>1, PurgeInvariant, PTL

\* The audit log counts each deletion once, for any number of runs at a time.
THEOREM DeletionAuditedOnce == PurgeSpec => []AuditedOnce
<1>1. PurgeInv => AuditedOnce
    BY DEF PurgeInv
<1> QED
    BY <1>1, PurgeInvariant, PTL
===============================================================================
