------------------------ MODULE RuntimeSessionProofs ------------------------
(***************************************************************************)
(* Proofs that caller, session and replay keep in step, for every graph    *)
(* and every number of calls.  What the walk of the API may return is      *)
(* given by Walk, a recursive function; the proofs use nothing about it    *)
(* but that a step was one of its values.                                  *)
(***************************************************************************)
EXTENDS RuntimeSession, TLAPS

-----------------------------------------------------------------------------
(* The invariant.  A channel has one request at a time, and none while an  *)
(* action plays.  So what a request finds out about its session stays true *)
(* until it writes, and a session whose last step was lost is one whose    *)
(* script has ended: nothing is appended after the gap, for a later run of *)
(* the script may not start a second session.                              *)

Status(to) == IF to = NoNode THEN "completed" ELSE "running"

StandsAt(c, to)  == session[c].status = Status(to) /\ session[c].node = to
RecordedTo(c, n) == steps[c] # <<>> /\ Last(steps[c]).to = n

\* The step a request will record, or has recorded, is one of the graph.
StepOfGraph(r) ==
    r.to \in IF r.kind = "start" THEN Walk(Entry) ELSE NextOf(r.node, r.outcome)

Executing(c) == call[c].pc = "executing" =>
    /\ request[c].pc = "idle"
    /\ call[c].node \in Actions
    /\ StandsAt(c, call[c].node)
    /\ RecordedTo(c, call[c].node)

Starting(c) == request[c].kind = "start" =>
    /\ request[c].pc # "update"
    /\ request[c].pc = "complete" => request[c].to = NoNode
    /\ request[c].pc \in {"complete", "record"} => steps[c] = <<>>

Advancing(c) == request[c].kind = "advance" =>
    /\ request[c].pc \notin {"insert", "complete"}
    /\ request[c].pc \in {"read", "update", "record"} => RecordedTo(c, request[c].node)
    /\ request[c].pc = "update" => session[c].status = "running"

Walked(c) ==
    /\ request[c].pc \in {"insert", "complete", "update", "record"} => StepOfGraph(request[c])
    /\ request[c].pc = "complete" => session[c].status = "running"
    /\ request[c].pc \in {"record", "reply"} => StandsAt(c, request[c].to)
    /\ request[c].pc = "reply" => RecordedTo(c, request[c].to)

PathOf(s) == \A i \in 1..Len(s) :
    IF i = 1 THEN s[i].outcome = "start" /\ s[i].to \in Walk(Entry)
    ELSE s[i].node = s[i - 1].to /\ s[i].to \in NextOf(s[i].node, s[i].outcome)

Channel(c) ==
    /\ Executing(c)
    /\ Starting(c)
    /\ Advancing(c)
    /\ Walked(c)
    /\ session[c].status = "absent" => steps[c] = <<>>
    /\ PathOf(steps[c])

SessionInv == TypeOK /\ \A c \in Calls : Channel(c)

\* NoNode is no node with an action.
LEMMA NodeFacts == NoNode \notin Actions
BY GraphAssumption

\* A path grows by a step from where it ends.
LEMMA PathGrows ==
    ASSUME NEW s \in Seq(Step), PathOf(s), NEW step \in Step,
           \/ s = <<>> /\ step.outcome = "start" /\ step.to \in Walk(Entry)
           \/ s # <<>> /\ step.node = Last(s).to /\ step.to \in NextOf(step.node, step.outcome)
    PROVE  /\ PathOf(Append(s, step))
           /\ Append(s, step) # <<>>
           /\ Last(Append(s, step)) = step
<1> DEFINE t == Append(s, step)
<1>1. /\ Len(t) = Len(s) + 1 /\ t[Len(s) + 1] = step /\ Len(s) \in Nat
      /\ \A i \in 1..Len(s) : t[i] = s[i]
    OBVIOUS
<1>2. (s = <<>>) <=> Len(s) = 0
    OBVIOUS
<1>3. t # <<>>
    OBVIOUS
<1> HIDE DEF t
<1>4. PathOf(t)
    <2> SUFFICES ASSUME NEW i \in 1..Len(t)
                 PROVE  IF i = 1 THEN t[i].outcome = "start" /\ t[i].to \in Walk(Entry)
                        ELSE t[i].node = t[i - 1].to /\ t[i].to \in NextOf(t[i].node, t[i].outcome)
        BY DEF PathOf
    <2>1. CASE i <= Len(s)
        <3>1. i \in 1..Len(s) /\ t[i] = s[i] /\ (i # 1 => t[i - 1] = s[i - 1])
            BY <1>1, <2>1
        <3> QED
            BY <3>1 DEF PathOf
    <2>2. CASE i = Len(s) + 1
        <3>1. t[i] = step /\ (i # 1 => t[i - 1] = s[Len(s)])
            BY <1>1, <2>2
        <3>2. i = 1 <=> s = <<>>
            BY <1>1, <1>2, <2>2
        <3> QED
            BY <3>1, <3>2 DEF Last
    <2> QED
        BY <1>1, <2>1, <2>2
<1>5. Last(t) = step
    BY <1>1 DEF Last
<1> QED
    BY <1>3, <1>4, <1>5 DEF t

\* The channels are up and idle.
LEMMA InitSession == Init => SessionInv
<1> SUFFICES ASSUME Init PROVE SessionInv
    OBVIOUS
<1>1. TypeOK
    BY GraphAssumption DEF Init, TypeOK, At, IdleRequest, Script, Request, Session, Outcomes
<1>2. ASSUME NEW c \in Calls PROVE Channel(c)
    <2>1. /\ call[c].pc = "ready" /\ request[c] = IdleRequest /\ steps[c] = <<>>
        BY DEF Init, At
    <2>2. PathOf(<<>>)
        BY DEF PathOf
    <2> QED
        BY <2>1, <2>2 DEF Channel, Executing, Starting, Advancing, Walked, IdleRequest
<1> QED
    BY <1>1, <1>2 DEF SessionInv

-----------------------------------------------------------------------------
(* A step concerns one channel.                                            *)

\* What the four rows of a channel become, in a step that leaves the others.
Rows(c, k, r, s, t) ==
    /\ call' = [call EXCEPT ![c] = k]
    /\ request' = [request EXCEPT ![c] = r]
    /\ session' = [session EXCEPT ![c] = s]
    /\ steps' = [steps EXCEPT ![c] = t]

LEMMA OneChannel ==
    ASSUME SessionInv, NEW c \in Calls, NEW k \in Script, NEW r \in Request,
           NEW s \in Session, NEW t \in Seq(Step), Rows(c, k, r, s, t),
           up' \subseteq Calls, entries' \in [Calls -> 0..MaxEntries]
    PROVE  /\ TypeOK'
           /\ call'[c] = k /\ request'[c] = r /\ session'[c] = s /\ steps'[c] = t
           /\ Channel(c)' => SessionInv'
<1>0. TypeOK
    BY DEF SessionInv
<1>1. TypeOK'
    BY <1>0 DEF TypeOK, Rows
<1>2. call'[c] = k /\ request'[c] = r /\ session'[c] = s /\ steps'[c] = t
    BY <1>0 DEF TypeOK, Rows
<1>3. ASSUME NEW d \in Calls \ {c} PROVE Channel(d)'
    <2>1. /\ call'[d] = call[d] /\ request'[d] = request[d]
          /\ session'[d] = session[d] /\ steps'[d] = steps[d]
        BY <1>0 DEF TypeOK, Rows
    <2>2. Channel(d)
        BY DEF SessionInv
    <2> QED
        BY <2>1, <2>2 DEF Channel, Executing, Starting, Advancing, Walked, StandsAt, RecordedTo
<1> QED
    BY <1>1, <1>2, <1>3 DEF SessionInv

\* The rows of a channel as they are.
LEMMA RowTypes ==
    ASSUME SessionInv, NEW c \in Calls
    PROVE  /\ call[c] \in Script /\ request[c] \in Request
           /\ session[c] \in Session /\ steps[c] \in Seq(Step)
           /\ up \subseteq Calls /\ entries \in [Calls -> 0..MaxEntries]
           /\ Channel(c)
BY DEF SessionInv, TypeOK

\* A row that a step leaves alone is set to what it is.
LEMMA Unchanged ==
    ASSUME SessionInv, NEW c \in Calls
    PROVE  /\ call = [call EXCEPT ![c] = call[c]]
           /\ request = [request EXCEPT ![c] = request[c]]
           /\ session = [session EXCEPT ![c] = session[c]]
           /\ steps = [steps EXCEPT ![c] = steps[c]]
BY DEF SessionInv, TypeOK

-----------------------------------------------------------------------------
(* One lemma per action.                                                   *)

LEMMA StartReadStep ==
    ASSUME SessionInv, NEW c \in Calls, NEW to \in Actions \cup {NoNode}, StartRead(c, to)
    PROVE  SessionInv'
<1> DEFINE r == [request[c] EXCEPT !.pc = "insert", !.to = to]
<1>1. r \in Request
    BY RowTypes DEF Request
<1>2. Rows(c, call[c], r, session[c], steps[c]) /\ UNCHANGED <<up, entries>>
    BY Unchanged DEF StartRead, Rows
<1>3. /\ call'[c] = call[c] /\ request'[c] = r /\ session'[c] = session[c] /\ steps'[c] = steps[c]
      /\ Channel(c)' => SessionInv'
    BY <1>1, <1>2, RowTypes, OneChannel
<1>4. r.pc = "insert" /\ r.kind = "start" /\ r.to = to /\ to \in Walk(Entry)
    BY RowTypes DEF StartRead, Request
<1> HIDE DEF r
<1>5. Channel(c)'
    BY <1>3, <1>4, RowTypes DEF StartRead, Channel, Executing, Starting, Advancing, Walked,
       StepOfGraph
<1> QED
    BY <1>3, <1>5

LEMMA StartInsertStep ==
    ASSUME SessionInv, NEW c \in Calls, StartInsert(c)
    PROVE  SessionInv'
<1> DEFINE to == request[c].to
           r  == [request[c] EXCEPT !.pc = IF to = NoNode THEN "complete" ELSE "record"]
           s  == [status |-> "running", node |-> to]
<1>0. request[c] \in Request /\ Channel(c)
    BY RowTypes
<1>1. r \in Request /\ s \in Session
    BY <1>0 DEF Request, Session
<1>2. Rows(c, call[c], r, s, steps[c]) /\ UNCHANGED <<up, entries>>
    BY Unchanged DEF StartInsert, Rows, SetSession, RequestAt
<1>3. /\ call'[c] = call[c] /\ request'[c] = r /\ session'[c] = s /\ steps'[c] = steps[c]
      /\ Channel(c)' => SessionInv'
    BY <1>1, <1>2, RowTypes, OneChannel
<1>4. /\ r.pc = (IF to = NoNode THEN "complete" ELSE "record")
      /\ r.kind = "start" /\ r.to = to /\ StepOfGraph(r)
      /\ s.status = "running" /\ s.node = to
    BY <1>0 DEF StartInsert, Request, Channel, Walked, Advancing, StepOfGraph
<1> HIDE DEF r, s
<1>5. Channel(c)'
    BY <1>0, <1>3, <1>4 DEF StartInsert, Channel, Executing, Starting, Advancing, Walked,
       StandsAt, Status
<1> QED
    BY <1>3, <1>5

LEMMA StartCompleteStep ==
    ASSUME SessionInv, NEW c \in Calls, StartComplete(c)
    PROVE  SessionInv'
<1> DEFINE r == [request[c] EXCEPT !.pc = "record"]
           s == [status |-> "completed", node |-> NoNode]
<1>0. request[c] \in Request /\ Channel(c)
    BY RowTypes
<1>1. r \in Request /\ s \in Session
    BY <1>0 DEF Request, Session
<1>2. Rows(c, call[c], r, s, steps[c]) /\ UNCHANGED <<up, entries>>
    BY Unchanged DEF StartComplete, Rows, SetSession, RequestAt
<1>3. /\ call'[c] = call[c] /\ request'[c] = r /\ session'[c] = s /\ steps'[c] = steps[c]
      /\ Channel(c)' => SessionInv'
    BY <1>1, <1>2, RowTypes, OneChannel
<1>4. /\ r.pc = "record" /\ r.kind = "start" /\ r.to = NoNode /\ StepOfGraph(r)
      /\ s.status = "completed" /\ s.node = NoNode
    BY <1>0 DEF StartComplete, Request, Channel, Walked, Starting, Advancing, StepOfGraph
<1>5. call[c].pc # "executing" /\ steps[c] = <<>> /\ PathOf(steps[c])
    BY <1>0 DEF StartComplete, Channel, Executing, Starting, Advancing, Request
<1> HIDE DEF r, s
<1>6. Channel(c)'
    BY <1>3, <1>4, <1>5 DEF Channel, Executing, Starting, Advancing, Walked, StandsAt, Status
<1> QED
    BY <1>3, <1>6

LEMMA AdvanceReadStep ==
    ASSUME SessionInv, NEW c \in Calls, NEW to \in Actions \cup {NoNode}, AdvanceRead(c, to)
    PROVE  SessionInv'
<1> DEFINE r == [request[c] EXCEPT !.pc = "update", !.to = to]
<1>1. r \in Request
    BY RowTypes DEF Request
<1>2. Rows(c, call[c], r, session[c], steps[c]) /\ UNCHANGED <<up, entries>>
    BY Unchanged DEF AdvanceRead, Rows
<1>3. /\ call'[c] = call[c] /\ request'[c] = r /\ session'[c] = session[c] /\ steps'[c] = steps[c]
      /\ Channel(c)' => SessionInv'
    BY <1>1, <1>2, RowTypes, OneChannel
<1>4. /\ r.pc = "update" /\ r.kind = "advance" /\ r.to = to
      /\ r.node = request[c].node /\ StepOfGraph(r)
    BY RowTypes DEF AdvanceRead, Request, StepOfGraph
<1> HIDE DEF r
<1>5. Channel(c)'
    BY <1>3, <1>4, RowTypes DEF AdvanceRead, Channel, Executing, Starting, Advancing, Walked,
       RecordedTo
<1> QED
    BY <1>3, <1>5

LEMMA AdvanceUpdateStep ==
    ASSUME SessionInv, NEW c \in Calls, AdvanceUpdate(c)
    PROVE  SessionInv'
<1> DEFINE to == request[c].to
           r  == [request[c] EXCEPT !.pc = "record"]
           s  == [status |-> Status(to), node |-> to]
<1>0. request[c] \in Request /\ Channel(c)
    BY RowTypes
<1>1. r \in Request /\ s \in Session
    BY <1>0 DEF Request, Session, Status
<1>2. Rows(c, call[c], r, s, steps[c]) /\ UNCHANGED <<up, entries>>
    BY Unchanged DEF AdvanceUpdate, Rows, SetSession, RequestAt, Status
<1>3. /\ call'[c] = call[c] /\ request'[c] = r /\ session'[c] = s /\ steps'[c] = steps[c]
      /\ Channel(c)' => SessionInv'
    BY <1>1, <1>2, RowTypes, OneChannel
<1>4. /\ r.pc = "record" /\ r.kind = request[c].kind /\ r.to = to
      /\ r.node = request[c].node /\ r.outcome = request[c].outcome
      /\ s.status = Status(to) /\ s.node = to
    BY <1>0 DEF Request
<1>5. r.kind = "advance" /\ StepOfGraph(r) /\ s.status # "absent"
    BY <1>0, <1>4 DEF AdvanceUpdate, Channel, Walked, Starting, StepOfGraph, Request, Status
<1> HIDE DEF r, s
<1>6. Channel(c)'
    BY <1>0, <1>3, <1>4, <1>5 DEF AdvanceUpdate, Channel, Executing, Starting, Advancing,
       Walked, StandsAt, RecordedTo
<1> QED
    BY <1>3, <1>6

LEMMA RecordStepStep ==
    ASSUME SessionInv, NEW c \in Calls, RecordStep(c)
    PROVE  SessionInv'
<1> DEFINE q    == request[c]
           r    == [q EXCEPT !.pc = "reply"]
           step == [node |-> q.node, to |-> q.to,
                    outcome |-> IF q.kind = "start" THEN "start" ELSE q.outcome]
           t    == Append(steps[c], step)
<1>0. q \in Request /\ Channel(c) /\ steps[c] \in Seq(Step) /\ q.pc = "record"
    BY RowTypes DEF RecordStep
<1>1. step \in Step
    BY <1>0 DEF Request, Step
<1>2. t \in Seq(Step) /\ r \in Request
    BY <1>0, <1>1 DEF Request
<1>3. Rows(c, call[c], r, session[c], t) /\ UNCHANGED <<up, entries>>
    BY Unchanged DEF RecordStep, Rows, RequestAt
<1>4. PathOf(t) /\ t # <<>> /\ Last(t) = step
    <2>1. CASE q.kind = "start"
        <3>1. steps[c] = <<>> /\ step.outcome = "start" /\ step.to \in Walk(Entry)
            BY <1>0, <2>1 DEF Channel, Starting, Walked, StepOfGraph
        <3> QED
            BY <1>0, <1>1, <3>1, PathGrows DEF Channel
    <2>2. CASE q.kind = "advance"
        <3>1. steps[c] # <<>> /\ step.node = Last(steps[c]).to
              /\ step.to \in NextOf(step.node, step.outcome)
            BY <1>0, <2>2 DEF Channel, Advancing, Walked, StepOfGraph, RecordedTo
        <3> QED
            BY <1>0, <1>1, <3>1, PathGrows DEF Channel
    <2> QED
        BY <1>0, <2>1, <2>2 DEF Request
<1>5. r.pc = "reply" /\ r.kind = q.kind /\ r.to = q.to /\ step.to = q.to
    BY <1>0 DEF Request
<1>6. StandsAt(c, q.to) /\ session[c].status # "absent" /\ call[c].pc # "executing"
    BY <1>0 DEF Channel, Walked, StandsAt, Status, Executing
<1> HIDE DEF r, step, t
<1>7. /\ call'[c] = call[c] /\ request'[c] = r /\ session'[c] = session[c] /\ steps'[c] = t
      /\ Channel(c)' => SessionInv'
    BY <1>2, <1>3, RowTypes, OneChannel
<1>8. Channel(c)'
    BY <1>4, <1>5, <1>6, <1>7 DEF Channel, Executing, Starting, Advancing, Walked,
       StandsAt, RecordedTo
<1> QED
    BY <1>7, <1>8

\* A request that ends leaves a channel on which no action plays.
LEMMA LetGo ==
    ASSUME SessionInv, NEW c \in Calls, NEW k \in Script,
           Rows(c, k, IdleRequest, session[c], steps[c]),
           up' \subseteq Calls, UNCHANGED entries,
           k.pc = "executing" => k.node \in Actions /\ StandsAt(c, k.node) /\ RecordedTo(c, k.node)
    PROVE  SessionInv'
<1>1. IdleRequest \in Request
    BY DEF IdleRequest, Request, Outcomes
<1>2. /\ call'[c] = k /\ request'[c] = IdleRequest
      /\ session'[c] = session[c] /\ steps'[c] = steps[c]
      /\ Channel(c)' => SessionInv'
    BY <1>1, RowTypes, OneChannel
<1>3. IdleRequest.pc = "idle" /\ IdleRequest.kind = "start"
    BY DEF IdleRequest
<1>4. Channel(c)'
    BY <1>2, <1>3, RowTypes DEF Channel, Executing, Starting, Advancing, Walked,
       StandsAt, RecordedTo
<1> QED
    BY <1>2, <1>4

LEMMA OverType == At("over", NoNode) \in Script /\ At("over", NoNode).pc = "over"
BY DEF At, Script

LEMMA RequestFailsStep ==
    ASSUME SessionInv, NEW c \in Calls, RequestFails(c)
    PROVE  SessionInv'
<1>1. CASE call[c].pc = "waiting"
    <2>1. Rows(c, At("over", NoNode), IdleRequest, session[c], steps[c])
        BY <1>1, Unchanged DEF RequestFails, EndCall, ScriptAt, Rows
    <2> QED
        BY <1>1, <2>1, OverType, RowTypes, LetGo DEF RequestFails, EndCall
<1>2. CASE call[c].pc # "waiting"
    <2>1. Rows(c, call[c], IdleRequest, session[c], steps[c])
        BY <1>2, Unchanged DEF RequestFails, Rows
    <2>2. call[c].pc # "executing"
        BY RowTypes DEF RequestFails, Channel, Executing
    <2> QED
        BY <1>2, <2>1, <2>2, RowTypes, LetGo DEF RequestFails
<1> QED
    BY <1>1, <1>2

LEMMA ReplyStep ==
    ASSUME SessionInv, NEW c \in Calls, Reply(c)
    PROVE  SessionInv'
<1> DEFINE to == request[c].to
<1>0. /\ request[c] \in Request /\ call[c] \in Script
      /\ StandsAt(c, to) /\ RecordedTo(c, to) /\ call[c].pc # "executing"
    BY RowTypes DEF Reply, Channel, Walked, Executing
<1>1. CASE call[c].pc # "waiting" /\ UNCHANGED <<call, up>>
    <2>1. Rows(c, call[c], IdleRequest, session[c], steps[c])
        BY <1>1, Unchanged DEF Reply, Rows
    <2> QED
        BY <1>0, <1>1, <2>1, RowTypes, LetGo DEF Reply
<1>2. CASE EndCall(c)
    <2>1. Rows(c, At("over", NoNode), IdleRequest, session[c], steps[c])
        BY <1>2, Unchanged DEF Reply, EndCall, ScriptAt, Rows
    <2> QED
        BY <1>2, <2>1, OverType, RowTypes, LetGo DEF Reply, EndCall
<1>3. CASE LoopNext(c, to) /\ UNCHANGED up
    <2>1. CASE ScriptAt(c, "over", NoNode)
        <3>1. Rows(c, At("over", NoNode), IdleRequest, session[c], steps[c])
            BY <2>1, Unchanged DEF Reply, ScriptAt, Rows
        <3> QED
            BY <1>3, <3>1, OverType, RowTypes, LetGo DEF Reply
    <2>2. CASE to # NoNode /\ ScriptAt(c, "executing", to)
        <3>1. Rows(c, At("executing", to), IdleRequest, session[c], steps[c])
            BY <2>2, Unchanged DEF Reply, ScriptAt, Rows
        <3>2. to \in Actions
            BY <1>0, <2>2 DEF Request
        <3>3. /\ At("executing", to) \in Script
              /\ At("executing", to).node = to
            BY <3>2 DEF At, Script
        <3> QED
            BY <1>0, <1>3, <3>1, <3>2, <3>3, RowTypes, LetGo DEF Reply
    <2> QED
        BY <1>3, <2>1, <2>2 DEF LoopNext
<1> QED
    BY <1>1, <1>2, <1>3 DEF Reply

\* A request that is sent knows of its session what the script does.
LEMMA Sent ==
    ASSUME SessionInv, NEW c \in Calls, NEW kind \in {"start", "advance"},
           NEW n \in Actions \cup {NoNode}, NEW outcome \in Outcomes,
           Send(c, kind, n, outcome), UNCHANGED <<up, session, steps>>,
           entries' \in [Calls -> 0..MaxEntries],
           kind = "advance" => RecordedTo(c, n)
    PROVE  SessionInv'
<1> DEFINE r == [IdleRequest EXCEPT !.pc = "read", !.kind = kind, !.node = n, !.outcome = outcome]
           k == At("waiting", n)
<1>1. r \in Request /\ k \in Script
    BY DEF IdleRequest, Request, At, Script
<1>2. Rows(c, k, r, session[c], steps[c])
    BY Unchanged DEF Send, ScriptAt, Rows
<1>3. r.pc = "read" /\ r.kind = kind /\ r.node = n /\ k.pc = "waiting"
    BY DEF IdleRequest, At
<1> HIDE DEF r, k
<1>4. /\ call'[c] = k /\ request'[c] = r /\ session'[c] = session[c] /\ steps'[c] = steps[c]
      /\ Channel(c)' => SessionInv'
    BY <1>1, <1>2, RowTypes, OneChannel
<1>5. Channel(c)'
    BY <1>3, <1>4, RowTypes DEF Channel, Executing, Starting, Advancing, Walked, RecordedTo
<1> QED
    BY <1>4, <1>5

LEMMA EnterStep ==
    ASSUME SessionInv, NEW c \in Calls, Enter(c)
    PROVE  SessionInv'
<1>1. entries' \in [Calls -> 0..MaxEntries]
    BY GraphAssumption, RowTypes DEF Enter
<1>2. "completed" \in Outcomes
    BY DEF Outcomes
<1> QED
    BY <1>1, <1>2, Sent DEF Enter

LEMMA ActionEndsStep ==
    ASSUME SessionInv, NEW c \in Calls, NEW n \in Actions, NEW outcome \in Outcomes,
           ActionEnds(c, n, outcome)
    PROVE  SessionInv'
<1>1. call[c].pc = "executing" /\ call[c].node = n
    BY DEF ActionEnds, At
<1>2. RecordedTo(c, n)
    BY <1>1, RowTypes DEF Channel, Executing
<1> QED
    BY <1>2, RowTypes, Sent DEF ActionEnds

\* The script ends; the request, if there is one, goes on.
LEMMA EndCallStep ==
    ASSUME SessionInv, NEW c \in Calls, EndCall(c), UNCHANGED <<entries, request, session, steps>>
    PROVE  SessionInv'
<1> DEFINE k == At("over", NoNode)
<1>1. Rows(c, k, request[c], session[c], steps[c])
    BY Unchanged DEF EndCall, ScriptAt, Rows
<1>2. k \in Script /\ k.pc = "over"
    BY OverType
<1> HIDE DEF k
<1>3. /\ call'[c] = k /\ request'[c] = request[c]
      /\ session'[c] = session[c] /\ steps'[c] = steps[c]
      /\ Channel(c)' => SessionInv'
    BY <1>1, <1>2, RowTypes, OneChannel DEF EndCall
<1>4. Channel(c)'
    BY <1>2, <1>3, RowTypes DEF Channel, Executing, Starting, Advancing, Walked,
       StandsAt, RecordedTo
<1> QED
    BY <1>3, <1>4

\* Steps that leave the rows of all channels alone.
LEMMA NothingMoved ==
    ASSUME SessionInv, UNCHANGED <<call, entries, request, session, steps>>, up' \subseteq Calls
    PROVE  SessionInv'
<1>1. TypeOK'
    BY DEF SessionInv, TypeOK
<1>2. \A c \in Calls : Channel(c)'
    BY DEF SessionInv, Channel, Executing, Starting, Advancing, Walked, StandsAt, RecordedTo
<1> QED
    BY <1>1, <1>2 DEF SessionInv

LEMMA NextSession == SessionInv /\ [Next]_vars => SessionInv'
<1> SUFFICES ASSUME SessionInv, [Next]_vars PROVE SessionInv'
    OBVIOUS
<1>1. ASSUME NEW c \in Calls, ApiStep(c) PROVE SessionInv'
    BY <1>1, StartReadStep, AdvanceReadStep, StartInsertStep, StartCompleteStep,
       AdvanceUpdateStep, RecordStepStep, RequestFailsStep, ReplyStep DEF ApiStep
<1>2. ASSUME NEW c \in Calls, ScriptStep(c) PROVE SessionInv'
    BY <1>2, ActionEndsStep, EndCallStep DEF ScriptStep, ActionRefused
<1>3. ASSUME NEW c \in Calls, Enter(c) \/ TimeOut(c) \/ HangUp(c) PROVE SessionInv'
    <2>1. CASE HangUp(c)
        BY <2>1, RowTypes, NothingMoved DEF HangUp
    <2> QED
        BY <1>3, <2>1, EnterStep, EndCallStep DEF TimeOut
<1>4. CASE UNCHANGED vars
    <2>1. up \subseteq Calls
        BY DEF SessionInv, TypeOK
    <2> QED
        BY <1>4, <2>1, NothingMoved DEF vars
<1> QED
    BY <1>1, <1>2, <1>3, <1>4 DEF Next

-----------------------------------------------------------------------------
\* The inductive invariant, for every graph and every number of calls.
THEOREM SessionInvariant == Spec => []SessionInv
BY InitSession, NextSession, PTL DEF Spec

\* Channels, requests, sessions and steps keep their types.
THEOREM TypeCorrect == Spec => []TypeOK
<1>1. SessionInv => TypeOK
    BY DEF SessionInv
<1> QED
    BY <1>1, SessionInvariant, PTL

\* While an action plays, session and replay stand at its node.
THEOREM CallInStep == Spec => []InStep
<1>1. SessionInv => InStep
    <2> SUFFICES ASSUME SessionInv, NEW c \in Calls, call[c].pc = "executing"
                 PROVE  /\ session[c] = [status |-> "running", node |-> call[c].node]
                        /\ steps[c] # <<>> /\ Last(steps[c]).to = call[c].node
        BY DEF InStep
    <2>1. call[c].node \in Actions /\ StandsAt(c, call[c].node) /\ RecordedTo(c, call[c].node)
        BY RowTypes DEF Channel, Executing
    <2>2. session[c] \in Session /\ call[c].node # NoNode
        BY <2>1, RowTypes, NodeFacts
    <2> QED
        BY <2>1, <2>2 DEF StandsAt, RecordedTo, Status, Session
<1> QED
    BY <1>1, SessionInvariant, PTL

\* The replay of a session is a walk through its graph without a gap.
THEOREM ReplayWalksGraph == Spec => []ReplayIsPath
<1>1. SessionInv => ReplayIsPath
    BY DEF SessionInv, Channel, PathOf, ReplayIsPath
<1> QED
    BY <1>1, SessionInvariant, PTL

\* A completed session is not written again.
THEOREM CompletedFinal == Spec => CompletedIsFinal
<1>1. SessionInv /\ SessionInv' /\ [Next]_vars =>
          [\A c \in Calls : session[c].status = "completed" =>
              /\ session'[c] = session[c]
              /\ steps'[c] # steps[c] => Last(steps'[c]).to = NoNode]_vars
    <2> SUFFICES ASSUME SessionInv, SessionInv', NEW c \in Calls, session[c].status = "completed",
                        NEW d \in Calls, ApiStep(d) \/ ScriptStep(d) \/ Enter(d) \/ TimeOut(d) \/ HangUp(d)
                 PROVE  /\ session'[c] = session[c]
                        /\ steps'[c] # steps[c] => Last(steps'[c]).to = NoNode
        BY DEF Next
    <2>0. /\ session \in [Calls -> Session] /\ request \in [Calls -> Request]
          /\ steps \in [Calls -> Seq(Step)] /\ Channel(c)
        BY DEF SessionInv, TypeOK
    <2>1. CASE StartInsert(d) \/ StartComplete(d) \/ AdvanceUpdate(d)
        <3>1. d # c
            BY <2>0, <2>1 DEF StartInsert, StartComplete, AdvanceUpdate, Channel, Walked,
               Starting, Advancing, Request
        <3> QED
            BY <2>0, <2>1, <3>1 DEF StartInsert, StartComplete, AdvanceUpdate, SetSession
    <2>2. CASE RecordStep(d)
        <3>1. session' = session /\ (d # c => steps'[c] = steps[c])
            BY <2>0, <2>2 DEF RecordStep
        <3>2. CASE d = c
            <4>1. request[c].to = NoNode
                BY <2>0, <2>2, <3>2 DEF RecordStep, Channel, Walked, StandsAt, Status
            <4>2. request'[c].pc = "reply" /\ request'[c].to = request[c].to
                BY <2>0, <2>2, <3>2 DEF RecordStep, RequestAt, Request
            <4>3. RecordedTo(c, request[c].to)'
                BY <4>2 DEF SessionInv, Channel, Walked, RecordedTo
            <4> QED
                BY <3>1, <4>1, <4>2, <4>3 DEF RecordedTo
        <3> QED
            BY <3>1, <3>2
    <2>3. CASE UNCHANGED <<session, steps>>
        BY <2>3
    <2> QED
        BY <2>1, <2>2, <2>3 DEF ApiStep, ScriptStep, Enter, TimeOut, HangUp, StartRead,
           AdvanceRead, RequestFails, Reply, ActionEnds, ActionRefused
<1> QED
    BY <1>1, SessionInvariant, PTL DEF Spec, CompletedIsFinal
=============================================================================
