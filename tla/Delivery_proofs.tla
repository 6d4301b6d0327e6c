-------------------------- MODULE Delivery_proofs --------------------------
(***************************************************************************)
(* Proofs about Delivery for every number of messages, dispatcher calls,   *)
(* attempts, crashes and lost lock sessions, with and without reply waits, *)
(* durable reservations and receiver wake.                                 *)
(*                                                                         *)
(* The hand-off rests on three facts that hold together: a message is      *)
(* marked only from a prepared attempt, and a marked attempt is never      *)
(* prepared again (RowInv); marker, Node dispatch receipt and              *)
(* acknowledgement follow one another (MessageInv); and between the marker *)
(* and the answer the call is alone inside the Node's writer fence         *)
(* (CallInv, FenceInv).  The advisory locks are not among them.            *)
(***************************************************************************)
EXTENDS Delivery, TLAPS

---------------------------------------------------------------------------
(* Ledger rows and the statement groups that rewrite them *)

\* A row's marker belongs to an attempt that was opened, and that attempt is
\* not prepared any more.
RowInv(r) ==
  /\ r \in Rows
  /\ r.marker <= r.attempts
  /\ r.marker # 0 /\ r.marker = r.attempts => r.attempt # "prepared"
  /\ r.attempt = "prepared" => r.attempts # 0
  /\ r.state = "unsent" => r.attempts = 0

\* r2 may replace r without touching the evidence of a Native call.
Quiet(r, r2) == RowInv(r2) /\ r2.marker = r.marker /\ r2.acked = r.acked

\* record_obstacle writes a notice and nothing else of the row.
LEMMA ObstacleQuiet ==
  ASSUME NEW r, RowInv(r), NEW s
  PROVE  Quiet(r, RecordObstacle(r, s))
  BY DEF RecordObstacle, Quiet, RowInv, Rows

\* _finish with any outcome keeps the evidence and closes an open attempt.
LEMMA FinishQuiet ==
  ASSUME NEW r, RowInv(r), NEW s \in OpenStates \cup TerminalStates
  PROVE  Quiet(r, Finish(r, s))
<1> DEFINE t == IF r.attempt \in OpenAttempt THEN s ELSE r.attempt
           c == [r EXCEPT !.state = s, !.attempt = t]
<1>1. s \in MessageStates /\ s \in AttemptStatuses /\ s # "unsent" /\ s # "prepared"
  BY DEF OpenStates, TerminalStates, MessageStates, AttemptStatuses
<1>2. t \in AttemptStatuses /\ t # "prepared"
  BY <1>1 DEF RowInv, Rows, OpenAttempt
<1>3. Finish(r, s) = RecordObstacle(c, s)
  BY DEF Finish, RowInv, Rows
<1> HIDE DEF t
<1>4. c \in Rows /\ c.state = s /\ c.attempt = t
  BY <1>1, <1>2 DEF RowInv, Rows
<1>5. Quiet(r, c)
  BY <1>1, <1>2, <1>4 DEF Quiet, RowInv, Rows
<1> HIDE DEF c
<1>6. QED BY <1>3, <1>5, ObstacleQuiet DEF Quiet

\* _defer_prepared moves the schedule only.
LEMMA DeferQuiet ==
  ASSUME NEW r, RowInv(r)
  PROVE  Quiet(r, DeferPrepared(r))
  BY DEF Quiet, RowInv, DeferPrepared, Rows, MessageStates, OpenStates

\* _failure is a _finish, whatever the error.
LEMMA FailureQuiet ==
  ASSUME NEW r, RowInv(r), NEW e
  PROVE  Quiet(r, Failure(r, e))
<1>1. FailureState(r, e) \in OpenStates \cup TerminalStates
  BY DEF FailureState, OpenStates, TerminalStates
<1>2. QED BY <1>1, FinishQuiet DEF Failure

\* gate may release a reservation; the attempt stays as it is.
LEMMA GateQuiet ==
  ASSUME NEW r, RowInv(r)
  PROVE  /\ Quiet(r, Gate(r))
         /\ Gate(r).attempt = r.attempt /\ Gate(r).attempts = r.attempts
<1> DEFINE s == IF /\ r.marker = 0 /\ ~r.acked
                   /\ r.state = "retry_wait" /\ r.attempts = 0
                  THEN "queued" ELSE r.state
<1>1. Gate(r) = IF r.ingress # "reserved" THEN r
                ELSE [r EXCEPT !.ingress = "released", !.state = s]
  BY DEF Gate
<1>2. r \in Rows => s \in MessageStates /\ (s = "unsent" => r.state = "unsent")
  BY DEF Rows, MessageStates, OpenStates
<1> HIDE DEF s
<1>3. QED BY <1>1, <1>2 DEF Quiet, RowInv, Rows, IngressStates

\* Below the budget a new attempt is one that holds no marker.
LEMMA NewAttemptQuiet ==
  ASSUME NEW r, RowInv(r), r.attempts < MaxAttempts
  PROVE  Quiet(r, NewAttempt(r))
<1>1. /\ r.attempts \in Nat /\ r.marker \in Nat
      /\ r.attempts + 1 \in 0 .. MaxAttempts
  BY MaxAttemptsAssumption DEF RowInv, Rows
<1>2. r.marker <= r.attempts + 1 /\ r.marker # r.attempts + 1 /\ r.attempts + 1 # 0
  BY <1>1 DEF RowInv
<1> DEFINE next == r.attempts + 1
<1>3. NewAttempt(r) = [r EXCEPT !.attempts = next, !.attempt = "prepared",
                                !.state = "delivering"]
  BY DEF NewAttempt
<1> HIDE DEF next
<1>4. next \in 0 .. MaxAttempts /\ r.marker <= next /\ r.marker # next /\ next # 0
  BY <1>1, <1>2 DEF next
<1>5. "prepared" \in AttemptStatuses /\ "delivering" \in MessageStates
  BY DEF AttemptStatuses, OpenAttempt, MessageStates, OpenStates
<1> DEFINE r2 == [r EXCEPT !.attempts = next, !.attempt = "prepared",
                           !.state = "delivering"]
<1>6. r2 \in Rows
  BY <1>4, <1>5 DEF RowInv, Rows
<1>7. /\ r2.attempts = next /\ r2.attempt = "prepared" /\ r2.state = "delivering"
      /\ r2.marker = r.marker /\ r2.acked = r.acked
  BY DEF RowInv, Rows
<1> HIDE DEF r2
<1>8. QED BY <1>3, <1>4, <1>6, <1>7 DEF Quiet, RowInv, r2

\* _retain_wait_ingress leaves attempt and marker alone.
LEMMA RetainQuiet ==
  ASSUME NEW r, RowInv(r), NEW storage \in BOOLEAN
  PROVE  Quiet(r, Retain(r, storage))
  BY DEF Quiet, RowInv, Retain, Rows, MessageStates, TerminalStates, LayerNames, InboxSources, IngressStates

\* _project of receipts that agree with the ledger only adds to it.
LEMMA ProjectRow ==
  ASSUME NEW r, RowInv(r), NEW obs \in Observations,
         obs.disp # 0 => obs.disp = r.marker
  PROVE  /\ RowInv(Project(r, obs))
         /\ Project(r, obs).marker = r.marker
         /\ Project(r, obs).acked = (r.acked \/ obs.acked)
<1>1. Project(r, obs).high \in LayerNames
  BY DEF Project, RowInv, Rows, Raise, LayerNames
<1>2. QED
  BY <1>1 DEF Project, RowInv, Rows, Observations, InboxSources

---------------------------------------------------------------------------
(* The inductive invariant *)

\* A message whose row is r, Node journal n and number of Native calls k.
MessageInv(r, n, k) ==
  /\ RowInv(r)
  /\ k \in {0, 1}
  /\ k = 1 => r.marker # 0
  /\ n.disp # 0 => n.disp = r.marker /\ n.disp = n.att /\ n.inv # "none"
  /\ n.ack => k = 1 /\ n.disp # 0
  /\ r.acked => n.ack

\* A dispatcher call c on such a message.
CallInv(c, r, n, k) ==
  /\ c.pc \in {"fenced"} \cup InFence => n.inv # "none" /\ n.att = c.att
  /\ c.pc \in {"marked", "called"} =>
       r.marker = c.att /\ c.att # 0 /\ n.disp = 0
  /\ c.pc = "marked" => k = 0
  /\ c.pc = "called" => k = 1
  /\ c.obs.disp # 0 => c.obs.disp = r.marker
  /\ c.obs.acked => n.ack

\* The Node's writer fence admits one call.
FenceInv ==
  \A v, w \in Workers : wk[v].pc \in InFence /\ wk[w].pc \in InFence => v = w

DeliveryInv ==
  /\ TypeOK
  /\ \A m \in Messages : MessageInv(row[m], node[m], native[m])
  /\ \A w \in Workers :
       CallInv(wk[w], row[wk[w].m], node[wk[w].m], native[wk[w].m])
  /\ FenceInv

---------------------------------------------------------------------------
(* How a step of one message and one call preserves it *)

WorldOK ==
  /\ auth     \in [Messages -> {"ok", "denied", "expired"}]
  /\ lease    \in [Messages -> BOOLEAN]
  /\ waiter   \in [Messages -> {"out", "waiting", "read", "leaving", "done"}]
  /\ retained \in [Messages -> BOOLEAN]
  /\ crashes  \in 0 .. MaxCrashes
  /\ losses   \in 0 .. MaxSessionLosses

\* What the evidence of a message never loses.
Grows(r, n, r2, n2) ==
  /\ r2.marker = r.marker \/ r.marker = 0
  /\ n.inv # "none" => n2.inv # "none" /\ n2.att = n.att
  /\ n.ack => n2.ack

\* A step as the hand-off promise sees it: nothing, one marker, or one call.
Same(m) == row'[m].marker = row[m].marker /\ native'[m] = native[m]

HandoffStep ==
  \/ \A x \in Messages : Same(x)
  \/ \E m \in Messages :
       /\ \A x \in Messages : x # m => Same(x)
       /\ \/ /\ row[m].marker = 0 /\ row'[m].marker # 0
             /\ native'[m] = native[m]
          \/ /\ row[m].marker # 0 /\ row'[m].marker = row[m].marker
             /\ native[m] = 0 /\ native'[m] = 1

\* A call keeps its invariant while the evidence of its message grows.
LEMMA CallKept ==
  ASSUME NEW c, NEW r, NEW n, NEW k, NEW r2, NEW n2, NEW k2,
         CallInv(c, r, n, k), Grows(r, n, r2, n2),
         c.pc \in {"marked", "called"} =>
           r2.marker = r.marker /\ n2.disp = n.disp /\ k2 = k
  PROVE  CallInv(c, r2, n2, k2)
  BY DEF CallInv, Grows

\* A step that touches one message preserves the invariant if it does so for
\* that message, for the calls it moves, and for the writer fence.
LEMMA StepPreserves ==
  ASSUME DeliveryInv, TypeOK', NEW m \in Messages,
         \A x \in Messages : x # m =>
           row'[x] = row[x] /\ node'[x] = node[x] /\ native'[x] = native[x],
         MessageInv(row'[m], node'[m], native'[m]),
         Grows(row[m], node[m], row'[m], node'[m]),
         \A v \in Workers :
           \/ /\ wk'[v] = wk[v]
              /\ wk[v].m = m /\ wk[v].pc \in {"marked", "called"} =>
                   /\ row'[m].marker = row[m].marker
                   /\ node'[m].disp = node[m].disp
                   /\ native'[m] = native[m]
           \/ CallInv(wk'[v], row'[wk'[v].m], node'[wk'[v].m], native'[wk'[v].m]),
         FenceInv'
  PROVE  DeliveryInv'
<1>1. \A x \in Messages : MessageInv(row'[x], node'[x], native'[x])
  BY DEF DeliveryInv
<1>2. ASSUME NEW v \in Workers
      PROVE  CallInv(wk'[v], row'[wk'[v].m], node'[wk'[v].m], native'[wk'[v].m])
  <2>1. wk[v].m \in Messages /\ wk'[v].m \in Messages
    BY DEF DeliveryInv, TypeOK, Calls
  <2>2. CallInv(wk[v], row[wk[v].m], node[wk[v].m], native[wk[v].m])
    BY DEF DeliveryInv
  <2>3. CASE wk'[v] = wk[v] /\ wk[v].m # m
    BY <2>1, <2>2, <2>3
  <2>4. CASE /\ wk'[v] = wk[v] /\ wk[v].m = m
             /\ wk[v].pc \in {"marked", "called"} =>
                   /\ row'[m].marker = row[m].marker
                   /\ node'[m].disp = node[m].disp
                   /\ native'[m] = native[m]
    BY <2>2, <2>4, CallKept
  <2>5. QED BY <2>3, <2>4
<1>3. QED BY <1>1, <1>2 DEF DeliveryInv

\* The fence is entered when it is free or kept by the call that holds it.
LEMMA FenceKept ==
  ASSUME DeliveryInv, NEW w \in Workers, NEW c,
         wk' = [wk EXCEPT ![w] = c],
         c.pc \in InFence => NodeFree \/ wk[w].pc \in InFence
  PROVE  FenceInv'
  BY DEF DeliveryInv, TypeOK, FenceInv, NodeFree

\* A commit that leaves marker and acknowledgement alone, whatever call ends
\* or begins with it.
LEMMA RowStep ==
  ASSUME DeliveryInv, WorldOK', NEW m \in Messages, NEW r,
         row' = [row EXCEPT ![m] = r], RowInv(r), r.marker = row[m].marker,
         r.acked => node[m].ack,
         UNCHANGED <<node, native>>,
         wk' \in [Workers -> Calls],
         \A v \in Workers :
           \/ wk'[v] = wk[v]
           \/ wk'[v].pc \in {"idle", "claimed"} /\ wk'[v].obs = NoObservation
  PROVE  DeliveryInv' /\ HandoffStep
<1>1. TypeOK'
  BY DEF DeliveryInv, TypeOK, WorldOK, RowInv
<1>2. row'[m] = r /\ \A x \in Messages : x # m => row'[x] = row[x]
  BY DEF DeliveryInv, TypeOK
<1>3. MessageInv(row'[m], node'[m], native'[m])
  BY <1>2 DEF DeliveryInv, MessageInv
<1>4. Grows(row[m], node[m], row'[m], node'[m])
  BY <1>2 DEF Grows
<1>5. FenceInv'
  BY DEF DeliveryInv, FenceInv, InFence
<1>6. ASSUME NEW c, c.pc \in {"idle", "claimed"}, c.obs = NoObservation, NEW a, NEW b, NEW d
      PROVE  CallInv(c, a, b, d)
  BY <1>6 DEF CallInv, InFence, NoObservation
<1>7. HandoffStep
  BY <1>2 DEF HandoffStep, Same
<1>8. QED BY <1>1, <1>2, <1>3, <1>4, <1>5, <1>6, <1>7, StepPreserves

\* A call moves on without any commit.
LEMMA CallStep ==
  ASSUME DeliveryInv, WorldOK', NEW w \in Workers, NEW c \in Calls,
         UNCHANGED ledger,
         wk' = [wk EXCEPT ![w] = c],
         CallInv(c, row[c.m], node[c.m], native[c.m]),
         c.pc \in InFence => NodeFree \/ wk[w].pc \in InFence
  PROVE  DeliveryInv' /\ HandoffStep
<1>1. TypeOK'
  BY DEF DeliveryInv, TypeOK, WorldOK, ledger
<1>2. FenceInv'
  BY FenceKept
<1>3. wk'[w] = c /\ \A v \in Workers : v # w => wk'[v] = wk[v]
  BY DEF DeliveryInv, TypeOK
<1>4. HandoffStep
  BY DEF HandoffStep, Same, ledger
<1>5. QED BY <1>1, <1>2, <1>3, <1>4 DEF DeliveryInv, ledger

\* A commit of the Node journal by call w on its message.
LEMMA NodeStep ==
  ASSUME DeliveryInv, WorldOK', NEW w \in Workers, NEW n \in NodeRows, NEW c \in Calls,
         UNCHANGED <<row, native>>,
         node' = [node EXCEPT ![wk[w].m] = n],
         wk' = [wk EXCEPT ![w] = c], c.m = wk[w].m,
         MessageInv(row[c.m], n, native[c.m]),
         Grows(row[c.m], node[c.m], row[c.m], n),
         n.disp = node[c.m].disp \/ wk[w].pc \in InFence,
         CallInv(c, row[c.m], n, native[c.m]),
         c.pc \in InFence => NodeFree \/ wk[w].pc \in InFence
  PROVE  DeliveryInv' /\ HandoffStep
<1>1. TypeOK'
  BY DEF DeliveryInv, TypeOK, WorldOK
<1>2. FenceInv'
  BY FenceKept
<1>3. wk[w].m \in Messages
  BY DEF DeliveryInv, TypeOK, Calls
<1>4. node'[wk[w].m] = n /\ \A x \in Messages : x # wk[w].m => node'[x] = node[x]
  BY <1>3 DEF DeliveryInv, TypeOK
<1>5. wk'[w] = c /\ \A v \in Workers : v # w => wk'[v] = wk[v]
  BY DEF DeliveryInv, TypeOK
<1>6. ASSUME NEW v \in Workers, v # w, wk[v].pc \in {"marked", "called"}
      PROVE  n.disp = node[c.m].disp
  BY <1>6 DEF DeliveryInv, FenceInv, InFence
<1>7. HandoffStep
  BY DEF HandoffStep, Same
<1>8. QED BY <1>1, <1>2, <1>3, <1>4, <1>5, <1>6, <1>7, StepPreserves

---------------------------------------------------------------------------
(* One lemma per group of actions *)

\* The row of a message that send_message has not committed.
LEMMA UnsentInv ==
  /\ RowInv(UnsentRow)
  /\ UnsentRow.attempts = 0 /\ UnsentRow.marker = 0 /\ UnsentRow.acked = FALSE
  /\ UnsentRow.attempt = "none"
  BY MaxAttemptsAssumption
     DEF RowInv, UnsentRow, Rows, MessageStates, AttemptStatuses, LayerNames,
         InboxSources, IngressStates

\* The invariant holds initially.
LEMMA InitInv == Init => DeliveryInv
<1> SUFFICES ASSUME Init PROVE DeliveryInv
  OBVIOUS
<1>1. UnsentRow \in Rows /\ RowInv(UnsentRow)
  BY UnsentInv DEF RowInv
<1>2. EmptyNode \in NodeRows
  BY MaxAttemptsAssumption DEF EmptyNode, NodeRows, Invocations
<1>3. NoObservation \in Observations
  BY MaxAttemptsAssumption DEF NoObservation, Observations
<1>4. (CHOOSE m \in Messages : TRUE) \in Messages
  BY DeliveryAssumption
<1>5. Idle \in Calls
  BY <1>3, <1>4, MaxAttemptsAssumption DEF Idle, Calls, Pcs, Errors
<1>6. TypeOK
  BY <1>1, <1>2, <1>5, DeliveryAssumption DEF Init, TypeOK
<1>7. \A m \in Messages : MessageInv(row[m], node[m], native[m])
  BY <1>1 DEF Init, MessageInv, UnsentRow, EmptyNode
<1>8. \A w \in Workers : CallInv(wk[w], row[wk[w].m], node[wk[w].m], native[wk[w].m])
  BY DEF Init, CallInv, Idle, NoObservation, InFence
<1>9. FenceInv
  BY DEF Init, FenceInv, Idle, InFence
<1>10. QED BY <1>6, <1>7, <1>8, <1>9 DEF DeliveryInv

\* What a call looks like that has ended or not begun.
LEMMA IdleCall == Idle \in Calls /\ Idle.pc = "idle" /\ Idle.obs = NoObservation
<1>1. NoObservation \in Observations
  BY MaxAttemptsAssumption DEF NoObservation, Observations
<1>2. (CHOOSE m \in Messages : TRUE) \in Messages
  BY DeliveryAssumption
<1>3. QED BY <1>1, <1>2, MaxAttemptsAssumption DEF Idle, Calls, Pcs, Errors

\* Types of what the dispatcher does not write.
LEMMA WorldKept ==
  ASSUME TypeOK, UNCHANGED <<world, faults>>
  PROVE  WorldOK'
  BY DEF TypeOK, WorldOK, world, faults

\* The row as the claim transaction sees it after gate.
LEMMA GatedQuiet ==
  ASSUME NEW m, RowInv(row[m])
  PROVE  /\ Quiet(row[m], Gated(m))
         /\ Gated(m).attempt = row[m].attempt
         /\ Gated(m).attempts = row[m].attempts
  BY GateQuiet DEF Gated, Quiet

\* A quiet commit beside an unchanged set of calls.
LEMMA QuietCommit ==
  ASSUME DeliveryInv, NEW m \in Messages, NEW r, Quiet(row[m], r), Commit(m, r),
         UNCHANGED <<node, native, wk>>, WorldOK'
  PROVE  DeliveryInv' /\ HandoffStep
<1>1. RowInv(r) /\ r.marker = row[m].marker
  BY DEF Quiet
<1>2. r.acked => node[m].ack
  BY DEF Quiet, DeliveryInv, MessageInv
<1>3. wk' \in [Workers -> Calls]
  BY DEF DeliveryInv, TypeOK
<1>4. QED BY <1>1, <1>2, <1>3, RowStep DEF Commit

\* A commit with which call w ends or begins.
LEMMA CommitBy ==
  ASSUME DeliveryInv, NEW m \in Messages, NEW r, RowInv(r),
         r.marker = row[m].marker, r.acked => node[m].ack, Commit(m, r),
         UNCHANGED <<node, native>>, WorldOK', NEW w \in Workers,
         Release(w) \/ Begin(w, m)
  PROVE  DeliveryInv' /\ HandoffStep
<1> DEFINE c == IF Release(w) THEN Idle ELSE [Idle EXCEPT !.pc = "claimed", !.m = m]
<1>1. wk' = [wk EXCEPT ![w] = c]
  BY DEF Release, Begin
<1>2. c \in Calls /\ c.pc \in {"idle", "claimed"} /\ c.obs = NoObservation
  BY IdleCall DEF Calls, Pcs
<1> HIDE DEF c
<1>3. wk' \in [Workers -> Calls] /\ wk'[w] = c /\ \A v \in Workers : v # w => wk'[v] = wk[v]
  BY <1>1, <1>2 DEF DeliveryInv, TypeOK
<1>4. QED BY <1>2, <1>3, RowStep DEF Commit

\* A quiet commit with which call w ends or begins.
LEMMA QuietCommitBy ==
  ASSUME DeliveryInv, NEW m \in Messages, NEW r, Quiet(row[m], r), Commit(m, r),
         UNCHANGED <<node, native>>, WorldOK', NEW w \in Workers,
         Release(w) \/ Begin(w, m)
  PROVE  DeliveryInv' /\ HandoffStep
  BY CommitBy DEF Quiet, DeliveryInv, MessageInv

\* send_message: every route leads to a row without marker or attempt.
LEMMA SendPreserves ==
  ASSUME DeliveryInv, NEW m \in Messages, Send(m)
  PROVE  DeliveryInv' /\ HandoffStep
<1>1. WorldOK'
  BY WorldKept DEF DeliveryInv, Send
<1>2. RowInv(Route(m)) /\ Route(m).marker = 0 /\ ~Route(m).acked
  <2> DEFINE queued == [UnsentRow EXCEPT !.state = "queued"]
  <2>1. Route(m) \in {queued, ToInbox(queued, "delivered"), ToInbox(queued, "blocked"),
                      Reserve(queued)}
    BY DEF Route
  <2>2. /\ RowInv(queued) /\ queued.attempt = "none" /\ queued.attempts = 0
        /\ queued.marker = 0 /\ queued.acked = FALSE
    BY UnsentInv DEF RowInv, Rows, MessageStates, OpenStates
  <2> HIDE DEF queued
  <2>3. ASSUME NEW s \in {"delivered", "blocked"}
        PROVE  /\ RowInv(ToInbox(queued, s))
               /\ ToInbox(queued, s).marker = 0 /\ ToInbox(queued, s).acked = FALSE
    BY <2>2 DEF ToInbox, RowInv, Rows, MessageStates, TerminalStates, LayerNames,
                InboxSources
  <2>4. /\ RowInv(Reserve(queued))
        /\ Reserve(queued).marker = 0 /\ Reserve(queued).acked = FALSE
    BY <2>2 DEF Reserve, RowInv, Rows, MessageStates, OpenStates, IngressStates
  <2>5. QED BY <2>1, <2>2, <2>3, <2>4
<1>3. row[m].marker = 0
  <2>1. RowInv(row[m]) /\ row[m].state = "unsent"
    BY DEF DeliveryInv, MessageInv, Send
  <2>2. QED BY <2>1, MaxAttemptsAssumption DEF RowInv, Rows
<1>4. wk' \in [Workers -> Calls]
  BY DEF DeliveryInv, TypeOK, Send
<1>5. QED BY <1>1, <1>2, <1>3, <1>4, RowStep DEF Send

\* Rows below the budget, as every new attempt finds them.
LEMMA AdmissibleBudget ==
  ASSUME NEW m, RowInv(row[m]), ~Exhausted(m),
         row[m].attempt \notin OpenAttempt
  PROVE  row[m].attempts < MaxAttempts
  BY MaxAttemptsAssumption DEF Exhausted, RowInv, Rows

\* Claims that settle or defer a message without a call.
LEMMA ClaimPreserves ==
  ASSUME DeliveryInv, NEW m \in Messages, ClaimStep(m)
  PROVE  DeliveryInv' /\ HandoffStep
<1>1. RowInv(row[m])
  BY DEF DeliveryInv, MessageInv
<1>2. RowInv(Gated(m)) /\ Quiet(row[m], Gated(m)) /\ Gated(m).attempts = row[m].attempts
  BY <1>1, GatedQuiet DEF Quiet
<1>3. UNCHANGED <<node, native, wk>> /\ WorldOK'
  BY WorldKept DEF DeliveryInv, ClaimStep, ClaimInterrupted, ClaimExhausted, ClaimDenied,
                   ClaimSlotBusy, ClaimNoEndpoint, WakeReadback
<1>4. \A s \in OpenStates \cup TerminalStates : Quiet(row[m], Finish(Gated(m), s))
  BY <1>2, FinishQuiet DEF Quiet
<1>5. CASE ClaimInterrupted(m)
  BY <1>3, <1>4, <1>5, QuietCommit DEF ClaimInterrupted, TerminalStates
<1>6. CASE ClaimExhausted(m)
  BY <1>3, <1>4, <1>6, QuietCommit DEF ClaimExhausted, TerminalStates
<1>7. CASE ClaimDenied(m)
  <2>1. Quiet(row[m], Failure(Gated(m), auth[m]))
    BY <1>2, FailureQuiet DEF Quiet
  <2>2. QED BY <1>3, <1>7, <2>1, QuietCommit DEF ClaimDenied
<1>8. CASE ClaimSlotBusy(m)
  <2>1. Quiet(row[m], DeferPrepared(Gated(m)))
    BY <1>2, DeferQuiet DEF Quiet
  <2>2. QED BY <1>3, <1>8, <2>1, QuietCommit DEF ClaimSlotBusy
<1>9. CASE ClaimNoEndpoint(m)
  <2>1. Quiet(row[m], DeferPrepared(Gated(m)))
    BY <1>2, DeferQuiet DEF Quiet
  <2>2. CASE row[m].attempt = "prepared"
    BY <1>3, <1>9, <2>1, <2>2, QuietCommit DEF ClaimNoEndpoint
  <2>3. CASE row[m].attempt # "prepared"
    <3>1. Gated(m).attempts < MaxAttempts
      BY <1>1, <1>2, <1>9, <2>3, AdmissibleBudget DEF ClaimNoEndpoint, Admissible, OpenAttempt
    <3>2. Quiet(Gated(m), NewAttempt(Gated(m)))
      BY <1>2, <3>1, NewAttemptQuiet
    <3>3. Quiet(row[m], Failure(NewAttempt(Gated(m)), "transport"))
      BY <1>2, <3>2, FailureQuiet DEF Quiet
    <3>4. QED BY <1>3, <1>9, <2>3, <3>3, QuietCommit DEF ClaimNoEndpoint
  <2>4. QED BY <2>2, <2>3
<1>10. CASE WakeReadback(m)
  <2>1. Quiet(row[m], Finish(row[m], "expired")) /\ Quiet(row[m], DeferPrepared(row[m]))
    BY <1>1, FinishQuiet, DeferQuiet DEF TerminalStates
  <2>2. QED BY <1>3, <1>10, <2>1, QuietCommit DEF WakeReadback
<1>11. QED BY <1>5, <1>6, <1>7, <1>8, <1>9, <1>10 DEF ClaimStep

\* Claims that start a call on an old or a new attempt.
LEMMA BeginPreserves ==
  ASSUME DeliveryInv, NEW m \in Messages, NEW w \in Workers,
         ClaimReuse(w, m) \/ ClaimNew(w, m)
  PROVE  DeliveryInv' /\ HandoffStep
<1>1. RowInv(row[m])
  BY DEF DeliveryInv, MessageInv
<1>2. RowInv(Gated(m)) /\ Quiet(row[m], Gated(m)) /\ Gated(m).attempts = row[m].attempts
  BY <1>1, GatedQuiet DEF Quiet
<1>3. UNCHANGED <<node, native>> /\ Begin(w, m) /\ WorldOK'
  BY WorldKept DEF DeliveryInv, ClaimReuse, ClaimNew
<1>4. CASE ClaimReuse(w, m)
  BY <1>2, <1>3, <1>4, QuietCommitBy DEF ClaimReuse
<1>5. CASE ClaimNew(w, m)
  <2>1. Gated(m).attempts < MaxAttempts
    BY <1>1, <1>2, <1>5, AdmissibleBudget DEF ClaimNew, Admissible, OpenAttempt
  <2>2. Quiet(row[m], NewAttempt(Gated(m)))
    BY <1>2, <2>1, NewAttemptQuiet DEF Quiet
  <2>3. QED BY <1>3, <1>5, <2>2, QuietCommitBy DEF ClaimNew
<1>6. QED BY <1>4, <1>5

\* Nothing but the world changes.
LEMMA WorldStep ==
  ASSUME DeliveryInv, WorldOK', UNCHANGED <<ledger, wk>>
  PROVE  DeliveryInv' /\ HandoffStep
  BY DEF DeliveryInv, TypeOK, WorldOK, ledger, MessageInv, FenceInv, HandoffStep, Same

\* Reply waits: registration, retention, expiry and reclaiming.
LEMMA WaitPreserves ==
  ASSUME DeliveryInv, NEW m \in Messages, WaitStep(m)
  PROVE  DeliveryInv' /\ HandoffStep
<1>1. RowInv(row[m])
  BY DEF DeliveryInv, MessageInv
<1>2. WorldOK
  BY DEF DeliveryInv, TypeOK, WorldOK
<1>3. CASE RetainReply(m)
  <2>1. WorldOK'
    BY <1>2, <1>3 DEF RetainReply, WorldOK, faults
  <2>2. Quiet(row[m], Retain(row[m], IngressOn))
    BY <1>1, RetainQuiet, DeliveryAssumption DEF IngressOn
  <2>3. CASE Retainable(m)
    BY <1>3, <2>1, <2>2, <2>3, QuietCommit DEF RetainReply
  <2>4. CASE ~Retainable(m)
    BY <1>3, <2>1, <2>4, WorldStep DEF RetainReply, ledger
  <2>5. QED BY <2>3, <2>4
<1>4. CASE Reclaim(m)
  <2>1. Quiet(row[m], Gate(row[m]))
    BY <1>1, GateQuiet
  <2>2. QED BY <1>4, <2>1, QuietCommit, WorldKept DEF Reclaim, DeliveryInv
<1>5. CASE \/ RegisterWait(m) \/ ReadReply(m) \/ LeaveEarly(m) \/ EndWait(m)
           \/ WaiterDies(m) \/ LeaseExpires(m)
  <2>1. WorldOK' /\ UNCHANGED <<ledger, wk>>
    BY <1>2, <1>5 DEF RegisterWait, ReadReply, LeaveEarly, EndWait, WaiterDies, LeaseExpires,
                      WorldOK, faults
  <2>2. QED BY <2>1, WorldStep
<1>6. QED BY <1>3, <1>4, <1>5 DEF WaitStep

\* Withdrawn authorization and passed deadlines.
LEMMA AuthorizationPreserves ==
  ASSUME DeliveryInv, NEW m \in Messages, Revoke(m) \/ DeadlinePasses(m)
  PROVE  DeliveryInv' /\ HandoffStep
<1>1. WorldOK' /\ UNCHANGED <<ledger, wk>>
  BY DEF DeliveryInv, TypeOK, Revoke, DeadlinePasses, WorldOK, faults
<1>2. QED BY <1>1, WorldStep

---------------------------------------------------------------------------
(* Observations of the Node journal *)

\* inspect_delivery reports the receipts the journal holds.
LEMMA InspectFits ==
  ASSUME NEW n \in NodeRows, NEW s \in {"uncertain", "blocked"}
  PROVE  /\ Inspect(n, s) \in Observations
         /\ Inspect(n, s).disp = n.disp /\ Inspect(n, s).acked = n.ack
  BY DEF Inspect, NodeRows, Observations

\* observe: the acknowledgement it projects is in the journal.
LEMMA ObservePreserves ==
  ASSUME DeliveryInv, NEW m \in Messages, ObserveDelivered(m)
  PROVE  DeliveryInv' /\ HandoffStep
<1> DEFINE seen == Inspect(node[m], "uncertain")
           p == Project(row[m], seen)
           r == [p EXCEPT !.state = "delivered", !.attempt = "delivered"]
<1>1. MessageInv(row[m], node[m], native[m]) /\ node[m] \in NodeRows
  BY DEF DeliveryInv, TypeOK
<1>2. seen \in Observations /\ seen.disp = node[m].disp /\ seen.acked = node[m].ack
  BY <1>1, InspectFits
<1>3. RowInv(p) /\ p.marker = row[m].marker /\ p.acked = (row[m].acked \/ node[m].ack)
  BY <1>1, <1>2, ProjectRow DEF MessageInv
<1>4. row' = [row EXCEPT ![m] = r] /\ UNCHANGED <<node, native, wk>> /\ WorldOK'
  BY WorldKept DEF ObserveDelivered, DeliveryInv, Commit
<1>5. node[m].ack
  BY <1>2 DEF ObserveDelivered
<1> HIDE DEF p, seen
<1>6. RowInv(r) /\ r.marker = row[m].marker
  BY <1>3 DEF RowInv, Rows, MessageStates, AttemptStatuses, TerminalStates
<1>7. wk' \in [Workers -> Calls]
  BY <1>4 DEF DeliveryInv, TypeOK
<1> HIDE DEF r
<1>8. QED BY <1>4, <1>5, <1>6, <1>7, RowStep

\* reconcile_delivery acknowledges only a call that was made.
LEMMA ReconcilePreserves ==
  ASSUME DeliveryInv, NEW m \in Messages, ReconcileNode(m)
  PROVE  DeliveryInv' /\ HandoffStep
<1> DEFINE n == [node[m] EXCEPT !.ack = TRUE, !.inv = "acknowledged"]
<1>1. MessageInv(row[m], node[m], native[m]) /\ node[m] \in NodeRows
  BY DEF DeliveryInv, TypeOK
<1>2. /\ n \in NodeRows /\ n.disp = node[m].disp /\ n.att = node[m].att
      /\ n.inv = "acknowledged"
  BY <1>1 DEF NodeRows, Invocations
<1>3. node' = [node EXCEPT ![m] = n] /\ UNCHANGED <<row, native, wk>> /\ WorldOK'
  BY WorldKept DEF ReconcileNode, DeliveryInv, Journal
<1> HIDE DEF n
<1>4. node'[m] = n /\ \A x \in Messages : x # m => node'[x] = node[x]
  BY <1>3 DEF DeliveryInv, TypeOK
<1>5. TypeOK'
  BY <1>2, <1>3 DEF DeliveryInv, TypeOK, WorldOK
<1>6. MessageInv(row[m], n, native[m])
  BY <1>1, <1>2 DEF MessageInv, ReconcileNode
<1>7. Grows(row[m], node[m], row[m], n)
  BY <1>2 DEF Grows, n
<1>8. FenceInv'
  BY <1>3 DEF DeliveryInv, FenceInv
<1>9. \A v \in Workers : wk[v].pc \notin {"marked", "called"}
  BY DEF ReconcileNode, NodeFree, InFence
<1>10. HandoffStep
  BY <1>3 DEF HandoffStep, Same
<1>11. QED BY <1>3, <1>4, <1>5, <1>6, <1>7, <1>8, <1>9, <1>10, StepPreserves

---------------------------------------------------------------------------
(* Steps of one dispatcher call *)

\* The invariant for one call, its message and its journal.
LEMMA CallFacts ==
  ASSUME DeliveryInv, NEW w \in Workers
  PROVE  /\ wk[w] \in Calls /\ wk[w].m \in Messages
         /\ CallInv(wk[w], row[wk[w].m], node[wk[w].m], native[wk[w].m])
         /\ MessageInv(row[wk[w].m], node[wk[w].m], native[wk[w].m])
         /\ node[wk[w].m] \in NodeRows
  BY DEF DeliveryInv, TypeOK, Calls

\* A call that raises keeps everything but its pc and error.
LEMMA FailPreserves ==
  ASSUME DeliveryInv, WorldOK', NEW w \in Workers, NEW e \in Errors,
         Fail(w, e), UNCHANGED ledger
  PROVE  DeliveryInv' /\ HandoffStep
<1> DEFINE c == [wk[w] EXCEPT !.pc = "failed", !.err = e]
<1>1. wk' = [wk EXCEPT ![w] = c]
  BY DEF Fail
<1>2. c \in Calls /\ c.pc = "failed" /\ c.m = wk[w].m /\ c.obs = wk[w].obs
  BY CallFacts DEF Calls, Pcs
<1> HIDE DEF c
<1>3. CallInv(c, row[c.m], node[c.m], native[c.m])
  BY <1>2, CallFacts DEF CallInv, InFence
<1>4. QED BY <1>1, <1>2, <1>3, CallStep DEF InFence

\* A call may pass the fence or enter it when it is free.
LEMMA GotoPreserves ==
  ASSUME DeliveryInv, WorldOK', NEW w \in Workers, NEW p \in Pcs,
         Goto(w, p), UNCHANGED ledger,
         p \in {"fenced", "boundary"},
         p = "boundary" => NodeFree,
         node[wk[w].m].inv # "none" /\ node[wk[w].m].att = wk[w].att
  PROVE  DeliveryInv' /\ HandoffStep
<1> DEFINE c == [wk[w] EXCEPT !.pc = p]
<1>1. wk' = [wk EXCEPT ![w] = c]
  BY DEF Goto
<1>2. c \in Calls /\ c.pc = p /\ c.m = wk[w].m /\ c.obs = wk[w].obs /\ c.att = wk[w].att
  BY CallFacts DEF Calls
<1> HIDE DEF c
<1>3. CallInv(c, row[c.m], node[c.m], native[c.m])
  BY <1>2, CallFacts DEF CallInv, InFence
<1>4. QED BY <1>1, <1>2, <1>3, CallStep DEF InFence

\* _commit_inbox adds the Inbox receipt and nothing else.
LEMMA CommitInboxPreserves ==
  ASSUME DeliveryInv, NEW w \in Workers, CommitInbox(w)
  PROVE  DeliveryInv' /\ HandoffStep
<1> DEFINE m == wk[w].m
           n == [node[m] EXCEPT !.inbox = TRUE]
           c == [wk[w] EXCEPT !.pc = "inboxed", !.att = row[m].attempts]
<1>1. WorldOK' /\ UNCHANGED <<row, native>>
  BY WorldKept DEF CommitInbox, DeliveryInv
<1>2. node' = [node EXCEPT ![m] = n] /\ wk' = [wk EXCEPT ![w] = c]
  BY DEF CommitInbox, Journal
<1>3. c \in Calls /\ c.pc = "inboxed" /\ c.m = m /\ c.obs = wk[w].obs
  BY CallFacts DEF Calls, Pcs, MessageInv, RowInv, Rows
<1>4. /\ n \in NodeRows /\ n.inv = node[m].inv /\ n.att = node[m].att
      /\ n.disp = node[m].disp /\ n.ack = node[m].ack
  BY CallFacts DEF NodeRows
<1>5. MessageInv(row[m], n, native[m]) /\ Grows(row[m], node[m], row[m], n)
  BY <1>4, CallFacts DEF MessageInv, Grows
<1> HIDE DEF n, c
<1>6. CallInv(c, row[m], n, native[m])
  BY <1>3, <1>4, CallFacts DEF CallInv, InFence
<1>7. QED BY <1>1, <1>2, <1>3, <1>4, <1>5, <1>6, NodeStep DEF InFence

\* The Node commits n and answers with what it then holds.
LEMMA AnswerPreserves ==
  ASSUME DeliveryInv, WorldOK', NEW w \in Workers, NEW n \in NodeRows,
         NodeAnswers(w, n), UNCHANGED <<row, native>>,
         n.inv # "none", n.att = node[wk[w].m].att,
         MessageInv(row[wk[w].m], n, native[wk[w].m]),
         node[wk[w].m].ack => n.ack,
         n.disp = node[wk[w].m].disp \/ wk[w].pc \in InFence
  PROVE  DeliveryInv' /\ HandoffStep
<1> DEFINE o == Inspect(n, "uncertain")
           c == [wk[w] EXCEPT !.pc = "returned", !.obs = o]
<1>1. node' = [node EXCEPT ![wk[w].m] = n] /\ wk' = [wk EXCEPT ![w] = c]
  BY DEF NodeAnswers, Journal, Return
<1>2. o \in Observations /\ o.disp = n.disp /\ o.acked = n.ack
  BY InspectFits
<1> HIDE DEF o
<1>3. c \in Calls /\ c.pc = "returned" /\ c.m = wk[w].m /\ c.obs = o
  BY <1>2, CallFacts DEF Calls, Pcs
<1> HIDE DEF c
<1>4. CallInv(c, row[c.m], n, native[c.m])
  BY <1>2, <1>3 DEF CallInv, InFence, MessageInv
<1>5. Grows(row[c.m], node[c.m], row[c.m], n)
  BY <1>3 DEF Grows
<1>6. QED BY <1>1, <1>3, <1>4, <1>5, NodeStep DEF InFence

\* A changed invocation state alone disturbs nothing.
LEMMA InvocationKept ==
  ASSUME DeliveryInv, NEW w \in Workers, NEW i \in Invocations \ {"none"}
  PROVE  LET n == [node[wk[w].m] EXCEPT !.inv = i]
         IN  /\ n \in NodeRows /\ n.inv = i
             /\ n.att = node[wk[w].m].att /\ n.disp = node[wk[w].m].disp
             /\ n.ack = node[wk[w].m].ack
             /\ MessageInv(row[wk[w].m], n, native[wk[w].m])
<1> DEFINE n == [node[wk[w].m] EXCEPT !.inv = i]
<1>1. /\ n \in NodeRows /\ n.inv = i
      /\ n.att = node[wk[w].m].att /\ n.disp = node[wk[w].m].disp
      /\ n.ack = node[wk[w].m].ack
  BY CallFacts DEF NodeRows
<1> HIDE DEF n
<1>2. MessageInv(row[wk[w].m], n, native[wk[w].m])
  BY <1>1, CallFacts DEF MessageInv
<1>3. QED BY <1>1, <1>2 DEF n

\* The Node ends the invocation in doubt before any marker of its own.
LEMMA DoubtPreserves ==
  ASSUME DeliveryInv, WorldOK', NEW w \in Workers,
         wk[w].pc = "boundary",
         \/ NodeAnswers(w, Doubt(node[wk[w].m]))
         \/ NodeAnswers(w, [node[wk[w].m] EXCEPT !.inv = "uncertain"]),
         UNCHANGED <<row, native>>
  PROVE  DeliveryInv' /\ HandoffStep
<1> DEFINE i == IF node[wk[w].m].inv = "prepared" THEN "uncertain" ELSE node[wk[w].m].inv
<1>1. i \in Invocations \ {"none"}
  BY CallFacts DEF CallInv, InFence, NodeRows, Invocations
<1>2. Doubt(node[wk[w].m]) = [node[wk[w].m] EXCEPT !.inv = i]
  BY DEF Doubt
<1> HIDE DEF i
<1>3. "uncertain" \in Invocations \ {"none"}
  BY DEF Invocations
<1>4. PICK j \in Invocations \ {"none"} : NodeAnswers(w, [node[wk[w].m] EXCEPT !.inv = j])
  BY <1>1, <1>2, <1>3
<1> DEFINE n == [node[wk[w].m] EXCEPT !.inv = j]
<1>5. /\ n \in NodeRows /\ n.inv = j
      /\ n.att = node[wk[w].m].att /\ n.disp = node[wk[w].m].disp
      /\ n.ack = node[wk[w].m].ack
      /\ MessageInv(row[wk[w].m], n, native[wk[w].m])
  BY InvocationKept
<1>6. NodeAnswers(w, n) /\ n.inv # "none"
  BY <1>4, <1>5
<1> HIDE DEF n
<1>7. QED BY <1>5, <1>6, AnswerPreserves

\* The Node commits a pre-call rejection.
LEMMA RejectPreserves ==
  ASSUME DeliveryInv, WorldOK', NEW w \in Workers,
         RejectPreCall(w), UNCHANGED <<row, native>>
  PROVE  DeliveryInv' /\ HandoffStep
<1> DEFINE n == [node[wk[w].m] EXCEPT !.inv = "pre_call_rejected"]
           c == [wk[w] EXCEPT !.pc = "failed", !.err = "rejected"]
<1>1. node' = [node EXCEPT ![wk[w].m] = n] /\ wk' = [wk EXCEPT ![w] = c]
  BY DEF RejectPreCall, Journal, Fail
<1>2. "pre_call_rejected" \in Invocations \ {"none"}
  BY DEF Invocations
<1>3. /\ n \in NodeRows /\ n.inv = "pre_call_rejected"
      /\ n.att = node[wk[w].m].att /\ n.disp = node[wk[w].m].disp
      /\ n.ack = node[wk[w].m].ack
      /\ MessageInv(row[wk[w].m], n, native[wk[w].m])
  BY <1>2, InvocationKept
<1>4. c \in Calls /\ c.pc = "failed" /\ c.m = wk[w].m /\ c.obs = wk[w].obs
  BY CallFacts DEF Calls, Pcs, Errors
<1> HIDE DEF n, c
<1>5. CallInv(c, row[c.m], n, native[c.m])
  BY <1>3, <1>4, CallFacts DEF CallInv, InFence
<1>6. Grows(row[c.m], node[c.m], row[c.m], n)
  BY <1>3, <1>4 DEF Grows
<1>7. QED BY <1>1, <1>3, <1>4, <1>5, <1>6, NodeStep DEF InFence

\* The immutable invocation is stored once and never replaced.
LEMMA FencePreserves ==
  ASSUME DeliveryInv, NEW w \in Workers, Fence(w)
  PROVE  DeliveryInv' /\ HandoffStep
<1> DEFINE m == wk[w].m
           n == node[m]
<1>1. WorldOK' /\ UNCHANGED <<row, native>>
  BY WorldKept DEF Fence, DeliveryInv
<1>2. CASE /\ n.inv = "none"
           /\ Journal(m, [n EXCEPT !.inv = "prepared", !.att = wk[w].att])
           /\ Goto(w, "fenced")
  <2> DEFINE n2 == [n EXCEPT !.inv = "prepared", !.att = wk[w].att]
             c == [wk[w] EXCEPT !.pc = "fenced"]
  <2>1. node' = [node EXCEPT ![m] = n2] /\ wk' = [wk EXCEPT ![w] = c]
    BY <1>2 DEF Journal, Goto
  <2>2. /\ n2 \in NodeRows /\ n2.inv = "prepared" /\ n2.att = wk[w].att
        /\ n2.disp = n.disp /\ n2.ack = n.ack
    BY CallFacts DEF NodeRows, Invocations, Calls
  <2>3. c \in Calls /\ c.pc = "fenced" /\ c.m = m /\ c.obs = wk[w].obs /\ c.att = wk[w].att
    BY CallFacts DEF Calls, Pcs
  <2> HIDE DEF n2, c
  <2>4. MessageInv(row[m], n2, native[m]) /\ Grows(row[m], n, row[m], n2)
    BY <1>2, <2>2, CallFacts DEF MessageInv, Grows
  <2>5. CallInv(c, row[m], n2, native[m])
    BY <2>2, <2>3, CallFacts DEF CallInv, InFence
  <2>6. QED BY <1>1, <2>1, <2>2, <2>3, <2>4, <2>5, NodeStep DEF InFence
<1>3. CASE n.inv = "prepared" /\ n.att = wk[w].att /\ Goto(w, "fenced") /\ UNCHANGED node
  BY <1>1, <1>3, GotoPreserves DEF ledger, Pcs
<1>4. CASE Fail(w, "boundary") /\ UNCHANGED node
  BY <1>1, <1>4, FailPreserves DEF ledger, Errors
<1>5. CASE /\ n.inv \notin {"none", "prepared"}
           /\ Return(w, Inspect(n, "uncertain"))
           /\ UNCHANGED node
  <2>1. node' = [node EXCEPT ![m] = n]
    BY <1>5 DEF DeliveryInv, TypeOK
  <2>2. NodeAnswers(w, n)
    BY <1>5, <2>1 DEF NodeAnswers, Journal
  <2>3. QED BY <1>1, <1>5, <2>2, CallFacts, AnswerPreserves
<1>6. QED BY <1>2, <1>3, <1>4, <1>5 DEF Fence

\* Only an unmarked, uncalled message can be marked.
LEMMA MarkableFacts ==
  ASSUME DeliveryInv, NEW w \in Workers, Markable(w)
  PROVE  /\ wk[w].pc = "boundary"
         /\ row[wk[w].m].marker = 0 /\ native[wk[w].m] = 0
         /\ node[wk[w].m].disp = 0 /\ ~node[wk[w].m].ack
         /\ wk[w].att = row[wk[w].m].attempts /\ wk[w].att # 0
<1>1. RowInv(row[wk[w].m])
  BY CallFacts DEF MessageInv
<1>2. /\ wk[w].pc = "boundary" /\ wk[w].att = row[wk[w].m].attempts
      /\ row[wk[w].m].marker = 0 /\ wk[w].att # 0
  BY <1>1 DEF Markable, Unmarkable, RowInv
<1>3. QED BY <1>2, CallFacts DEF MessageInv

\* The marker commit, whatever becomes of the call and the Node transaction.
LEMMA MarkerPreserves ==
  ASSUME DeliveryInv, WorldOK', NEW w \in Workers, Markable(w),
         Commit(wk[w].m, RecordMarker(row[wk[w].m], wk[w].att)),
         UNCHANGED native, NEW n \in NodeRows, NEW c \in Calls,
         node' = [node EXCEPT ![wk[w].m] = n],
         n.inv # "none", n.att = node[wk[w].m].att, n.disp = 0, ~n.ack,
         wk' = [wk EXCEPT ![w] = c], c.m = wk[w].m, c.att = wk[w].att,
         c.pc \in {"marked", "failed", "returned"},
         c.obs.disp = 0 /\ ~c.obs.acked
  PROVE  DeliveryInv' /\ HandoffStep
<1> DEFINE m == wk[w].m
           r == RecordMarker(row[m], wk[w].att)
<1>1. /\ wk[w].pc = "boundary" /\ row[m].marker = 0 /\ native[m] = 0
      /\ node[m].disp = 0 /\ ~node[m].ack
      /\ wk[w].att = row[m].attempts /\ wk[w].att # 0 /\ m \in Messages
  BY MarkableFacts, CallFacts
<1>2. RowInv(row[m]) /\ (row[m].acked => node[m].ack) /\ node[m].att = wk[w].att
  BY <1>1, CallFacts DEF MessageInv, CallInv, InFence
<1>3. Raise(row[m].high, "runtime_dispatched") \in LayerNames
  BY <1>2 DEF Raise, RowInv, Rows, LayerNames
<1>4. /\ r \in Rows /\ r.marker = wk[w].att /\ r.attempts = wk[w].att
      /\ r.attempt = "runtime_dispatched" /\ r.acked = row[m].acked
      /\ r.state = row[m].state
  BY <1>1, <1>2, <1>3 DEF RecordMarker, RowInv, Rows, AttemptStatuses, OpenAttempt
<1>5. RowInv(r)
  BY <1>1, <1>2, <1>4, MaxAttemptsAssumption DEF RowInv, Rows
<1>6. row'[m] = r /\ \A x \in Messages : x # m => row'[x] = row[x]
  BY <1>1 DEF DeliveryInv, TypeOK, Commit
<1>7. node'[m] = n /\ \A x \in Messages : x # m => node'[x] = node[x]
  BY <1>1 DEF DeliveryInv, TypeOK
<1>8. wk'[w] = c /\ \A v \in Workers : v # w => wk'[v] = wk[v]
  BY DEF DeliveryInv, TypeOK
<1>9. row' = [row EXCEPT ![m] = r]
  BY DEF Commit
<1> HIDE DEF r
<1>10. TypeOK'
  BY <1>4, <1>9 DEF DeliveryInv, TypeOK, WorldOK
<1>11. MessageInv(r, n, native[m])
  BY <1>1, <1>2, <1>4, <1>5 DEF MessageInv
<1>12. Grows(row[m], node[m], r, n)
  BY <1>1 DEF Grows
<1>13. CallInv(c, r, n, native[m])
  BY <1>1, <1>2, <1>4 DEF CallInv, InFence
<1>14. FenceInv'
  BY <1>1, FenceKept DEF InFence
<1>15. \A v \in Workers : v # w => wk[v].pc \notin {"marked", "called"}
  BY <1>1 DEF DeliveryInv, FenceInv, InFence
<1>16. HandoffStep
  BY <1>1, <1>4, <1>6 DEF HandoffStep, Same
<1>17. QED
  BY <1>16, <1>1, <1>6, <1>7, <1>8, <1>10, <1>11, <1>12, <1>13, <1>14, <1>15, StepPreserves

\* mark_dispatched, also when its connection breaks around the commit.
LEMMA MarkPreserves ==
  ASSUME DeliveryInv, NEW w \in Workers, Mark(w) \/ MarkLost(w)
  PROVE  DeliveryInv' /\ HandoffStep
<1> DEFINE m == wk[w].m
<1>1. WorldOK' /\ UNCHANGED native /\ Markable(w)
  BY WorldKept DEF Mark, MarkLost, DeliveryInv
<1>2. /\ wk[w].pc = "boundary" /\ row[m].marker = 0
      /\ node[m].disp = 0 /\ ~node[m].ack /\ node[m] \in NodeRows
      /\ wk[w] \in Calls /\ wk[w].obs.disp = 0 /\ ~wk[w].obs.acked
      /\ node[m].inv # "none"
  BY <1>1, MarkableFacts, CallFacts DEF CallInv, InFence
<1>3. UNCHANGED node => node' = [node EXCEPT ![m] = node[m]]
  BY DEF DeliveryInv, TypeOK
<1>4. CASE Mark(w)
  <2> DEFINE c == [wk[w] EXCEPT !.pc = "marked"]
  <2>1. /\ c \in Calls /\ c.pc = "marked" /\ c.m = m /\ c.att = wk[w].att
        /\ c.obs = wk[w].obs
    BY <1>2 DEF Calls, Pcs, InFence
  <2>2. wk' = [wk EXCEPT ![w] = c]
    BY <1>4 DEF Mark, Goto
  <2> HIDE DEF c
  <2>3. QED BY <1>1, <1>2, <1>3, <1>4, <2>1, <2>2, MarkerPreserves DEF Mark
<1>5. CASE MarkLost(w) /\ UNCHANGED row
  <2>1. CASE Fail(w, "transport") /\ UNCHANGED node
    BY <1>1, <1>5, <2>1, FailPreserves DEF ledger, Errors
  <2>2. CASE NodeAnswers(w, Doubt(node[m]))
    BY <1>1, <1>2, <1>5, <2>2, DoubtPreserves
  <2>3. QED BY <1>5, <2>1, <2>2 DEF MarkLost
<1>6. CASE MarkLost(w) /\ Commit(m, RecordMarker(row[m], wk[w].att))
  <2>1. CASE Fail(w, "transport") /\ UNCHANGED node
    <3> DEFINE c == [wk[w] EXCEPT !.pc = "failed", !.err = "transport"]
    <3>1. /\ c \in Calls /\ c.pc = "failed" /\ c.m = m /\ c.att = wk[w].att
          /\ c.obs = wk[w].obs
      BY <1>2 DEF Calls, Pcs, Errors
    <3>2. wk' = [wk EXCEPT ![w] = c]
      BY <2>1 DEF Fail
    <3> HIDE DEF c
    <3>3. QED BY <1>1, <1>2, <1>3, <1>6, <2>1, <3>1, <3>2, MarkerPreserves
  <2>2. CASE NodeAnswers(w, Doubt(node[m]))
    <3> DEFINE n == Doubt(node[m])
               o == Inspect(n, "uncertain")
               c == [wk[w] EXCEPT !.pc = "returned", !.obs = o]
    <3>1. /\ n \in NodeRows /\ n.inv # "none" /\ n.att = node[m].att
          /\ n.disp = 0 /\ ~n.ack
      BY <1>2 DEF Doubt, NodeRows, Invocations
    <3>2. node' = [node EXCEPT ![m] = n] /\ wk' = [wk EXCEPT ![w] = c]
      BY <2>2 DEF NodeAnswers, Journal, Return
    <3> HIDE DEF n
    <3>3. o \in Observations /\ o.disp = 0 /\ ~o.acked
      BY <3>1, InspectFits
    <3> HIDE DEF o
    <3>4. /\ c \in Calls /\ c.pc = "returned" /\ c.m = m /\ c.att = wk[w].att
          /\ c.obs = o
      BY <1>2, <3>3 DEF Calls, Pcs
    <3> HIDE DEF c
    <3>5. QED BY <1>1, <1>2, <1>6, <3>1, <3>2, <3>3, <3>4, MarkerPreserves
  <2>3. QED BY <1>6, <2>1, <2>2 DEF MarkLost
<1>7. QED BY <1>4, <1>5, <1>6 DEF MarkLost

\* The one Native call, after the marker of the same attempt.
LEMMA InvokePreserves ==
  ASSUME DeliveryInv, NEW w \in Workers, InvokeNative(w)
  PROVE  DeliveryInv' /\ HandoffStep
<1> DEFINE m == wk[w].m
           c == [wk[w] EXCEPT !.pc = "called"]
<1>1. WorldOK' /\ UNCHANGED <<row, node>>
  BY WorldKept DEF InvokeNative, DeliveryInv
<1>2. /\ native[m] = 0 /\ row[m].marker = wk[w].att /\ wk[w].att # 0
      /\ node[m].disp = 0 /\ node[m].inv # "none" /\ node[m].att = wk[w].att
      /\ m \in Messages
  BY CallFacts DEF InvokeNative, CallInv, InFence
<1>3. /\ native'[m] = 1 /\ native' \in [Messages -> Nat]
      /\ \A x \in Messages : x # m => native'[x] = native[x]
  BY <1>2 DEF InvokeNative, DeliveryInv, TypeOK
<1>4. c \in Calls /\ c.pc = "called" /\ c.m = m /\ c.att = wk[w].att /\ c.obs = wk[w].obs
  BY CallFacts DEF Calls, Pcs, InFence
<1>5. wk' = [wk EXCEPT ![w] = c]
  BY DEF InvokeNative, Goto
<1> HIDE DEF c
<1>6. wk'[w] = c /\ \A v \in Workers : v # w => wk'[v] = wk[v]
  BY <1>5 DEF DeliveryInv, TypeOK
<1>7. TypeOK'
  BY <1>1, <1>3, <1>4, <1>5 DEF DeliveryInv, TypeOK, WorldOK
<1>8. MessageInv(row[m], node[m], 1)
  BY <1>2, CallFacts DEF MessageInv
<1>9. CallInv(c, row[m], node[m], 1)
  BY <1>2, <1>4, CallFacts DEF CallInv, InFence
<1>10. FenceInv'
  BY <1>5, FenceKept DEF InvokeNative, InFence
<1>11. \A v \in Workers : v # w => wk[v].pc \notin {"marked", "called"}
  BY DEF DeliveryInv, FenceInv, InFence, InvokeNative
<1>12. Grows(row[m], node[m], row'[m], node'[m])
  BY <1>1 DEF Grows
<1>13. HandoffStep
  BY <1>1, <1>2, <1>3 DEF HandoffStep, Same
<1>14. QED
  BY <1>13, <1>1, <1>2, <1>3, <1>4, <1>6, <1>7, <1>8, <1>9, <1>10, <1>11, <1>12, StepPreserves

\* The outcome of the driver after the marker.
LEMMA OutcomePreserves ==
  ASSUME DeliveryInv, NEW w \in Workers, DriverStops(w) \/ CommitInvocation(w)
  PROVE  DeliveryInv' /\ HandoffStep
<1> DEFINE m == wk[w].m
<1>1. WorldOK' /\ UNCHANGED <<row, native>> /\ wk[w].pc \in {"marked", "called"}
  BY WorldKept DEF DriverStops, CommitInvocation, DeliveryInv
<1>2. /\ row[m].marker = wk[w].att /\ wk[w].att # 0 /\ node[m].disp = 0
      /\ node[m].att = wk[w].att /\ node[m] \in NodeRows
      /\ wk[w].att \in 0 .. MaxAttempts
      /\ wk[w].pc = "called" => native[m] = 1
  BY <1>1, CallFacts DEF CallInv, InFence, Calls
<1>3. MessageInv(row[m], node[m], native[m]) /\ ~node[m].ack
  BY <1>2, CallFacts DEF MessageInv
<1>4. CASE DriverStops(w)
  <2> DEFINE n == [node[m] EXCEPT !.disp = wk[w].att, !.inv = "uncertain"]
  <2>1. /\ n \in NodeRows /\ n.inv = "uncertain" /\ n.disp = wk[w].att
        /\ n.att = node[m].att /\ n.ack = node[m].ack
    BY <1>2 DEF NodeRows, Invocations
  <2>2. NodeAnswers(w, n)
    BY <1>4 DEF DriverStops
  <2> HIDE DEF n
  <2>3. MessageInv(row[m], n, native[m])
    BY <1>2, <1>3, <2>1 DEF MessageInv
  <2>4. QED BY <1>1, <1>3, <2>1, <2>2, <2>3, AnswerPreserves DEF InFence
<1>5. CASE CommitInvocation(w)
  <2>1. PICK ack \in BOOLEAN :
          NodeAnswers(w, [node[m] EXCEPT
             !.disp = wk[w].att, !.ack = ack,
             !.inv = IF ack THEN "acknowledged" ELSE "uncertain"])
    BY <1>5 DEF CommitInvocation
  <2> DEFINE n == [node[m] EXCEPT
                     !.disp = wk[w].att, !.ack = ack,
                     !.inv = IF ack THEN "acknowledged" ELSE "uncertain"]
  <2>2. /\ n \in NodeRows /\ n.inv # "none" /\ n.disp = wk[w].att
        /\ n.att = node[m].att /\ n.ack = ack
    BY <1>2 DEF NodeRows, Invocations
  <2>3. NodeAnswers(w, n)
    BY <2>1
  <2> HIDE DEF n
  <2>4. MessageInv(row[m], n, native[m])
    BY <1>2, <1>3, <1>5, <2>2 DEF MessageInv, CommitInvocation
  <2>5. QED BY <1>1, <1>3, <2>2, <2>3, <2>4, AnswerPreserves DEF InFence
<1>6. QED BY <1>4, <1>5

\* The final transaction projects what the journal holds.
LEMMA SettlePreserves ==
  ASSUME DeliveryInv, NEW w \in Workers, Settle(w)
  PROVE  DeliveryInv' /\ HandoffStep
<1> DEFINE m == wk[w].m
           obs == wk[w].obs
           p == Project(row[m], obs)
<1>1. WorldOK' /\ UNCHANGED <<node, native>> /\ Release(w) /\ Commit(m, Finish(p, obs.status))
  BY WorldKept DEF Settle, DeliveryInv
<1>2. /\ m \in Messages /\ obs \in Observations /\ RowInv(row[m])
      /\ obs.disp # 0 => obs.disp = row[m].marker
      /\ row[m].acked \/ obs.acked => node[m].ack
  BY CallFacts DEF Calls, CallInv, MessageInv
<1>3. RowInv(p) /\ p.marker = row[m].marker /\ p.acked = (row[m].acked \/ obs.acked)
  BY <1>2, ProjectRow
<1>4. obs.status \in OpenStates \cup TerminalStates
  BY <1>2 DEF Observations, TerminalStates
<1> HIDE DEF p
<1>5. Quiet(p, Finish(p, obs.status))
  BY <1>3, <1>4, FinishQuiet
<1>6. QED BY <1>1, <1>2, <1>3, <1>5, CommitBy DEF Quiet

\* The exception handler keeps marker and evidence on every path.
LEMMA HandledRow ==
  ASSUME NEW r, NEW n \in NodeRows, NEW k, NEW e, MessageInv(r, n, k)
  PROVE  /\ RowInv(Handled(r, n, e)) /\ Handled(r, n, e).marker = r.marker
         /\ Handled(r, n, e).acked => n.ack
<1> DEFINE back == Inspect(n, "uncertain")
           seen == Inspect(n, "blocked")
<1>1. RowInv(r) /\ (r.acked => n.ack) /\ (n.disp # 0 => n.disp = r.marker)
  BY DEF MessageInv
<1>2. /\ back \in Observations /\ back.disp = n.disp /\ back.acked = n.ack
      /\ seen \in Observations /\ seen.disp = n.disp /\ seen.acked = n.ack
  BY InspectFits
<1> HIDE DEF back, seen
<1>3. ASSUME NEW o \in {back, seen}
      PROVE  /\ RowInv(Project(r, o)) /\ Project(r, o).marker = r.marker
             /\ Project(r, o).acked => n.ack
  <2>1. o \in Observations /\ o.disp = n.disp /\ o.acked = n.ack
    BY <1>2, <1>3
  <2>2. /\ RowInv(Project(r, o)) /\ Project(r, o).marker = r.marker
        /\ Project(r, o).acked = (r.acked \/ o.acked)
    BY <1>1, <2>1, ProjectRow
  <2>3. QED BY <1>1, <2>1, <2>2
<1>4. Quiet(r, r) /\ Quiet(r, Finish(r, "uncertain")) /\ Quiet(r, Failure(r, e))
  BY <1>1, FinishQuiet, FailureQuiet DEF Quiet, TerminalStates
<1>5. Quiet(Project(r, back), Finish(Project(r, back), "delivered"))
  BY <1>3, FinishQuiet DEF TerminalStates
<1>6. /\ Quiet(Project(r, seen), DeferPrepared(Project(r, seen)))
      /\ Quiet(Project(r, seen), Failure(Project(r, seen), e))
  BY <1>3, DeferQuiet, FailureQuiet
<1>7. Handled(r, n, e) \in
        {r, Finish(r, "uncertain"), Failure(r, e), Finish(Project(r, back), "delivered"),
         DeferPrepared(Project(r, seen)), Failure(Project(r, seen), e)}
  BY DEF Handled, back, seen
<1>8. QED BY <1>1, <1>3, <1>4, <1>5, <1>6, <1>7 DEF Quiet

\* The exception handler as a step.
LEMMA HandlePreserves ==
  ASSUME DeliveryInv, NEW w \in Workers, Handle(w)
  PROVE  DeliveryInv' /\ HandoffStep
<1> DEFINE r == Handled(row[wk[w].m], node[wk[w].m], wk[w].err)
<1>1. /\ WorldOK' /\ UNCHANGED <<node, native>> /\ Release(w)
      /\ Commit(wk[w].m, r)
  BY WorldKept DEF Handle, DeliveryInv
<1>2. RowInv(r) /\ r.marker = row[wk[w].m].marker /\ (r.acked => node[wk[w].m].ack)
  BY CallFacts, HandledRow
<1> HIDE DEF r
<1>3. QED BY <1>1, <1>2, CallFacts, CommitBy

\* Crashes and lost lock sessions leave the ledger as committed.
LEMMA FaultPreserves ==
  ASSUME DeliveryInv, NEW w \in Workers, Crash(w) \/ LoseSession(w)
  PROVE  DeliveryInv' /\ HandoffStep
<1>1. WorldOK' /\ UNCHANGED ledger
  BY DeliveryAssumption DEF Crash, LoseSession, DeliveryInv, TypeOK, WorldOK, world
<1>2. CASE Crash(w)
  <2>1. CallInv(Idle, row[Idle.m], node[Idle.m], native[Idle.m])
    BY IdleCall DEF CallInv, InFence, NoObservation
  <2>2. QED BY <1>1, <1>2, <2>1, IdleCall, CallStep DEF Crash, Release, InFence
<1>3. CASE LoseSession(w)
  <2> DEFINE c == [wk[w] EXCEPT !.session = FALSE]
  <2>1. wk' = [wk EXCEPT ![w] = c]
    BY <1>3 DEF LoseSession
  <2>2. /\ c \in Calls /\ c.pc = wk[w].pc /\ c.m = wk[w].m /\ c.att = wk[w].att
        /\ c.obs = wk[w].obs
    BY CallFacts DEF Calls
  <2> HIDE DEF c
  <2>3. CallInv(c, row[c.m], node[c.m], native[c.m])
    BY <2>2, CallFacts DEF CallInv
  <2>4. QED BY <1>1, <2>1, <2>2, <2>3, CallStep
<1>4. QED BY <1>2, <1>3

\* Every step of a dispatcher call.
LEMMA WorkerPreserves ==
  ASSUME DeliveryInv, NEW w \in Workers, WorkerStep(w)
  PROVE  DeliveryInv' /\ HandoffStep
<1> DEFINE m == wk[w].m
<1>1. \A e \in {"none", "transport", "boundary", "deferred", "denied"} : e \in Errors
  BY DEF Errors
<1>2. CASE WakeDefers(w)
  <2>1. WorldOK' /\ Quiet(row[m], DeferPrepared(row[m]))
    BY <1>2, WorldKept, CallFacts, DeferQuiet DEF WakeDefers, DeliveryInv, MessageInv
  <2>2. QED BY <1>2, <2>1, CallFacts, QuietCommitBy DEF WakeDefers
<1>3. CASE CheckFails(w)
  <2>1. WorldOK' /\ UNCHANGED ledger
    BY <1>3, WorldKept DEF CheckFails, DeliveryInv
  <2>2. PICK e \in CheckErrors(m) : Fail(w, e)
    BY <1>3 DEF CheckFails
  <2>3. e \in Errors
    BY <2>2 DEF CheckErrors, Errors
  <2>4. QED BY <2>1, <2>2, <2>3, FailPreserves
<1>4. CASE TransportFails(w) \/ SettleRefused(w) \/ DriverDefers(w)
  <2>1. WorldOK' /\ UNCHANGED ledger
    BY <1>4, WorldKept DEF TransportFails, SettleRefused, DriverDefers, DeliveryInv
  <2>2. QED BY <1>1, <1>4, <2>1, FailPreserves DEF TransportFails, SettleRefused, DriverDefers
<1>5. CASE EnterNative(w)
  <2>1. WorldOK' /\ UNCHANGED ledger
    BY <1>5, WorldKept DEF EnterNative, DeliveryInv
  <2>2. node[m].inv # "none" /\ node[m].att = wk[w].att
    BY <1>5, CallFacts DEF EnterNative, CallInv
  <2>3. QED BY <1>5, <2>1, <2>2, GotoPreserves DEF EnterNative, Pcs, InFence
<1>6. CASE DriverRejects(w)
  BY <1>6, WorldKept, RejectPreserves DEF DriverRejects, DeliveryInv
<1>7. CASE DriverFaults(w) \/ MarkRouted(w)
  <2>1. WorldOK' /\ UNCHANGED <<row, native>> /\ wk[w].pc = "boundary"
    BY <1>7, WorldKept DEF DriverFaults, MarkRouted, DeliveryInv
  <2>2. QED BY <1>7, <2>1, DoubtPreserves DEF DriverFaults, MarkRouted
<1>8. CASE MarkDenied(w)
  <2>1. WorldOK' /\ UNCHANGED <<row, native>> /\ wk[w].pc = "boundary"
    BY <1>8, WorldKept DEF MarkDenied, DeliveryInv
  <2>2. CASE RejectPreCall(w)
    BY <2>1, <2>2, RejectPreserves
  <2>3. CASE Fail(w, "denied") /\ UNCHANGED node
    BY <1>1, <2>1, <2>3, FailPreserves DEF ledger
  <2>4. CASE NodeAnswers(w, Doubt(node[m]))
    BY <2>1, <2>4, DoubtPreserves
  <2>5. QED BY <1>8, <2>2, <2>3, <2>4 DEF MarkDenied
<1>9. CASE MarkConflicts(w)
  <2>1. WorldOK' /\ UNCHANGED <<row, native>> /\ wk[w].pc = "boundary"
    BY <1>9, WorldKept DEF MarkConflicts, DeliveryInv
  <2>2. QED BY <1>9, <2>1, RejectPreserves, DoubtPreserves DEF MarkConflicts
<1>10. QED
  BY <1>2, <1>3, <1>4, <1>5, <1>6, <1>7, <1>8, <1>9, CommitInboxPreserves, FencePreserves,
     MarkPreserves, InvokePreserves, OutcomePreserves, SettlePreserves, HandlePreserves
     DEF WorkerStep

\* Every step of the system.
LEMMA NextPreserves ==
  ASSUME DeliveryInv, [Next]_vars
  PROVE  DeliveryInv' /\ HandoffStep
<1>1. CASE UNCHANGED vars
  <2>1. WorldOK'
    BY <1>1, WorldKept DEF vars, world, faults, DeliveryInv
  <2>2. QED BY <1>1, <2>1, WorldStep DEF vars, ledger
<1>2. ASSUME NEW m \in Messages,
             \/ Send(m) \/ ClaimStep(m) \/ WaitStep(m)
             \/ ReconcileNode(m) \/ ObserveDelivered(m)
             \/ Revoke(m) \/ DeadlinePasses(m)
      PROVE  DeliveryInv' /\ HandoffStep
  BY <1>2, SendPreserves, ClaimPreserves, WaitPreserves, ReconcilePreserves,
     ObservePreserves, AuthorizationPreserves
<1>3. ASSUME NEW m \in Messages, NEW w \in Workers, ClaimReuse(w, m) \/ ClaimNew(w, m)
      PROVE  DeliveryInv' /\ HandoffStep
  BY <1>3, BeginPreserves
<1>4. ASSUME NEW w \in Workers, WorkerStep(w) \/ Crash(w) \/ LoseSession(w)
      PROVE  DeliveryInv' /\ HandoffStep
  BY <1>4, WorkerPreserves, FaultPreserves
<1>5. QED BY <1>1, <1>2, <1>3, <1>4 DEF Next

---------------------------------------------------------------------------
(* What a ledger row may report *)

\* A deferral by receiver wake rewrites the row whatever became of it, so what
\* follows needs the locks when wake is on.
LocksOrNoWake == ~WakeEnabled \/ MaxSessionLosses = 0

\* Invocations that no dispatcher call takes past the fence any more.
Spent(n) == n.inv \notin {"none", "prepared"}

\* A row r beside the Node journal n; t tells whether a Tool Result was given
\* the message.  A retained message is unmarked, and if it is not delivered
\* any more, its invocation is spent and belongs to an earlier attempt.
RowStory(r, n, t) ==
  /\ r.attempt = "prepared" => r.state \in OpenStates \cup {"delivered"}
  /\ r.state = "delivered" => r.acked \/ r.inbox = "authority_inbox" \/ t
  /\ r.ingress = "reserved" => IngressOn
  /\ n.att <= r.attempts
  /\ LocksOrNoWake /\ r.marker # 0 =>
       /\ r.marker = r.attempts
       /\ \/ r.state \in {"delivered", "uncertain"}
          \/ r.state \in OpenStates /\ r.attempt = "runtime_dispatched"
  /\ ~WakeEnabled /\ t =>
       /\ r.marker = 0
       /\ r.state # "delivered" => /\ Spent(n)
                                   /\ r.attempt = "prepared" => n.att # r.attempts

\* A dispatcher call c on such a message.
CallStory(c, r, n) ==
  /\ c.obs.status \in {"uncertain", "delivered"}
  /\ c.obs.status = "delivered" => c.obs.acked
  /\ c.pc # "idle" => r.ingress # "reserved" /\ r.state # "unsent"
  /\ c.pc = "returned" => Spent(n)
  /\ c.att <= r.attempts

\* While no lock session is lost, one call works on a message, and it has
\* claimed an unmarked one.
LockInv ==
  MaxSessionLosses = 0 =>
    /\ \A w \in Workers : wk[w].session
    /\ \A v, w \in Workers : Busy(v) /\ Busy(w) /\ wk[v].m = wk[w].m => v = w
    /\ \A w \in Workers : wk[w].pc = "claimed" => row[wk[w].m].marker = 0

StoryInv ==
  /\ \A m \in Messages : RowStory(row[m], node[m], retained[m])
  /\ \A w \in Workers : CallStory(wk[w], row[wk[w].m], node[wk[w].m])
  /\ LockInv

\* What every commit of a message carries on.
Forward(r, n, r2, n2) ==
  /\ r.state # "unsent" =>
       r2.state # "unsent" /\ (r.ingress # "reserved" => r2.ingress # "reserved")
  /\ r.attempts <= r2.attempts
  /\ Spent(n) => Spent(n2)

\* r2 may replace r: it reports the truth, and opens and marks nothing.
Reports(r, r2, n, t) ==
  /\ RowStory(r2, n, t) /\ Forward(r, n, r2, n)
  /\ r2.attempts = r.attempts /\ r2.marker = r.marker

\* record_obstacle changes nothing that is reported here.
LEMMA ObstacleReports ==
  ASSUME NEW r \in Rows, NEW s
  PROVE  /\ RecordObstacle(r, s).state = r.state /\ RecordObstacle(r, s).attempt = r.attempt
         /\ RecordObstacle(r, s).attempts = r.attempts /\ RecordObstacle(r, s).marker = r.marker
         /\ RecordObstacle(r, s).acked = r.acked /\ RecordObstacle(r, s).inbox = r.inbox
         /\ RecordObstacle(r, s).ingress = r.ingress
  BY DEF RecordObstacle, Rows

\* _finish closes an open attempt and leaves the rest of the row.
LEMMA FinishFields ==
  ASSUME NEW r \in Rows, NEW s \in OpenStates \cup TerminalStates
  PROVE  /\ Finish(r, s).state = s
         /\ Finish(r, s).attempt = IF r.attempt \in OpenAttempt THEN s ELSE r.attempt
         /\ Finish(r, s).attempts = r.attempts /\ Finish(r, s).marker = r.marker
         /\ Finish(r, s).acked = r.acked /\ Finish(r, s).inbox = r.inbox
         /\ Finish(r, s).ingress = r.ingress
<1> DEFINE a == IF r.attempt \in OpenAttempt THEN s ELSE r.attempt
           c == [r EXCEPT !.state = s, !.attempt = a]
<1>1. s \in MessageStates /\ a \in AttemptStatuses
  BY DEF OpenStates, TerminalStates, MessageStates, AttemptStatuses, Rows
<1>2. Finish(r, s) = RecordObstacle(c, s)
  BY DEF Finish, Rows
<1> HIDE DEF a
<1>3. /\ c \in Rows /\ c.state = s /\ c.attempt = a /\ c.attempts = r.attempts
      /\ c.marker = r.marker /\ c.acked = r.acked /\ c.inbox = r.inbox /\ c.ingress = r.ingress
  BY <1>1 DEF Rows
<1> HIDE DEF c
<1>4. QED BY <1>2, <1>3, ObstacleReports DEF a

\* A message is settled or put off: as uncertain when it may be marked, as
\* delivered with an acknowledgement, and never away from "delivered" while
\* its invocation can still be made.
LEMMA FinishReports ==
  ASSUME NEW r, RowInv(r), NEW n, NEW t \in BOOLEAN, RowStory(r, n, t),
         NEW s \in OpenStates \cup TerminalStates,
         s = "delivered" => r.acked,
         s \in {"uncertain", "delivered"} \/ (LocksOrNoWake => r.marker = 0),
         r.state # "delivered" \/ Spent(n)
  PROVE  Reports(r, Finish(r, s), n, t)
<1> DEFINE f == Finish(r, s)
<1>1. /\ f.state = s /\ f.attempt = (IF r.attempt \in OpenAttempt THEN s ELSE r.attempt)
      /\ f.attempts = r.attempts /\ f.marker = r.marker
      /\ f.acked = r.acked /\ f.inbox = r.inbox /\ f.ingress = r.ingress
  BY FinishFields DEF RowInv
<1>2. s # "prepared" /\ s # "unsent" /\ f.attempt # "prepared"
  BY <1>1 DEF OpenStates, TerminalStates, OpenAttempt
<1>3. r.attempts <= f.attempts
  BY <1>1 DEF RowInv, Rows
<1> HIDE DEF f
<1>4. RowStory(f, n, t)
  BY <1>1, <1>2 DEF RowStory
<1>5. QED BY <1>1, <1>2, <1>3, <1>4 DEF Reports, Forward, f

\* _failure settles a message that is not marked.
LEMMA FailureReports ==
  ASSUME NEW r, RowInv(r), NEW n, NEW t \in BOOLEAN, RowStory(r, n, t), NEW e,
         LocksOrNoWake => r.marker = 0, r.state # "delivered"
  PROVE  Reports(r, Failure(r, e), n, t)
<1>1. FailureState(r, e) \in (OpenStates \cup TerminalStates) \ {"delivered"}
  BY DEF FailureState, OpenStates, TerminalStates
<1>2. QED BY <1>1, FinishReports DEF Failure

\* _defer_prepared of a message that is open or unmarked.
LEMMA DeferReports ==
  ASSUME NEW r, RowInv(r), NEW n, NEW t \in BOOLEAN, RowStory(r, n, t),
         r.state # "delivered" \/ WakeEnabled,
         LocksOrNoWake => r.marker = 0 \/ r.state \in OpenStates
  PROVE  Reports(r, DeferPrepared(r), n, t)
<1> DEFINE d == DeferPrepared(r)
<1>1. /\ d.state = "retry_wait" /\ d.attempt = r.attempt
      /\ d.attempts = r.attempts /\ d.marker = r.marker
      /\ d.acked = r.acked /\ d.inbox = r.inbox /\ d.ingress = r.ingress
  BY DEF DeferPrepared, RowInv, Rows
<1>2. r.attempts <= d.attempts
  BY <1>1 DEF RowInv, Rows
<1> HIDE DEF d
<1>3. RowStory(d, n, t)
  BY <1>1 DEF RowStory, OpenStates
<1>4. QED BY <1>1, <1>2, <1>3 DEF Reports, Forward, d

\* gate releases a reservation.
LEMMA GateReports ==
  ASSUME NEW r, RowInv(r), NEW n, NEW t \in BOOLEAN, RowStory(r, n, t)
  PROVE  /\ Reports(r, Gate(r), n, t) /\ Gate(r).ingress # "reserved"
         /\ Gate(r).attempt = r.attempt
         /\ r.state \in OpenStates => Gate(r).state \in OpenStates
         /\ r.state \notin OpenStates => Gate(r).state = r.state
<1> DEFINE g == Gate(r)
<1>1. /\ g.attempt = r.attempt /\ g.attempts = r.attempts /\ g.marker = r.marker
      /\ g.acked = r.acked /\ g.inbox = r.inbox
      /\ g.ingress = (IF r.ingress = "reserved" THEN "released" ELSE r.ingress)
      /\ g.state = r.state \/ (g.state = "queued" /\ r.state = "retry_wait")
  BY DEF Gate, RowInv, Rows
<1>2. r.attempts <= g.attempts
  BY <1>1 DEF RowInv, Rows
<1> HIDE DEF g
<1>3. RowStory(g, n, t)
  BY <1>1 DEF RowStory, OpenStates
<1>4. QED BY <1>1, <1>2, <1>3 DEF Reports, Forward, OpenStates, g

\* _project of receipts that are not refused.
LEMMA ProjectReports ==
  ASSUME NEW r, RowInv(r), NEW n, NEW t \in BOOLEAN, RowStory(r, n, t),
         NEW obs \in Observations, ~ProjectionRefused(r, obs), obs.disp # 0 => obs.disp = r.marker
  PROVE  /\ Reports(r, Project(r, obs), n, t)
         /\ Project(r, obs).state = r.state /\ Project(r, obs).attempt = r.attempt
         /\ Project(r, obs).acked = (r.acked \/ obs.acked)
<1> DEFINE p == Project(r, obs)
<1>1. /\ p.state = r.state /\ p.attempt = r.attempt /\ p.attempts = r.attempts
      /\ p.marker = r.marker /\ p.acked = (r.acked \/ obs.acked)
      /\ p.ingress = r.ingress
  BY DEF Project, RowInv, Rows, Observations
<1>2. r.attempts <= p.attempts /\ r.inbox # "authority_inbox" /\ r.acked \in BOOLEAN /\ obs.acked \in BOOLEAN
  BY <1>1 DEF RowInv, Rows, ProjectionRefused, Observations
<1> HIDE DEF p
<1>3. RowStory(p, n, t)
  BY <1>1, <1>2 DEF RowStory
<1>4. QED BY <1>1, <1>2, <1>3 DEF Reports, Forward, p

\* Reports is transitive.
LEMMA ReportsTwice ==
  ASSUME NEW r, NEW r2, NEW r3, NEW n, NEW t, Reports(r, r2, n, t), Reports(r2, r3, n, t)
  PROVE  Reports(r, r3, n, t)
  BY DEF Reports, Forward

\* A new attempt is opened for an open message without an open attempt; the
\* invocation of a retained message stays with an earlier attempt.
LEMMA NewAttemptStory ==
  ASSUME NEW r, RowInv(r), NEW n \in NodeRows, NEW t \in BOOLEAN, RowStory(r, n, t),
         r.attempts < MaxAttempts, r.state \in OpenStates, r.attempt # "runtime_dispatched"
  PROVE  /\ RowStory(NewAttempt(r), n, t) /\ Forward(r, n, NewAttempt(r), n)
         /\ NewAttempt(r).marker = r.marker /\ NewAttempt(r).state \in OpenStates
         /\ NewAttempt(r).ingress = r.ingress /\ NewAttempt(r).attempt = "prepared"
<1> DEFINE a == NewAttempt(r)
<1>1. /\ a.state = "delivering" /\ a.attempt = "prepared" /\ a.attempts = r.attempts + 1
      /\ a.marker = r.marker /\ a.ingress = r.ingress
  BY DEF NewAttempt, RowInv, Rows
<1>2. r.attempts \in Nat /\ n.att \in Nat
  BY MaxAttemptsAssumption DEF RowInv, Rows, NodeRows
<1>3. r.state \notin {"delivered", "uncertain"} /\ (LocksOrNoWake => r.marker = 0)
  BY DEF RowStory, OpenStates
<1> HIDE DEF a
<1>4. n.att <= r.attempts /\ n.att <= a.attempts /\ n.att # a.attempts /\ r.attempts <= a.attempts
  BY <1>1, <1>2 DEF RowStory
<1>5. RowStory(a, n, t)
  BY <1>1, <1>3, <1>4 DEF RowStory, OpenStates
<1>6. QED BY <1>1, <1>4, <1>5 DEF Forward, OpenStates, a

\* mark_dispatched: the attempt that is marked is prepared, current, and the
\* one the Node stored.
LEMMA MarkerStory ==
  ASSUME NEW r, RowInv(r), NEW n, NEW t \in BOOLEAN, RowStory(r, n, t),
         r.attempt = "prepared", r.state # "delivered", n.att = r.attempts
  PROVE  /\ RowStory(RecordMarker(r, r.attempts), n, t)
         /\ Forward(r, n, RecordMarker(r, r.attempts), n)
<1> DEFINE a == RecordMarker(r, r.attempts)
<1>1. /\ a.state = r.state /\ a.attempt = "runtime_dispatched" /\ a.attempts = r.attempts
      /\ a.marker = r.attempts /\ a.ingress = r.ingress
  BY DEF RecordMarker, RowInv, Rows
<1>2. r.attempts <= a.attempts
  BY <1>1 DEF RowInv, Rows
<1>3. r.state \in OpenStates /\ ~(~WakeEnabled /\ t)
  BY DEF RowStory
<1> HIDE DEF a
<1>4. RowStory(a, n, t)
  BY <1>1, <1>3 DEF RowStory
<1>5. QED BY <1>1, <1>2, <1>4 DEF Forward, a

\* _retain_wait_ingress of an unmarked reply.
LEMMA RetainStory ==
  ASSUME NEW r, RowInv(r), NEW n, NEW t \in BOOLEAN, RowStory(r, n, t), r.marker = 0
  PROVE  Reports(r, Retain(r, IngressOn), n, TRUE)
<1> DEFINE a == Retain(r, IngressOn)
<1>1. /\ a.state = "delivered" /\ a.attempt = r.attempt /\ a.attempts = r.attempts
      /\ a.marker = r.marker
      /\ a.ingress = (IF IngressOn THEN "selected" ELSE r.ingress)
  BY DEF Retain, RowInv, Rows
<1>2. r.attempts <= a.attempts
  BY <1>1 DEF RowInv, Rows
<1> HIDE DEF a
<1>3. RowStory(a, n, TRUE)
  BY <1>1 DEF RowStory
<1>4. QED BY <1>1, <1>2, <1>3 DEF Reports, Forward, a

\* The observer's own settlement.
LEMMA ObservedStory ==
  ASSUME NEW p, RowInv(p), NEW n, NEW t \in BOOLEAN, RowStory(p, n, t), p.acked
  PROVE  Reports(p, [p EXCEPT !.state = "delivered", !.attempt = "delivered"], n, t)
<1> DEFINE a == [p EXCEPT !.state = "delivered", !.attempt = "delivered"]
<1>1. /\ a.state = "delivered" /\ a.attempt = "delivered" /\ a.attempts = p.attempts
      /\ a.marker = p.marker /\ a.ingress = p.ingress /\ a.acked = p.acked
  BY DEF RowInv, Rows
<1>2. p.attempts <= a.attempts
  BY <1>1 DEF RowInv, Rows
<1> HIDE DEF a
<1>3. RowStory(a, n, t)
  BY <1>1 DEF RowStory
<1>4. QED BY <1>1, <1>2, <1>3 DEF Reports, Forward, a

\* The Node journal of a message: a stored invocation keeps its attempt.
NodeMove(r, n, n2) ==
  /\ n2.att = n.att \/ (n.inv = "none" /\ n2.att <= r.attempts)
  /\ Spent(n) => Spent(n2)

LEMMA NodeStory ==
  ASSUME NEW r, RowInv(r), NEW n, NEW n2, NEW t \in BOOLEAN, RowStory(r, n, t), NodeMove(r, n, n2)
  PROVE  RowStory(r, n2, t) /\ Forward(r, n, r, n2)
<1>1. r.attempts <= r.attempts
  BY DEF RowInv, Rows
<1>2. QED BY <1>1 DEF RowStory, NodeMove, Forward, Spent

\* A call keeps its story while its message moves forward.
LEMMA CallForward ==
  ASSUME NEW c \in Calls, NEW r, NEW n, NEW r2, NEW n2, RowInv(r), RowInv(r2),
         CallStory(c, r, n), Forward(r, n, r2, n2)
  PROVE  CallStory(c, r2, n2)
<1>1. c.att \in Nat /\ r.attempts \in Nat /\ r2.attempts \in Nat
  BY MaxAttemptsAssumption DEF Calls, RowInv, Rows
<1>2. QED BY <1>1 DEF CallStory, Forward

\* A step that touches one message and moves some calls.
LEMMA StoryStep ==
  ASSUME DeliveryInv, DeliveryInv', StoryInv, NEW m \in Messages,
         \A x \in Messages : x # m =>
           row'[x] = row[x] /\ node'[x] = node[x] /\ retained'[x] = retained[x],
         RowStory(row'[m], node'[m], retained'[m]),
         Forward(row[m], node[m], row'[m], node'[m]),
         \A v \in Workers : wk'[v] = wk[v] \/ CallStory(wk'[v], row'[wk'[v].m], node'[wk'[v].m]),
         LockInv'
  PROVE  StoryInv'
<1>1. \A x \in Messages : RowStory(row'[x], node'[x], retained'[x])
  BY DEF StoryInv
<1>2. ASSUME NEW v \in Workers PROVE CallStory(wk'[v], row'[wk'[v].m], node'[wk'[v].m])
  <2>1. CASE wk'[v] = wk[v] /\ wk[v].m = m
    <3>1. wk[v] \in Calls /\ RowInv(row[m]) /\ RowInv(row'[m]) /\ CallStory(wk[v], row[m], node[m])
      BY <2>1 DEF DeliveryInv, TypeOK, MessageInv, StoryInv
    <3>2. CallStory(wk[v], row'[m], node'[m])
      BY <3>1, CallForward
    <3>3. QED BY <2>1, <3>2
  <2>2. CASE wk'[v] = wk[v] /\ wk[v].m # m
    <3>1. wk[v].m \in Messages
      BY DEF DeliveryInv, TypeOK, Calls
    <3>2. QED BY <2>2, <3>1 DEF StoryInv
  <2>3. QED BY <2>1, <2>2
<1>3. QED BY <1>1, <1>2 DEF StoryInv

\* No step opens or marks an attempt of a message that a live wait reserved.
Held(m) ==
  row[m].ingress = "reserved" /\ lease[m] =>
    row'[m].attempts = row[m].attempts /\ row'[m].marker = row[m].marker

StoryNext == StoryInv' /\ \A m \in Messages : Held(m)

\* The locks: nobody moves, ...
LEMMA LockStays ==
  ASSUME DeliveryInv, StoryInv, UNCHANGED wk,
         \A x \in Messages : row'[x].marker = row[x].marker
  PROVE  LockInv'
<1>1. \A w \in Workers : wk[w].m \in Messages
  BY DEF DeliveryInv, TypeOK, Calls
<1>2. QED BY <1>1 DEF StoryInv, LockInv, Busy

\* ... a call moves on or ends, ...
LEMMA LockMoves ==
  ASSUME DeliveryInv, StoryInv, NEW w \in Workers, NEW c \in Calls, wk' = [wk EXCEPT ![w] = c],
         \/ c.pc = "idle" /\ c.session
         \/ Busy(w) /\ c.m = wk[w].m /\ c.session = wk[w].session /\ c.pc # "claimed",
         \A x \in Messages :
           row'[x].marker = row[x].marker \/ (x = wk[w].m /\ Busy(w) /\ c.pc # "claimed")
  PROVE  LockInv'
<1>1. \A v \in Workers : wk[v].m \in Messages
  BY DEF DeliveryInv, TypeOK, Calls
<1>2. wk'[w] = c /\ \A v \in Workers : v # w => wk'[v] = wk[v]
  BY DEF DeliveryInv, TypeOK
<1> SUFFICES ASSUME MaxSessionLosses = 0
             PROVE  /\ \A v \in Workers : wk'[v].session
                    /\ \A u, v \in Workers : wk'[u].pc # "idle" /\ wk'[v].pc # "idle" /\ wk'[u].m = wk'[v].m => u = v
                    /\ \A v \in Workers : wk'[v].pc = "claimed" => row'[wk'[v].m].marker = 0
  BY DEF LockInv, Busy
<1>3. /\ \A v \in Workers : wk[v].session
      /\ \A u, v \in Workers : wk[u].pc # "idle" /\ wk[v].pc # "idle" /\ wk[u].m = wk[v].m => u = v
      /\ \A v \in Workers : wk[v].pc = "claimed" => row[wk[v].m].marker = 0
  BY DEF StoryInv, LockInv, Busy
<1>4. \A v \in Workers : wk'[v].session
  BY <1>2, <1>3
<1>5. \A u, v \in Workers : wk'[u].pc # "idle" /\ wk'[v].pc # "idle" /\ wk'[u].m = wk'[v].m => u = v
  BY <1>2, <1>3 DEF Busy
<1>6. ASSUME NEW v \in Workers, wk'[v].pc = "claimed" PROVE row'[wk'[v].m].marker = 0
  <2>1. v # w /\ wk'[v] = wk[v]
    BY <1>2, <1>6
  <2>2. row'[wk[v].m].marker = row[wk[v].m].marker
    BY <1>1, <1>3, <1>6, <2>1 DEF Busy
  <2>3. QED BY <1>3, <1>6, <2>1, <2>2
<1>7. QED BY <1>4, <1>5, <1>6

\* ... or a call begins on a message whose lock is free.
LEMMA LockBegins ==
  ASSUME DeliveryInv, StoryInv, NEW w \in Workers, NEW m \in Messages, Begin(w, m),
         MessageFree(m), LocksOrNoWake => row[m].marker = 0,
         \A x \in Messages : row'[x].marker = row[x].marker
  PROVE  LockInv'
<1> DEFINE c == [Idle EXCEPT !.pc = "claimed", !.m = m]
<1>1. c.pc = "claimed" /\ c.m = m /\ c.session
  BY DEF Idle
<1>2. wk' = [wk EXCEPT ![w] = c]
  BY DEF Begin
<1> HIDE DEF c
<1>3. wk'[w] = c /\ \A v \in Workers : v # w => wk'[v] = wk[v] /\ wk[v].m \in Messages
  BY <1>2 DEF DeliveryInv, TypeOK, Calls
<1> SUFFICES ASSUME MaxSessionLosses = 0
             PROVE  /\ \A v \in Workers : wk'[v].session
                    /\ \A u, v \in Workers : wk'[u].pc # "idle" /\ wk'[v].pc # "idle" /\ wk'[u].m = wk'[v].m => u = v
                    /\ \A v \in Workers : wk'[v].pc = "claimed" => row'[wk'[v].m].marker = 0
  BY DEF LockInv, Busy
<1>4. /\ \A v \in Workers : wk[v].session
      /\ \A u, v \in Workers : wk[u].pc # "idle" /\ wk[v].pc # "idle" /\ wk[u].m = wk[v].m => u = v
      /\ \A v \in Workers : wk[v].pc = "claimed" => row[wk[v].m].marker = 0
      /\ row[m].marker = 0
  BY DEF StoryInv, LockInv, Busy, LocksOrNoWake
<1>5. \A v \in Workers : wk[v].pc # "idle" => wk[v].m # m
  BY <1>4 DEF MessageFree, Holds, Busy
<1>6. \A v \in Workers : wk'[v].session
  BY <1>1, <1>3, <1>4
<1>7. \A u, v \in Workers : wk'[u].pc # "idle" /\ wk'[v].pc # "idle" /\ wk'[u].m = wk'[v].m => u = v
  BY <1>1, <1>3, <1>4, <1>5
<1>8. \A v \in Workers : wk'[v].pc = "claimed" => row'[wk'[v].m].marker = 0
  BY <1>1, <1>3, <1>4
<1>9. QED BY <1>6, <1>7, <1>8

\* A commit that opens nothing, beside calls that stay.
LEMMA ReportStep ==
  ASSUME DeliveryInv, DeliveryInv', StoryInv, NEW m \in Messages, NEW r, Commit(m, r),
         UNCHANGED <<node, wk, retained>>,
         RowStory(r, node[m], retained[m]), Forward(row[m], node[m], r, node[m]),
         r.marker = row[m].marker,
         r.attempts = row[m].attempts \/ ~(row[m].ingress = "reserved" /\ lease[m])
  PROVE  StoryNext
<1>1. row'[m] = r /\ \A x \in Messages : x # m => row'[x] = row[x]
  BY DEF DeliveryInv, TypeOK, Commit
<1>2. LockInv'
  BY <1>1, LockStays
<1>3. StoryInv'
  BY <1>1, <1>2, StoryStep
<1>4. QED BY <1>1, <1>3 DEF StoryNext, Held

\* A commit that opens nothing, and with which call w ends.
LEMMA ReleaseStep ==
  ASSUME DeliveryInv, DeliveryInv', StoryInv, NEW m \in Messages, NEW r, Commit(m, r),
         UNCHANGED <<node, retained>>, NEW w \in Workers, Release(w),
         Reports(row[m], r, node[m], retained[m])
  PROVE  StoryNext
<1>1. row'[m] = r /\ \A x \in Messages : x # m => row'[x] = row[x]
  BY DEF DeliveryInv, TypeOK, Commit
<1>2. Idle.obs.status = "uncertain" /\ Idle.att = 0 /\ Idle.pc = "idle" /\ Idle.session
  BY DEF Idle, NoObservation
<1>3. Idle \in Calls /\ Idle.m \in Messages
  BY IdleCall DEF Calls
<1>4. RowInv(row'[Idle.m])
  BY <1>3 DEF DeliveryInv, MessageInv
<1>5. CallStory(Idle, row'[Idle.m], node'[Idle.m])
  <2>1. 0 <= row'[Idle.m].attempts
    BY <1>4, MaxAttemptsAssumption DEF RowInv, Rows
  <2>2. QED BY <1>2, <2>1 DEF CallStory
<1>6. wk'[w] = Idle /\ \A v \in Workers : v # w => wk'[v] = wk[v]
  BY DEF DeliveryInv, TypeOK, Release
<1>7. LockInv'
  BY <1>1, <1>2, <1>3, LockMoves DEF Reports, Release
<1>8. StoryInv'
  BY <1>1, <1>5, <1>6, <1>7, StoryStep DEF Reports
<1>9. QED BY <1>1, <1>8 DEF StoryNext, Held, Reports

\* A call moves on, and the journal of its message with it.
LEMMA JournalStep ==
  ASSUME DeliveryInv, DeliveryInv', StoryInv, NEW w \in Workers, NEW m \in Messages, m = wk[w].m,
         UNCHANGED <<row, retained>>, NEW n, node' = [node EXCEPT ![m] = n] \/ (n = node[m] /\ UNCHANGED node),
         NodeMove(row[m], node[m], n),
         NEW c \in Calls, wk' = [wk EXCEPT ![w] = c], Busy(w), c.m = m, c.session = wk[w].session,
         c.pc # "claimed", CallStory(c, row[m], n)
  PROVE  StoryNext
<1>1. node'[m] = n /\ \A x \in Messages : x # m => node'[x] = node[x]
  BY DEF DeliveryInv, TypeOK
<1>2. RowStory(row[m], n, retained[m]) /\ Forward(row[m], node[m], row[m], n)
  <2>1. RowInv(row[m]) /\ RowStory(row[m], node[m], retained[m]) /\ retained[m] \in BOOLEAN
    BY DEF DeliveryInv, MessageInv, StoryInv, TypeOK
  <2>2. QED BY <2>1, NodeStory
<1>3. wk'[w] = c /\ \A v \in Workers : v # w => wk'[v] = wk[v]
  BY DEF DeliveryInv, TypeOK
<1>4. LockInv'
  BY LockMoves
<1>5. StoryInv'
  BY <1>1, <1>2, <1>3, <1>4, StoryStep
<1>6. QED BY <1>5 DEF StoryNext, Held

\* The story of one message.
LEMMA MessageFacts ==
  ASSUME DeliveryInv, StoryInv, NEW m \in Messages
  PROVE  /\ RowInv(row[m]) /\ RowStory(row[m], node[m], retained[m]) /\ retained[m] \in BOOLEAN
         /\ node[m] \in NodeRows /\ MessageInv(row[m], node[m], native[m])
  BY DEF DeliveryInv, StoryInv, MessageInv, TypeOK

\* send_message.
LEMMA SendStory ==
  ASSUME DeliveryInv, DeliveryInv', StoryInv, NEW m \in Messages, Send(m)
  PROVE  StoryNext
<1> DEFINE queued == [UnsentRow EXCEPT !.state = "queued"]
<1>1. /\ row[m].state = "unsent" /\ Commit(m, Route(m)) /\ UNCHANGED <<node, wk, retained>>
  BY DEF Send, Commit, world
<1>2. row[m].attempts = 0 /\ row[m].marker = 0
  BY <1>1, MessageFacts, MaxAttemptsAssumption DEF RowInv, Rows
<1>3. /\ Route(m).attempts = 0 /\ Route(m).marker = 0 /\ Route(m).attempt = "none"
      /\ Route(m).state = "delivered" => Route(m).inbox = "authority_inbox"
      /\ Route(m).ingress = "reserved" => IngressRecovery
  <2>1. \/ Route(m) = queued
        \/ Route(m) = ToInbox(queued, "delivered") \/ Route(m) = ToInbox(queued, "blocked")
        \/ Route(m) = Reserve(queued) /\ IngressRecovery
    BY DEF Route
  <2>2. QED BY <2>1 DEF ToInbox, Reserve, UnsentRow
<1>4. /\ node[m].att <= 0
      /\ ~WakeEnabled /\ retained[m] => Spent(node[m])
  BY <1>1, <1>2, MessageFacts DEF RowStory
<1>5. RowStory(Route(m), node[m], retained[m])
  BY <1>3, <1>4 DEF RowStory, IngressOn
<1>6. Forward(row[m], node[m], Route(m), node[m])
  BY <1>1, <1>2, <1>3 DEF Forward
<1>7. QED BY <1>1, <1>2, <1>3, <1>5, <1>6, ReportStep

\* The claim transaction after gate: the message is open and not reserved, and
\* no live wait holds it.
LEMMA GatedStory ==
  ASSUME DeliveryInv, StoryInv, NEW m \in Messages, Claimable(m)
  PROVE  /\ Reports(row[m], Gated(m), node[m], retained[m]) /\ RowInv(Gated(m))
         /\ Gated(m).state \in OpenStates /\ Gated(m).state # "delivered" /\ Gated(m).state # "unsent"
         /\ Gated(m).ingress # "reserved" /\ Gated(m).attempt = row[m].attempt
         /\ RowStory(Gated(m), node[m], retained[m])
         /\ ~(row[m].ingress = "reserved" /\ lease[m])
         /\ row[m].attempt # "runtime_dispatched" /\ LocksOrNoWake => Gated(m).marker = 0
<1>1. RowInv(row[m]) /\ RowStory(row[m], node[m], retained[m]) /\ retained[m] \in BOOLEAN
  BY MessageFacts
<1>2. row[m].state \in OpenStates /\ (IngressOn => ~GateHolds(row[m], lease[m]))
  BY DEF Claimable
<1>3. RowInv(Gated(m))
  BY <1>1, GatedQuiet DEF Quiet
<1>4. /\ Reports(row[m], Gated(m), node[m], retained[m])
      /\ Gated(m).state \in OpenStates /\ Gated(m).attempt = row[m].attempt
      /\ Gated(m).ingress # "reserved"
  <2>1. CASE IngressOn
    BY <1>1, <1>2, <2>1, GateReports DEF Gated
  <2>2. CASE ~IngressOn
    <3>1. row[m].attempts <= row[m].attempts
      BY <1>1 DEF RowInv, Rows
    <3>2. QED BY <1>1, <1>2, <2>2, <3>1 DEF Gated, Reports, Forward, RowStory
  <2>3. QED BY <2>1, <2>2
<1>5. ~(row[m].ingress = "reserved" /\ lease[m])
  BY <1>1, <1>2 DEF RowStory, GateHolds
<1>6. row[m].attempt # "runtime_dispatched" /\ LocksOrNoWake => Gated(m).marker = 0
  BY <1>1, <1>2, <1>4 DEF RowStory, Reports, OpenStates
<1>7. QED BY <1>3, <1>4, <1>5, <1>6 DEF OpenStates, Reports

\* Claims that settle or defer a message without a call.
LEMMA ClaimStory ==
  ASSUME DeliveryInv, DeliveryInv', StoryInv, NEW m \in Messages, ClaimStep(m)
  PROVE  StoryNext
<1>1. RowInv(row[m]) /\ RowStory(row[m], node[m], retained[m]) /\ retained[m] \in BOOLEAN /\ node[m] \in NodeRows
  BY MessageFacts
<1>2. UNCHANGED <<node, wk, retained>>
  BY DEF ClaimStep, ClaimInterrupted, ClaimExhausted, ClaimDenied, ClaimSlotBusy, ClaimNoEndpoint,
         WakeReadback, world
<1>3. ASSUME NEW r, Commit(m, r), Reports(row[m], r, node[m], retained[m]) PROVE StoryNext
  BY <1>2, <1>3, ReportStep DEF Reports
<1>4. CASE ClaimInterrupted(m)
  <2>1. Reports(Gated(m), Finish(Gated(m), "uncertain"), node[m], retained[m])
    BY <1>1, <1>4, GatedStory, FinishReports DEF ClaimInterrupted, TerminalStates
  <2>2. QED BY <1>3, <1>4, <2>1, GatedStory, ReportsTwice DEF ClaimInterrupted
<1>5. CASE ClaimExhausted(m)
  <2>1. row[m].attempt # "runtime_dispatched"
    BY <1>5 DEF ClaimExhausted, Exhausted, OpenAttempt
  <2>2. Reports(Gated(m), Finish(Gated(m), "budget_exhausted"), node[m], retained[m])
    BY <1>1, <1>5, <2>1, GatedStory, FinishReports DEF ClaimExhausted, TerminalStates
  <2>3. QED BY <1>3, <1>5, <2>2, GatedStory, ReportsTwice DEF ClaimExhausted
<1>6. CASE ClaimDenied(m)
  <2>1. Claimable(m) /\ row[m].attempt # "runtime_dispatched"
    BY <1>6 DEF ClaimDenied, Admissible
  <2>2. Reports(Gated(m), Failure(Gated(m), auth[m]), node[m], retained[m])
    BY <1>1, <2>1, GatedStory, FailureReports
  <2>3. QED BY <1>3, <1>6, <2>1, <2>2, GatedStory, ReportsTwice DEF ClaimDenied
<1>7. CASE ClaimSlotBusy(m)
  <2>1. Claimable(m)
    BY <1>7 DEF ClaimSlotBusy, Admissible
  <2>2. Reports(Gated(m), DeferPrepared(Gated(m)), node[m], retained[m])
    BY <1>1, <2>1, GatedStory, DeferReports
  <2>3. QED BY <1>3, <1>7, <2>1, <2>2, GatedStory, ReportsTwice DEF ClaimSlotBusy
<1>8. CASE ClaimNoEndpoint(m)
  <2>1. Claimable(m) /\ row[m].attempt # "runtime_dispatched" /\ ~Exhausted(m)
    BY <1>8 DEF ClaimNoEndpoint, Admissible
  <2>2. CASE row[m].attempt = "prepared"
    <3>1. Reports(Gated(m), DeferPrepared(Gated(m)), node[m], retained[m])
      BY <1>1, <2>1, GatedStory, DeferReports
    <3>2. QED BY <1>3, <1>8, <2>1, <2>2, <3>1, GatedStory, ReportsTwice DEF ClaimNoEndpoint
  <2>3. CASE row[m].attempt # "prepared"
    <3>1. row[m].attempts < MaxAttempts
      BY <1>1, <2>1, <2>3, AdmissibleBudget DEF OpenAttempt
    <3>2. PICK g : g = Gated(m)
      OBVIOUS
    <3>3. /\ RowInv(g) /\ RowStory(g, node[m], retained[m]) /\ g.state \in OpenStates
          /\ g.attempt # "runtime_dispatched" /\ g.attempts = row[m].attempts /\ g.marker = row[m].marker
          /\ Forward(row[m], node[m], g, node[m]) /\ (LocksOrNoWake => g.marker = 0)
          /\ ~(row[m].ingress = "reserved" /\ lease[m])
      BY <2>1, <3>2, GatedStory DEF Reports
    <3>4. /\ RowStory(NewAttempt(g), node[m], retained[m]) /\ Forward(g, node[m], NewAttempt(g), node[m])
          /\ NewAttempt(g).marker = g.marker /\ NewAttempt(g).state # "delivered"
      BY <1>1, <3>1, <3>3, NewAttemptStory DEF OpenStates
    <3>5. RowInv(NewAttempt(g))
      BY <3>1, <3>3, NewAttemptQuiet DEF Quiet
    <3>6. Reports(NewAttempt(g), Failure(NewAttempt(g), "transport"), node[m], retained[m])
      BY <1>1, <3>3, <3>4, <3>5, FailureReports
    <3>7. PICK r : r = Failure(NewAttempt(g), "transport")
      OBVIOUS
    <3>8. Commit(m, r)
      BY <1>8, <2>3, <3>2, <3>7 DEF ClaimNoEndpoint
    <3>9. RowStory(r, node[m], retained[m]) /\ r.marker = row[m].marker
      BY <3>3, <3>4, <3>6, <3>7 DEF Reports
    <3>10. Forward(row[m], node[m], r, node[m])
      <4>1. Forward(row[m], node[m], NewAttempt(g), node[m])
        <5>1. row[m].attempts \in Nat /\ g.attempts \in Nat /\ NewAttempt(g).attempts \in Nat
          BY <1>1, <3>3, <3>5, MaxAttemptsAssumption DEF RowInv, Rows
        <5>2. QED BY <3>3, <3>4, <5>1 DEF Forward
      <4>2. QED BY <3>6, <3>7, <4>1 DEF Forward, Reports
    <3>11. QED BY <1>2, <3>3, <3>8, <3>9, <3>10, ReportStep
  <2>4. QED BY <2>2, <2>3
<1>9. CASE WakeReadback(m)
  <2>1. row[m].state \in OpenStates /\ row[m].marker = 0 /\ row[m].state # "delivered"
    BY <1>9 DEF WakeReadback, OpenStates
  <2>2. /\ Reports(row[m], Finish(row[m], "expired"), node[m], retained[m])
        /\ Reports(row[m], DeferPrepared(row[m]), node[m], retained[m])
    BY <1>1, <2>1, FinishReports, DeferReports DEF TerminalStates
  <2>3. QED BY <1>3, <1>9, <2>2 DEF WakeReadback
<1>10. QED BY <1>4, <1>5, <1>6, <1>7, <1>8, <1>9 DEF ClaimStep

\* Claims that start a call.
LEMMA BeginStory ==
  ASSUME DeliveryInv, DeliveryInv', StoryInv, NEW m \in Messages, NEW w \in Workers,
         ClaimReuse(w, m) \/ ClaimNew(w, m)
  PROVE  StoryNext
<1>1. RowInv(row[m]) /\ RowStory(row[m], node[m], retained[m]) /\ retained[m] \in BOOLEAN /\ node[m] \in NodeRows
  BY MessageFacts
<1>2. /\ Claimable(m) /\ row[m].attempt # "runtime_dispatched" /\ ~Exhausted(m) /\ MessageFree(m)
      /\ Begin(w, m) /\ UNCHANGED <<node, retained>>
  BY DEF ClaimReuse, ClaimNew, Admissible, Claimable, world
<1>3. PICK g : g = Gated(m)
  OBVIOUS
<1>4. /\ RowInv(g) /\ RowStory(g, node[m], retained[m]) /\ g.state \in OpenStates /\ g.ingress # "reserved"
      /\ g.attempt # "runtime_dispatched" /\ g.attempts = row[m].attempts /\ g.marker = row[m].marker
      /\ Forward(row[m], node[m], g, node[m]) /\ (LocksOrNoWake => g.marker = 0)
      /\ ~(row[m].ingress = "reserved" /\ lease[m])
  BY <1>2, <1>3, GatedStory DEF Reports
<1>5. PICK r : /\ Commit(m, r) /\ RowStory(r, node[m], retained[m]) /\ Forward(row[m], node[m], r, node[m])
               /\ r.marker = row[m].marker /\ r.ingress # "reserved" /\ r.state \in OpenStates
  <2>1. CASE ClaimReuse(w, m)
    BY <1>3, <1>4, <2>1 DEF ClaimReuse
  <2>2. CASE ClaimNew(w, m)
    <3>1. row[m].attempts < MaxAttempts
      BY <1>1, <1>2, <2>2, AdmissibleBudget DEF ClaimNew, OpenAttempt
    <3>2. /\ RowStory(NewAttempt(g), node[m], retained[m]) /\ Forward(g, node[m], NewAttempt(g), node[m])
          /\ NewAttempt(g).marker = g.marker /\ NewAttempt(g).state \in OpenStates
          /\ NewAttempt(g).ingress = g.ingress
      BY <1>1, <1>4, <3>1, NewAttemptStory
    <3>3. RowInv(NewAttempt(g))
      BY <1>4, <3>1, NewAttemptQuiet DEF Quiet
    <3>4. Forward(row[m], node[m], NewAttempt(g), node[m])
      <4>1. row[m].attempts \in Nat /\ g.attempts \in Nat /\ NewAttempt(g).attempts \in Nat
        BY <1>1, <1>4, <3>3, MaxAttemptsAssumption DEF RowInv, Rows
      <4>2. QED BY <1>4, <3>2, <4>1 DEF Forward
    <3>5. Commit(m, NewAttempt(g))
      BY <1>3, <2>2 DEF ClaimNew
    <3>6. QED BY <1>4, <3>2, <3>4, <3>5
  <2>3. QED BY <2>1, <2>2
<1>6. row'[m] = r /\ \A x \in Messages : x # m => row'[x] = row[x]
  BY <1>5 DEF DeliveryInv, TypeOK, Commit
<1>7. LockInv'
  BY <1>2, <1>4, <1>5, <1>6, LockBegins
<1>8. CallStory(wk'[w], row'[wk'[w].m], node'[wk'[w].m]) /\ \A v \in Workers : v # w => wk'[v] = wk[v]
  <2> DEFINE c == [Idle EXCEPT !.pc = "claimed", !.m = m]
  <2>1. c.obs.status = "uncertain" /\ c.att = 0 /\ c.pc = "claimed" /\ c.m = m
    BY DEF Idle, NoObservation
  <2>2. wk' = [wk EXCEPT ![w] = c]
    BY <1>2 DEF Begin
  <2> HIDE DEF c
  <2>3. wk'[w] = c /\ \A v \in Workers : v # w => wk'[v] = wk[v]
    BY <2>2 DEF DeliveryInv, TypeOK
  <2>4. 0 <= row'[m].attempts
    <3>1. RowInv(row'[m])
      BY DEF DeliveryInv, MessageInv
    <3>2. QED BY <3>1, MaxAttemptsAssumption DEF RowInv, Rows
  <2>5. CallStory(c, row'[m], node'[m])
    BY <1>5, <1>6, <2>1, <2>4 DEF CallStory, OpenStates
  <2>6. QED BY <2>1, <2>3, <2>5
<1>9. StoryInv'
  BY <1>2, <1>5, <1>6, <1>7, <1>8, StoryStep
<1>10. QED BY <1>4, <1>6, <1>9 DEF StoryNext, Held

\* Neither rows nor calls change.
LEMMA WorldStory ==
  ASSUME DeliveryInv, StoryInv, UNCHANGED <<row, node, wk, retained>>
  PROVE  StoryNext
  BY DEF StoryInv, StoryNext, Held, LockInv, Busy

\* Reply waits.
LEMMA WaitStory ==
  ASSUME DeliveryInv, DeliveryInv', StoryInv, NEW m \in Messages, WaitStep(m)
  PROVE  StoryNext
<1>1. RowInv(row[m]) /\ RowStory(row[m], node[m], retained[m]) /\ retained[m] \in BOOLEAN
  BY MessageFacts
<1>2. CASE RetainReply(m) /\ Retainable(m)
  <2> DEFINE r == Retain(row[m], IngressOn)
  <2>1. /\ Commit(m, r) /\ retained' = [retained EXCEPT ![m] = TRUE] /\ row[m].marker = 0
        /\ UNCHANGED <<node, wk>>
    BY <1>2 DEF RetainReply, Retainable
  <2>2. Reports(row[m], r, node[m], TRUE)
    BY <1>1, <2>1, RetainStory
  <2> HIDE DEF r
  <2>3. row'[m] = r /\ \A x \in Messages : x # m => row'[x] = row[x]
    BY <2>1 DEF DeliveryInv, TypeOK, Commit
  <2>4. retained'[m] = TRUE /\ \A x \in Messages : x # m => retained'[x] = retained[x]
    BY <2>1 DEF DeliveryInv, TypeOK
  <2>5. LockInv'
    BY <2>1, <2>2, <2>3, LockStays DEF Reports
  <2>6. StoryInv'
    BY <2>1, <2>2, <2>3, <2>4, <2>5, StoryStep DEF Reports
  <2>7. QED BY <2>2, <2>3, <2>6 DEF StoryNext, Held, Reports
<1>3. CASE Reclaim(m)
  BY <1>1, <1>3, GateReports, ReportStep DEF Reclaim, Reports, world
<1>4. CASE \/ RetainReply(m) /\ ~Retainable(m)
           \/ RegisterWait(m) \/ ReadReply(m) \/ LeaveEarly(m) \/ EndWait(m)
           \/ WaiterDies(m) \/ LeaseExpires(m)
  BY <1>4, WorldStory DEF RetainReply, RegisterWait, ReadReply, LeaveEarly, EndWait, WaiterDies, LeaseExpires, ledger
<1>5. QED BY <1>2, <1>3, <1>4 DEF WaitStep

\* The observer and the reconciliation of the Node journal.
LEMMA ReadbackStory ==
  ASSUME DeliveryInv, DeliveryInv', StoryInv, NEW m \in Messages, ObserveDelivered(m) \/ ReconcileNode(m)
  PROVE  StoryNext
<1>1. /\ RowInv(row[m]) /\ RowStory(row[m], node[m], retained[m]) /\ retained[m] \in BOOLEAN
      /\ node[m] \in NodeRows /\ MessageInv(row[m], node[m], native[m])
  BY MessageFacts
<1>2. CASE ObserveDelivered(m)
  <2> DEFINE seen == Inspect(node[m], "uncertain")
             p == Project(row[m], seen)
  <2>1. seen \in Observations /\ seen.disp = node[m].disp /\ seen.acked = node[m].ack
    BY <1>1, InspectFits
  <2>2. /\ seen.acked /\ ~ProjectionRefused(row[m], seen) /\ UNCHANGED <<node, wk, retained>>
        /\ Commit(m, [p EXCEPT !.state = "delivered", !.attempt = "delivered"])
    BY <1>2 DEF ObserveDelivered, world
  <2> HIDE DEF seen
  <2>3. RowInv(p) /\ Reports(row[m], p, node[m], retained[m]) /\ p.acked
    <3>1. seen.disp # 0 => seen.disp = row[m].marker
      BY <1>1, <2>1 DEF MessageInv
    <3>2. seen.acked /\ ~ProjectionRefused(row[m], seen)
      BY <2>2
    <3>3. RowInv(p)
      BY <1>1, <2>1, <3>1, ProjectRow
    <3>4. /\ Reports(row[m], p, node[m], retained[m])
          /\ p.acked = (row[m].acked \/ seen.acked)
      BY <1>1, <2>1, <3>1, <3>2, ProjectReports
    <3>5. QED BY <3>2, <3>3, <3>4
  <2> HIDE DEF p
  <2>4. Reports(p, [p EXCEPT !.state = "delivered", !.attempt = "delivered"], node[m], retained[m])
    BY <1>1, <2>3, ObservedStory DEF Reports
  <2>5. PICK r : r = [p EXCEPT !.state = "delivered", !.attempt = "delivered"]
    OBVIOUS
  <2>6. Commit(m, r) /\ Reports(row[m], r, node[m], retained[m])
    BY <2>2, <2>3, <2>4, <2>5, ReportsTwice
  <2>7. QED BY <2>2, <2>6, ReportStep DEF Reports
<1>3. CASE ReconcileNode(m)
  <2> DEFINE n == [node[m] EXCEPT !.ack = TRUE, !.inv = "acknowledged"]
  <2>1. node' = [node EXCEPT ![m] = n] /\ UNCHANGED <<row, wk, retained>>
    BY <1>3 DEF ReconcileNode, Journal, world
  <2>2. n.att = node[m].att /\ n.inv = "acknowledged"
    BY <1>1 DEF NodeRows
  <2> HIDE DEF n
  <2>3. node'[m] = n /\ \A x \in Messages : x # m => node'[x] = node[x]
    BY <2>1 DEF DeliveryInv, TypeOK
  <2>4. RowStory(row[m], n, retained[m]) /\ Forward(row[m], node[m], row[m], n)
    BY <1>1, <2>2, NodeStory DEF NodeMove, Spent
  <2>5. LockInv'
    BY <2>1, LockStays
  <2>6. StoryInv'
    BY <2>1, <2>3, <2>4, <2>5, StoryStep
  <2>7. QED BY <2>1, <2>6 DEF StoryNext, Held
<1>4. QED BY <1>2, <1>3

\* A busy call, its message and its journal.
LEMMA CallStoryFacts ==
  ASSUME DeliveryInv, StoryInv, NEW w \in Workers
  PROVE  /\ wk[w] \in Calls /\ wk[w].m \in Messages
         /\ CallStory(wk[w], row[wk[w].m], node[wk[w].m])
         /\ RowInv(row[wk[w].m]) /\ node[wk[w].m] \in NodeRows
         /\ RowStory(row[wk[w].m], node[wk[w].m], retained[wk[w].m]) /\ retained[wk[w].m] \in BOOLEAN
<1>1. wk[w] \in Calls /\ wk[w].m \in Messages
  BY DEF DeliveryInv, TypeOK, Calls
<1>2. QED BY <1>1, MessageFacts DEF StoryInv

\* The journal of a message stays as it is.
LEMMA NodeStays ==
  ASSUME NEW r, NEW n
  PROVE  NodeMove(r, n, n)
  BY DEF NodeMove

\* A call raises.
LEMMA FailStory ==
  ASSUME DeliveryInv, DeliveryInv', StoryInv, NEW w \in Workers, Busy(w), NEW e \in Errors,
         Fail(w, e), UNCHANGED <<row, node, retained>>
  PROVE  StoryNext
<1>0. PICK m \in Messages : m = wk[w].m
  BY CallStoryFacts
<1>1. PICK n : n = node[m]
  OBVIOUS
<1>2. PICK c : c = [wk[w] EXCEPT !.pc = "failed", !.err = e]
  OBVIOUS
<1>3. /\ c \in Calls /\ c.pc = "failed" /\ c.m = m /\ c.obs = wk[w].obs /\ c.att = wk[w].att
      /\ c.session = wk[w].session
  BY <1>0, <1>1, <1>2, CallStoryFacts DEF Calls, Pcs
<1>4. wk' = [wk EXCEPT ![w] = c]
  BY <1>2 DEF Fail
<1>5. CallStory(c, row[m], n)
  BY <1>0, <1>1, <1>3, CallStoryFacts DEF CallStory, Busy
<1>6. NodeMove(row[m], node[m], n)
  BY <1>0, <1>1, NodeStays
<1>7. QED BY <1>0, <1>1, <1>3, <1>4, <1>5, <1>6, JournalStep

\* A call goes on to its next step.
LEMMA GotoStory ==
  ASSUME DeliveryInv, DeliveryInv', StoryInv, NEW w \in Workers, Busy(w),
         NEW p \in {"fenced", "boundary", "marked", "called"},
         Goto(w, p), UNCHANGED <<row, node, retained>>
  PROVE  StoryNext
<1>0. PICK m \in Messages : m = wk[w].m
  BY CallStoryFacts
<1>1. PICK n : n = node[m]
  OBVIOUS
<1>2. PICK c : c = [wk[w] EXCEPT !.pc = p]
  OBVIOUS
<1>3. /\ c \in Calls /\ c.pc = p /\ c.m = m /\ c.obs = wk[w].obs /\ c.att = wk[w].att
      /\ c.session = wk[w].session
  BY <1>0, <1>1, <1>2, CallStoryFacts DEF Calls, Pcs, InFence
<1>4. wk' = [wk EXCEPT ![w] = c]
  BY <1>2 DEF Goto
<1>5. CallStory(c, row[m], n)
  BY <1>0, <1>1, <1>3, CallStoryFacts DEF CallStory, Busy
<1>6. NodeMove(row[m], node[m], n)
  BY <1>0, <1>1, NodeStays
<1>7. QED BY <1>0, <1>1, <1>3, <1>4, <1>5, <1>6, JournalStep

\* What a call returns from the journal n.
LEMMA ReturnedCall ==
  ASSUME DeliveryInv, StoryInv, NEW w \in Workers, Busy(w), NEW n \in NodeRows, Spent(n),
         NEW c, c = [wk[w] EXCEPT !.pc = "returned", !.obs = Inspect(n, "uncertain")]
  PROVE  /\ c \in Calls /\ c.m = wk[w].m /\ c.session = wk[w].session /\ c.pc = "returned"
         /\ CallStory(c, row[wk[w].m], n)
<1> DEFINE o == Inspect(n, "uncertain")
<1>1. o \in Observations /\ o.status \in {"uncertain", "delivered"} /\ (o.status = "delivered" => o.acked)
  BY InspectFits DEF Inspect, NodeRows
<1> HIDE DEF o
<1>2. c = [wk[w] EXCEPT !.pc = "returned", !.obs = o]
  BY DEF o
<1>3. /\ c \in Calls /\ c.m = wk[w].m /\ c.session = wk[w].session /\ c.pc = "returned"
      /\ c.obs = o /\ c.att = wk[w].att
  BY <1>1, <1>2, CallStoryFacts DEF Calls, Pcs
<1>4. QED BY <1>1, <1>3, CallStoryFacts DEF CallStory, Busy

\* The Node answers, and leaves the invocation spent.
LEMMA AnswerStory ==
  ASSUME DeliveryInv, DeliveryInv', StoryInv, NEW w \in Workers, Busy(w), NEW n \in NodeRows,
         Spent(n), n.att = node[wk[w].m].att,
         NodeAnswers(w, n) \/ (n = node[wk[w].m] /\ Return(w, Inspect(n, "uncertain")) /\ UNCHANGED node),
         UNCHANGED <<row, retained>>
  PROVE  StoryNext
<1>1. PICK m \in Messages : m = wk[w].m
  BY CallStoryFacts
<1>2. PICK c : c = [wk[w] EXCEPT !.pc = "returned", !.obs = Inspect(n, "uncertain")]
  OBVIOUS
<1>3. c \in Calls /\ c.m = m /\ c.session = wk[w].session /\ c.pc = "returned" /\ CallStory(c, row[m], n)
  BY <1>1, <1>2, ReturnedCall
<1>4. /\ wk' = [wk EXCEPT ![w] = c]
      /\ node' = [node EXCEPT ![m] = n] \/ (n = node[m] /\ UNCHANGED node)
  BY <1>1, <1>2 DEF NodeAnswers, Return, Journal
<1>5. NodeMove(row[m], node[m], n)
  BY <1>1 DEF NodeMove
<1>6. QED BY <1>1, <1>3, <1>4, <1>5, JournalStep

\* An invocation that was not made is rejected.
LEMMA RejectStory ==
  ASSUME DeliveryInv, DeliveryInv', StoryInv, NEW w \in Workers, Busy(w),
         RejectPreCall(w), UNCHANGED <<row, retained>>
  PROVE  StoryNext
<1>1. PICK m \in Messages : m = wk[w].m
  BY CallStoryFacts
<1>2. PICK n, c : /\ n = [node[m] EXCEPT !.inv = "pre_call_rejected"]
                  /\ c = [wk[w] EXCEPT !.pc = "failed", !.err = "rejected"]
  OBVIOUS
<1>3. /\ c \in Calls /\ c.pc = "failed" /\ c.m = m /\ c.obs = wk[w].obs /\ c.att = wk[w].att
      /\ c.session = wk[w].session
  BY <1>1, <1>2, CallStoryFacts DEF Calls, Pcs, Errors
<1>4. n.att = node[m].att /\ n.inv = "pre_call_rejected"
  BY <1>1, <1>2, CallStoryFacts DEF NodeRows
<1>5. wk' = [wk EXCEPT ![w] = c] /\ node' = [node EXCEPT ![m] = n]
  BY <1>1, <1>2 DEF RejectPreCall, Fail, Journal
<1>6. CallStory(c, row[m], n) /\ NodeMove(row[m], node[m], n)
  BY <1>1, <1>3, <1>4, CallStoryFacts DEF CallStory, Busy, NodeMove, Spent
<1>7. QED BY <1>1, <1>3, <1>5, <1>6, JournalStep

\* _commit_inbox reads the current attempt.
LEMMA InboxStory ==
  ASSUME DeliveryInv, DeliveryInv', StoryInv, NEW w \in Workers, CommitInbox(w)
  PROVE  StoryNext
<1>1. PICK m \in Messages : m = wk[w].m
  BY CallStoryFacts
<1>2. PICK n, c : /\ n = [node[m] EXCEPT !.inbox = TRUE]
                  /\ c = [wk[w] EXCEPT !.pc = "inboxed", !.att = row[m].attempts]
  OBVIOUS
<1>3. row[m].attempts \in 0 .. MaxAttempts /\ row[m].attempts <= row[m].attempts
  BY <1>1, CallStoryFacts DEF RowInv, Rows
<1>4. /\ c \in Calls /\ c.pc = "inboxed" /\ c.m = m /\ c.obs = wk[w].obs /\ c.att = row[m].attempts
      /\ c.session = wk[w].session
  BY <1>1, <1>2, <1>3, CallStoryFacts DEF Calls, Pcs
<1>5. n.att = node[m].att /\ n.inv = node[m].inv
  BY <1>1, <1>2, CallStoryFacts DEF NodeRows
<1>6. /\ wk' = [wk EXCEPT ![w] = c] /\ node' = [node EXCEPT ![m] = n]
      /\ UNCHANGED <<row, retained>> /\ Busy(w)
  BY <1>1, <1>2 DEF CommitInbox, Journal, Busy, world
<1>7. CallStory(c, row[m], n) /\ NodeMove(row[m], node[m], n)
  BY <1>1, <1>3, <1>4, <1>5, <1>6, CallStoryFacts DEF CallStory, Busy, NodeMove, Spent
<1>8. QED BY <1>1, <1>4, <1>6, <1>7, JournalStep

\* The fence stores the invocation of the attempt that was read, or reads back.
LEMMA FenceStory ==
  ASSUME DeliveryInv, DeliveryInv', StoryInv, NEW w \in Workers, Fence(w)
  PROVE  StoryNext
<1>1. PICK m \in Messages : m = wk[w].m
  BY CallStoryFacts
<1>2. Busy(w) /\ UNCHANGED <<row, retained>>
  BY DEF Fence, Busy, world
<1>3. CASE /\ node[m].inv = "none" /\ Goto(w, "fenced")
           /\ Journal(m, [node[m] EXCEPT !.inv = "prepared", !.att = wk[w].att])
  <2>1. PICK n, c : /\ n = [node[m] EXCEPT !.inv = "prepared", !.att = wk[w].att]
                    /\ c = [wk[w] EXCEPT !.pc = "fenced"]
    OBVIOUS
  <2>2. /\ c \in Calls /\ c.pc = "fenced" /\ c.m = m /\ c.obs = wk[w].obs /\ c.att = wk[w].att
        /\ c.session = wk[w].session
    BY <1>1, <2>1, CallStoryFacts DEF Calls, Pcs
  <2>3. n.att = wk[w].att /\ n.inv = "prepared"
    BY <1>1, <2>1, CallStoryFacts DEF NodeRows
  <2>4. wk' = [wk EXCEPT ![w] = c] /\ node' = [node EXCEPT ![m] = n]
    BY <1>3, <2>1 DEF Goto, Journal
  <2>5. CallStory(c, row[m], n) /\ NodeMove(row[m], node[m], n)
    BY <1>1, <1>2, <1>3, <2>2, <2>3, CallStoryFacts DEF CallStory, Busy, NodeMove, Spent
  <2>6. QED BY <1>1, <1>2, <2>2, <2>4, <2>5, JournalStep
<1>4. CASE (Goto(w, "fenced") \/ Fail(w, "boundary")) /\ UNCHANGED node
  BY <1>2, <1>4, GotoStory, FailStory DEF Errors
<1>5. CASE /\ node[m].inv \notin {"none", "prepared"} /\ Return(w, Inspect(node[m], "uncertain"))
           /\ UNCHANGED node
  <2>1. PICK n \in NodeRows : n = node[m]
    BY <1>1, CallStoryFacts
  <2>2. QED BY <1>1, <1>2, <1>5, <2>1, AnswerStory DEF Spent
<1>6. QED BY <1>1, <1>3, <1>4, <1>5 DEF Fence

\* What mark_dispatched found: the attempt it marks is the stored one, and no
\* wait holds the message.
LEMMA MarkableStory ==
  ASSUME DeliveryInv, StoryInv, NEW w \in Workers, Markable(w)
  PROVE  /\ row[wk[w].m].attempt = "prepared" /\ row[wk[w].m].state # "delivered"
         /\ wk[w].att = row[wk[w].m].attempts /\ node[wk[w].m].att = wk[w].att
         /\ node[wk[w].m].inv # "none" /\ Busy(w) /\ row[wk[w].m].ingress # "reserved"
<1>1. /\ row[wk[w].m].attempt = "prepared" /\ row[wk[w].m].state # "delivered"
      /\ wk[w].att = row[wk[w].m].attempts /\ wk[w].pc = "boundary"
  BY DEF Markable, Unmarkable
<1>2. QED BY <1>1, CallFacts, CallStoryFacts DEF CallInv, InFence, CallStory, Busy

\* The marker commit, whatever becomes of the call and the Node transaction.
LEMMA MarkedStep ==
  ASSUME DeliveryInv, DeliveryInv', StoryInv, NEW w \in Workers, Markable(w),
         Commit(wk[w].m, RecordMarker(row[wk[w].m], wk[w].att)), UNCHANGED retained,
         NEW m \in Messages, m = wk[w].m,
         NEW n, node' = [node EXCEPT ![m] = n] \/ (n = node[m] /\ UNCHANGED node),
         NodeMove(row[m], node[m], n),
         NEW c \in Calls, wk' = [wk EXCEPT ![w] = c], c.m = m, c.session = wk[w].session,
         c.pc # "claimed", CallStory(c, row[m], n)
  PROVE  StoryNext
<1>1. PICK r : r = RecordMarker(row[m], row[m].attempts)
  OBVIOUS
<1>2. /\ row[m].attempt = "prepared" /\ row[m].state # "delivered"
      /\ wk[w].att = row[m].attempts /\ node[m].att = row[m].attempts
      /\ node[m].inv # "none" /\ Busy(w) /\ row[m].ingress # "reserved"
  BY MarkableStory
<1>3. row'[m] = r /\ \A x \in Messages : x # m => row'[x] = row[x]
  BY <1>1, <1>2 DEF DeliveryInv, TypeOK, Commit
<1>4. node'[m] = n /\ \A x \in Messages : x # m => node'[x] = node[x]
  BY DEF DeliveryInv, TypeOK
<1>5. /\ RowInv(row[m]) /\ RowStory(row[m], node[m], retained[m]) /\ retained[m] \in BOOLEAN
      /\ RowInv(row'[m])
  BY MessageFacts DEF DeliveryInv, MessageInv
<1>6. RowStory(row[m], n, retained[m]) /\ Forward(row[m], node[m], row[m], n)
  BY <1>5, NodeStory
<1>7. n.att = row[m].attempts
  BY <1>2 DEF NodeMove
<1>8. RowStory(r, n, retained[m]) /\ Forward(row[m], n, r, n)
  BY <1>1, <1>2, <1>5, <1>6, <1>7, MarkerStory
<1>9. Forward(row[m], node[m], r, n)
  BY <1>6, <1>8 DEF Forward
<1>10. CallStory(c, r, n)
  BY <1>3, <1>5, <1>8, CallForward
<1>11. wk'[w] = c /\ \A v \in Workers : v # w => wk'[v] = wk[v]
  BY DEF DeliveryInv, TypeOK
<1>12. LockInv'
  BY <1>2, <1>3, LockMoves
<1>13. StoryInv'
  BY <1>3, <1>4, <1>8, <1>9, <1>10, <1>11, <1>12, StoryStep
<1>14. QED BY <1>2, <1>3, <1>13 DEF StoryNext, Held

\* An invocation in doubt is spent.
LEMMA DoubtSpent ==
  ASSUME NEW n \in NodeRows, n.inv # "none"
  PROVE  Doubt(n) \in NodeRows /\ Spent(Doubt(n)) /\ Doubt(n).att = n.att
<1> DEFINE i == IF n.inv = "prepared" THEN "uncertain" ELSE n.inv
<1>1. i \in Invocations /\ i \notin {"none", "prepared"}
  BY DEF NodeRows, Invocations
<1>2. Doubt(n) = [n EXCEPT !.inv = i]
  BY DEF Doubt
<1> HIDE DEF i
<1>3. QED BY <1>1, <1>2 DEF NodeRows, Spent

\* The Node answers in doubt.
LEMMA DoubtStory ==
  ASSUME DeliveryInv, DeliveryInv', StoryInv, NEW w \in Workers, wk[w].pc = "boundary",
         \/ NodeAnswers(w, Doubt(node[wk[w].m]))
         \/ NodeAnswers(w, [node[wk[w].m] EXCEPT !.inv = "uncertain"]),
         UNCHANGED <<row, retained>>
  PROVE  StoryNext
<1>1. Busy(w) /\ node[wk[w].m].inv # "none" /\ node[wk[w].m] \in NodeRows
  BY CallFacts DEF CallInv, InFence, Busy
<1>2. CASE NodeAnswers(w, Doubt(node[wk[w].m]))
  <2>1. PICK n : n = Doubt(node[wk[w].m])
    OBVIOUS
  <2>2. n \in NodeRows /\ Spent(n) /\ n.att = node[wk[w].m].att /\ NodeAnswers(w, n)
    BY <1>1, <1>2, <2>1, DoubtSpent
  <2>3. QED BY <1>1, <2>2, AnswerStory
<1>3. CASE NodeAnswers(w, [node[wk[w].m] EXCEPT !.inv = "uncertain"])
  <2>1. PICK n : n = [node[wk[w].m] EXCEPT !.inv = "uncertain"]
    OBVIOUS
  <2>2. n \in NodeRows /\ Spent(n) /\ n.att = node[wk[w].m].att
    BY <1>1, <2>1 DEF NodeRows, Invocations, Spent
  <2>3. NodeAnswers(w, n)
    BY <1>3, <2>1
  <2>4. QED BY <1>1, <2>2, <2>3, AnswerStory
<1>4. QED BY <1>2, <1>3

\* mark_dispatched, also when its connection breaks around the commit.
LEMMA MarkStory ==
  ASSUME DeliveryInv, DeliveryInv', StoryInv, NEW w \in Workers, Mark(w) \/ MarkLost(w)
  PROVE  StoryNext
<1>1. PICK m \in Messages : m = wk[w].m
  BY CallStoryFacts
<1>2. Markable(w) /\ UNCHANGED retained /\ wk[w].pc = "boundary"
  BY DEF Mark, MarkLost, Markable, world
<1>3. Busy(w) /\ node[m].inv # "none" /\ node[m] \in NodeRows
  BY <1>1, <1>2, MarkableStory, CallStoryFacts
<1>4. CASE Mark(w)
  <2>1. PICK c : c = [wk[w] EXCEPT !.pc = "marked"]
    OBVIOUS
  <2>2. /\ c \in Calls /\ c.pc = "marked" /\ c.m = m /\ c.obs = wk[w].obs /\ c.att = wk[w].att
        /\ c.session = wk[w].session
    BY <1>1, <2>1, CallStoryFacts DEF Calls, Pcs, InFence
  <2>3. wk' = [wk EXCEPT ![w] = c] /\ UNCHANGED node /\ Commit(wk[w].m, RecordMarker(row[wk[w].m], wk[w].att))
    BY <1>4, <2>1 DEF Mark, Goto
  <2>4. PICK n : n = node[m]
    OBVIOUS
  <2>5. CallStory(c, row[m], n) /\ NodeMove(row[m], node[m], n)
    BY <1>1, <1>3, <2>2, <2>4, CallStoryFacts, NodeStays DEF CallStory, Busy
  <2>6. QED BY <1>1, <1>2, <2>2, <2>3, <2>4, <2>5, MarkedStep
<1>5. CASE MarkLost(w) /\ UNCHANGED row
  <2>1. CASE Fail(w, "transport") /\ UNCHANGED node
    BY <1>2, <1>3, <1>5, <2>1, FailStory DEF Errors
  <2>2. CASE NodeAnswers(w, Doubt(node[wk[w].m]))
    BY <1>2, <1>5, <2>2, DoubtStory
  <2>3. QED BY <1>5, <2>1, <2>2 DEF MarkLost
<1>6. CASE MarkLost(w) /\ Commit(wk[w].m, RecordMarker(row[wk[w].m], wk[w].att))
  <2>1. CASE Fail(w, "transport") /\ UNCHANGED node
    <3>1. PICK c : c = [wk[w] EXCEPT !.pc = "failed", !.err = "transport"]
      OBVIOUS
    <3>2. /\ c \in Calls /\ c.pc = "failed" /\ c.m = m /\ c.obs = wk[w].obs /\ c.att = wk[w].att
          /\ c.session = wk[w].session
      BY <1>1, <3>1, CallStoryFacts DEF Calls, Pcs, Errors
    <3>3. wk' = [wk EXCEPT ![w] = c]
      BY <2>1, <3>1 DEF Fail
    <3>4. PICK n : n = node[m]
      OBVIOUS
    <3>5. CallStory(c, row[m], n) /\ NodeMove(row[m], node[m], n)
      BY <1>1, <1>3, <3>2, <3>4, CallStoryFacts, NodeStays DEF CallStory, Busy
    <3>6. QED BY <1>1, <1>2, <1>6, <2>1, <3>2, <3>3, <3>4, <3>5, MarkedStep
  <2>2. CASE NodeAnswers(w, Doubt(node[wk[w].m]))
    <3>1. PICK n : n = Doubt(node[m])
      OBVIOUS
    <3>2. n \in NodeRows /\ Spent(n) /\ n.att = node[m].att
      BY <1>3, <3>1, DoubtSpent
    <3>3. PICK c : c = [wk[w] EXCEPT !.pc = "returned", !.obs = Inspect(n, "uncertain")]
      OBVIOUS
    <3>4. /\ c \in Calls /\ c.m = m /\ c.session = wk[w].session /\ c.pc = "returned"
          /\ CallStory(c, row[m], n)
      BY <1>1, <1>3, <3>2, <3>3, ReturnedCall
    <3>5. wk' = [wk EXCEPT ![w] = c] /\ node' = [node EXCEPT ![m] = n]
      BY <1>1, <2>2, <3>1, <3>3 DEF NodeAnswers, Return, Journal
    <3>6. NodeMove(row[m], node[m], n)
      BY <3>2 DEF NodeMove
    <3>7. QED BY <1>1, <1>2, <1>6, <3>4, <3>5, <3>6, MarkedStep
  <2>3. QED BY <1>6, <2>1, <2>2 DEF MarkLost
<1>7. QED BY <1>4, <1>5, <1>6 DEF MarkLost

\* The outcome of the driver after the marker.
LEMMA OutcomeStory ==
  ASSUME DeliveryInv, DeliveryInv', StoryInv, NEW w \in Workers, DriverStops(w) \/ CommitInvocation(w)
  PROVE  StoryNext
<1>1. PICK m \in Messages : m = wk[w].m
  BY CallStoryFacts
<1>2. Busy(w) /\ UNCHANGED <<row, retained>> /\ node[m] \in NodeRows /\ wk[w].att \in 0 .. MaxAttempts
  BY <1>1, CallStoryFacts DEF DriverStops, CommitInvocation, Busy, world, Calls
<1>3. CASE DriverStops(w)
  <2>1. PICK n : n = [node[m] EXCEPT !.disp = wk[w].att, !.inv = "uncertain"]
    OBVIOUS
  <2>2. n \in NodeRows /\ n.inv = "uncertain" /\ n.att = node[m].att
    BY <1>2, <2>1 DEF NodeRows, Invocations
  <2>3. NodeAnswers(w, n)
    BY <1>1, <1>3, <2>1 DEF DriverStops
  <2>4. QED BY <1>1, <1>2, <2>2, <2>3, AnswerStory DEF Spent
<1>4. CASE CommitInvocation(w)
  <2>1. PICK ack \in BOOLEAN :
          NodeAnswers(w, [node[m] EXCEPT
             !.disp = wk[w].att, !.ack = ack,
             !.inv = IF ack THEN "acknowledged" ELSE "uncertain"])
    BY <1>1, <1>4 DEF CommitInvocation
  <2>2. PICK n : n = [node[m] EXCEPT
             !.disp = wk[w].att, !.ack = ack,
             !.inv = IF ack THEN "acknowledged" ELSE "uncertain"]
    OBVIOUS
  <2>3. n \in NodeRows /\ n.inv \in {"acknowledged", "uncertain"} /\ n.att = node[m].att
    BY <1>2, <2>1, <2>2 DEF NodeRows, Invocations
  <2>4. NodeAnswers(w, n)
    BY <2>1, <2>2
  <2>5. QED BY <1>1, <1>2, <2>3, <2>4, AnswerStory DEF Spent
<1>5. QED BY <1>3, <1>4

\* The final transaction.
LEMMA SettleStory ==
  ASSUME DeliveryInv, DeliveryInv', StoryInv, NEW w \in Workers, Settle(w)
  PROVE  StoryNext
<1>1. PICK m \in Messages : m = wk[w].m
  BY CallStoryFacts
<1>2. PICK obs \in Observations : obs = wk[w].obs
  BY CallStoryFacts DEF Calls
<1>3. PICK p : p = Project(row[m], obs)
  OBVIOUS
<1>4. PICK r : r = Finish(p, obs.status)
  OBVIOUS
<1>5. /\ Commit(m, r) /\ Release(w) /\ UNCHANGED <<node, retained>>
      /\ ~ProjectionRefused(row[m], obs) /\ wk[w].pc = "returned"
  BY <1>1, <1>2, <1>3, <1>4 DEF Settle, world
<1>6. /\ RowInv(row[m]) /\ RowStory(row[m], node[m], retained[m]) /\ retained[m] \in BOOLEAN
      /\ obs.disp # 0 => obs.disp = row[m].marker
      /\ obs.status \in {"uncertain", "delivered"} /\ (obs.status = "delivered" => obs.acked)
      /\ Spent(node[m])
  BY <1>1, <1>2, <1>5, CallFacts, CallStoryFacts DEF CallInv, CallStory
<1>7. RowInv(p)
  BY <1>3, <1>6, ProjectRow
<1>8. Reports(row[m], p, node[m], retained[m]) /\ p.acked = (row[m].acked \/ obs.acked)
  BY <1>3, <1>5, <1>6, ProjectReports
<1>9. /\ RowStory(p, node[m], retained[m]) /\ obs.status \in OpenStates \cup TerminalStates
      /\ obs.status = "delivered" => p.acked
  BY <1>6, <1>8 DEF Reports, TerminalStates
<1>10. Reports(p, r, node[m], retained[m])
  BY <1>4, <1>6, <1>7, <1>9, FinishReports
<1>11. Reports(row[m], r, node[m], retained[m])
  BY <1>8, <1>10, ReportsTwice
<1>12. QED BY <1>5, <1>11, ReleaseStep

\* The exception handler reports the truth on every path.
LEMMA HandledReports ==
  ASSUME NEW r, NEW n \in NodeRows, NEW k, NEW e, NEW t \in BOOLEAN,
         MessageInv(r, n, k), RowStory(r, n, t)
  PROVE  Reports(r, Handled(r, n, e), n, t)
<1> DEFINE back == Inspect(n, "uncertain")
           seen == Inspect(n, "blocked")
<1>1. RowInv(r) /\ (n.disp # 0 => n.disp = r.marker)
  BY DEF MessageInv
<1>2. /\ back \in Observations /\ back.disp = n.disp /\ back.acked = n.ack
      /\ seen \in Observations /\ seen.disp = n.disp /\ seen.acked = n.ack
  BY InspectFits
<1>3. CASE r.state = "delivered"
  <2>1. Handled(r, n, e) = r
    BY <1>3 DEF Handled
  <2>2. r.attempts <= r.attempts
    BY <1>1 DEF RowInv, Rows
  <2>3. QED BY <2>1, <2>2 DEF Reports, Forward
<1>4. CASE r.state # "delivered" /\ r.marker # 0
  <2>1. Handled(r, n, e) = IF ~back.acked THEN Finish(r, "uncertain")
                           ELSE IF ProjectionRefused(r, back) THEN r
                           ELSE Finish(Project(r, back), "delivered")
    BY <1>4 DEF Handled
  <2> HIDE DEF back
  <2>2. Reports(r, Finish(r, "uncertain"), n, t)
    BY <1>1, <1>4, FinishReports DEF TerminalStates
  <2>3. Reports(r, r, n, t)
    <3>1. r.attempts <= r.attempts
      BY <1>1 DEF RowInv, Rows
    <3>2. QED BY <3>1 DEF Reports, Forward
  <2>4. ASSUME back.acked, ~ProjectionRefused(r, back)
        PROVE  Reports(r, Finish(Project(r, back), "delivered"), n, t)
    <3>1. PICK p : p = Project(r, back)
      OBVIOUS
    <3>2. RowInv(p)
      BY <1>1, <1>2, <3>1, ProjectRow
    <3>3. Reports(r, p, n, t) /\ p.acked /\ p.state # "delivered"
      <4>1. Reports(r, p, n, t) /\ p.acked = (r.acked \/ back.acked) /\ p.state = r.state
        BY <1>1, <1>2, <2>4, <3>1, ProjectReports
      <4>2. QED BY <1>4, <2>4, <4>1
    <3>4. Reports(p, Finish(p, "delivered"), n, t)
      BY <3>2, <3>3, FinishReports DEF Reports, TerminalStates
    <3>5. QED BY <3>1, <3>3, <3>4, ReportsTwice
  <2>5. QED BY <2>1, <2>2, <2>3, <2>4
<1>5. CASE r.state # "delivered" /\ r.marker = 0 /\ e \in {"rejected", "deferred"}
  <2>1. Handled(r, n, e) = IF ProjectionRefused(r, seen) THEN r
                           ELSE IF e = "deferred" THEN DeferPrepared(Project(r, seen))
                           ELSE Failure(Project(r, seen), e)
    BY <1>5 DEF Handled
  <2> HIDE DEF seen
  <2>2. Reports(r, r, n, t)
    <3>1. r.attempts <= r.attempts
      BY <1>1 DEF RowInv, Rows
    <3>2. QED BY <3>1 DEF Reports, Forward
  <2>3. ASSUME ~ProjectionRefused(r, seen)
        PROVE  /\ Reports(r, DeferPrepared(Project(r, seen)), n, t)
               /\ Reports(r, Failure(Project(r, seen), e), n, t)
    <3>1. PICK p : p = Project(r, seen)
      OBVIOUS
    <3>2. RowInv(p)
      BY <1>1, <1>2, <3>1, ProjectRow
    <3>3. Reports(r, p, n, t) /\ p.state # "delivered" /\ p.marker = 0
      BY <1>1, <1>2, <1>5, <2>3, <3>1, ProjectReports DEF Reports
    <3>4. Reports(p, DeferPrepared(p), n, t)
      BY <3>2, <3>3, DeferReports DEF Reports
    <3>5. Reports(p, Failure(p, e), n, t)
      BY <3>2, <3>3, FailureReports DEF Reports
    <3>6. QED BY <3>1, <3>3, <3>4, <3>5, ReportsTwice
  <2>4. QED BY <2>1, <2>2, <2>3
<1>6. CASE r.state # "delivered" /\ r.marker = 0 /\ e \notin {"rejected", "deferred"}
  <2>1. Handled(r, n, e) = Failure(r, e)
    BY <1>6 DEF Handled
  <2>2. QED BY <1>1, <1>6, <2>1, FailureReports
<1>7. QED BY <1>3, <1>4, <1>5, <1>6

\* The exception handler as a step.
LEMMA HandleStory ==
  ASSUME DeliveryInv, DeliveryInv', StoryInv, NEW w \in Workers, Handle(w)
  PROVE  StoryNext
<1>1. PICK m \in Messages : m = wk[w].m
  BY CallStoryFacts
<1>2. PICK r : r = Handled(row[m], node[m], wk[w].err)
  OBVIOUS
<1>3. Commit(m, r) /\ Release(w) /\ UNCHANGED <<node, retained>>
  BY <1>1, <1>2 DEF Handle, world
<1>4. Reports(row[m], r, node[m], retained[m])
  BY <1>2, MessageFacts, HandledReports
<1>5. QED BY <1>3, <1>4, ReleaseStep

\* Receiver wake puts a claimed message off.  With the locks, what it claimed
\* is still unmarked.
LEMMA WakeStory ==
  ASSUME DeliveryInv, DeliveryInv', StoryInv, NEW w \in Workers, WakeDefers(w)
  PROVE  StoryNext
<1>1. PICK m \in Messages : m = wk[w].m
  BY CallStoryFacts
<1>2. PICK r : r = DeferPrepared(row[m])
  OBVIOUS
<1>3. Commit(m, r) /\ Release(w) /\ UNCHANGED <<node, retained>> /\ WakeEnabled /\ wk[w].pc = "claimed"
  BY <1>1, <1>2 DEF WakeDefers, world
<1>4. LocksOrNoWake => row[m].marker = 0
  BY <1>1, <1>3 DEF LocksOrNoWake, StoryInv, LockInv
<1>5. Reports(row[m], r, node[m], retained[m])
  BY <1>2, <1>3, <1>4, MessageFacts, DeferReports
<1>6. QED BY <1>3, <1>5, ReleaseStep

\* Crashes and lost lock sessions.
LEMMA FaultStory ==
  ASSUME DeliveryInv, DeliveryInv', StoryInv, NEW w \in Workers, Crash(w) \/ LoseSession(w)
  PROVE  StoryNext
<1>1. PICK m \in Messages : m = wk[w].m
  BY CallStoryFacts
<1>2. UNCHANGED <<row, node, retained>>
  BY DEF Crash, LoseSession, ledger, world
<1>3. CASE Crash(w)
  <2>1. Commit(m, row[m]) /\ Release(w)
    BY <1>2, <1>3 DEF Crash, Commit, DeliveryInv, TypeOK
  <2>2. PICK r : r = row[m]
    OBVIOUS
  <2>3. RowInv(row[m]) /\ RowStory(row[m], node[m], retained[m])
    BY MessageFacts
  <2>4. row[m].attempts <= row[m].attempts
    BY <2>3 DEF RowInv, Rows
  <2>5. Commit(m, r) /\ Reports(row[m], r, node[m], retained[m])
    BY <2>1, <2>2, <2>3, <2>4 DEF Reports, Forward
  <2>6. QED BY <1>2, <2>1, <2>5, ReleaseStep
<1>4. CASE LoseSession(w)
  <2>1. PICK c : c = [wk[w] EXCEPT !.session = FALSE]
    OBVIOUS
  <2>2. c.pc = wk[w].pc /\ c.m = m /\ c.obs = wk[w].obs /\ c.att = wk[w].att
    BY <1>1, <2>1, CallStoryFacts DEF Calls
  <2>3. wk' = [wk EXCEPT ![w] = c] /\ MaxSessionLosses # 0
    BY <1>4, <2>1 DEF LoseSession, DeliveryInv, TypeOK
  <2>4. wk'[w] = c /\ \A v \in Workers : v # w => wk'[v] = wk[v]
    BY <2>3 DEF DeliveryInv, TypeOK
  <2>5. CallStory(c, row[m], node[m])
    BY <1>1, <2>2, CallStoryFacts DEF CallStory
  <2>6. LockInv'
    BY <2>3 DEF LockInv
  <2>7. RowInv(row[m]) /\ RowStory(row[m], node[m], retained[m])
    BY MessageFacts
  <2>8. Forward(row[m], node[m], row[m], node[m])
    BY <2>7 DEF Forward, RowInv, Rows
  <2>9. StoryInv'
    BY <1>2, <2>2, <2>4, <2>5, <2>6, <2>7, <2>8, StoryStep
  <2>10. QED BY <1>2, <2>9 DEF StoryNext, Held
<1>5. QED BY <1>3, <1>4

\* Every step of a dispatcher call.
LEMMA WorkerStory ==
  ASSUME DeliveryInv, DeliveryInv', StoryInv, NEW w \in Workers, WorkerStep(w)
  PROVE  StoryNext
<1>1. \A e \in {"transport", "boundary", "deferred", "denied"} : e \in Errors
  BY DEF Errors
<1>2. CASE CheckFails(w)
  <2>1. PICK e \in CheckErrors(wk[w].m) : Fail(w, e)
    BY <1>2 DEF CheckFails
  <2>2. e \in Errors /\ Busy(w) /\ UNCHANGED <<row, node, retained>>
    BY <1>2, <2>1 DEF CheckErrors, Errors, CheckFails, Busy, ledger, world
  <2>3. QED BY <2>1, <2>2, FailStory
<1>3. CASE TransportFails(w) \/ SettleRefused(w) \/ DriverDefers(w)
  <2>1. Busy(w) /\ UNCHANGED <<row, node, retained>>
    BY <1>3 DEF TransportFails, SettleRefused, DriverDefers, Busy, ledger, world
  <2>2. QED BY <1>1, <1>3, <2>1, FailStory DEF TransportFails, SettleRefused, DriverDefers
<1>4. CASE EnterNative(w) \/ InvokeNative(w)
  <2>1. Busy(w) /\ UNCHANGED <<row, node, retained>> /\ (Goto(w, "boundary") \/ Goto(w, "called"))
    BY <1>4 DEF EnterNative, InvokeNative, Busy, ledger, world
  <2>2. QED BY <2>1, GotoStory
<1>5. CASE DriverRejects(w)
  <2>1. Busy(w) /\ UNCHANGED <<row, retained>> /\ RejectPreCall(w)
    BY <1>5 DEF DriverRejects, Busy, world
  <2>2. QED BY <2>1, RejectStory
<1>6. CASE DriverFaults(w) \/ MarkRouted(w)
  <2>1. UNCHANGED <<row, retained>> /\ wk[w].pc = "boundary"
    BY <1>6 DEF DriverFaults, MarkRouted, world
  <2>2. QED BY <1>6, <2>1, DoubtStory DEF DriverFaults, MarkRouted
<1>7. CASE MarkDenied(w) \/ MarkConflicts(w)
  <2>1. UNCHANGED <<row, retained>> /\ wk[w].pc = "boundary" /\ Busy(w)
    BY <1>7 DEF MarkDenied, MarkConflicts, world, Busy
  <2>2. \/ RejectPreCall(w) \/ NodeAnswers(w, Doubt(node[wk[w].m]))
        \/ Fail(w, "denied") /\ UNCHANGED node
    BY <1>7 DEF MarkDenied, MarkConflicts
  <2>3. CASE Fail(w, "denied") /\ UNCHANGED node
    BY <1>1, <2>1, <2>3, FailStory
  <2>4. QED BY <2>1, <2>2, <2>3, RejectStory, DoubtStory
<1>8. QED
  BY <1>2, <1>3, <1>4, <1>5, <1>6, <1>7, WakeStory, InboxStory, FenceStory, MarkStory,
     OutcomeStory, SettleStory, HandleStory DEF WorkerStep

\* Every step of the system.
LEMMA NextStory ==
  ASSUME DeliveryInv, StoryInv, [Next]_vars
  PROVE  StoryNext
<1>1. DeliveryInv'
  BY NextPreserves
<1>2. CASE UNCHANGED vars
  BY <1>2, WorldStory DEF vars
<1>3. ASSUME NEW m \in Messages,
             \/ Send(m) \/ ClaimStep(m) \/ WaitStep(m) \/ ReconcileNode(m) \/ ObserveDelivered(m)
      PROVE  StoryNext
  BY <1>1, <1>3, SendStory, ClaimStory, WaitStory, ReadbackStory
<1>4. ASSUME NEW m \in Messages, Revoke(m) \/ DeadlinePasses(m)
      PROVE  StoryNext
  BY <1>4, WorldStory DEF Revoke, DeadlinePasses, ledger
<1>5. ASSUME NEW m \in Messages, NEW w \in Workers, ClaimReuse(w, m) \/ ClaimNew(w, m)
      PROVE  StoryNext
  BY <1>1, <1>5, BeginStory
<1>6. ASSUME NEW w \in Workers, WorkerStep(w) \/ Crash(w) \/ LoseSession(w)
      PROVE  StoryNext
  BY <1>1, <1>6, WorkerStory, FaultStory
<1>7. QED BY <1>2, <1>3, <1>4, <1>5, <1>6 DEF Next

\* The initial state.
LEMMA StoryInit ==
  ASSUME Init
  PROVE  StoryInv
<1>1. /\ UnsentRow.attempt = "none" /\ UnsentRow.state = "unsent" /\ UnsentRow.ingress = "none"
      /\ UnsentRow.marker = 0 /\ UnsentRow.attempts = 0 /\ EmptyNode.att = 0
  BY DEF UnsentRow, EmptyNode
<1>2. /\ Idle.obs.status = "uncertain" /\ Idle.att = 0 /\ Idle.pc = "idle" /\ Idle.session
      /\ Idle.m \in Messages
  BY IdleCall DEF Idle, NoObservation, Calls
<1>3. RowStory(UnsentRow, EmptyNode, FALSE)
  BY <1>1 DEF RowStory
<1>4. CallStory(Idle, UnsentRow, EmptyNode)
  BY <1>1, <1>2 DEF CallStory
<1>5. LockInv
  BY <1>2 DEF Init, LockInv, Busy
<1>6. QED BY <1>2, <1>3, <1>4, <1>5 DEF Init, StoryInv

---------------------------------------------------------------------------
(* Retained replies beside receiver wake *)

\* With the ingress table and the locks, the gate keeps dispatch away from a
\* retained reply that a wake deferral has opened again.
Guarded == IngressOn /\ MaxSessionLosses = 0

Rests(m) == \A w \in Workers : wk[w].m = m => wk[w].pc = "idle"

GateOK(m) ==
  /\ row[m].marker = 0 /\ row[m].ingress = "selected" /\ row[m].state # "unsent"
  /\ row[m].state = "delivered" \/ Rests(m)

GateInv == Guarded => \A m \in Messages : retained[m] => GateOK(m)

\* r2 replaces r and leaves marker and selection as they are.
Kept(r, r2) ==
  /\ r2.ingress = r.ingress /\ r2.marker = r.marker
  /\ r.state # "unsent" => r2.state # "unsent"

\* _finish, _failure, _defer_prepared and _project keep them.
LEMMA OperatorsKeep ==
  ASSUME NEW r \in Rows
  PROVE  /\ Kept(r, r) /\ Kept(r, DeferPrepared(r))
         /\ \A s \in OpenStates \cup TerminalStates : Kept(r, Finish(r, s))
         /\ \A e : Kept(r, Failure(r, e))
         /\ \A obs \in Observations : (obs.disp # 0 => obs.disp = r.marker) => Kept(r, Project(r, obs))
<1>1. Kept(r, r) /\ Kept(r, DeferPrepared(r))
  BY DEF Kept, DeferPrepared, Rows
<1>2. ASSUME NEW s \in OpenStates \cup TerminalStates PROVE Kept(r, Finish(r, s))
  <2>1. s # "unsent"
    BY DEF OpenStates, TerminalStates
  <2>2. QED BY <2>1, FinishFields DEF Kept
<1>3. ASSUME NEW e PROVE Kept(r, Failure(r, e))
  <2>1. FailureState(r, e) \in OpenStates \cup TerminalStates
    BY DEF FailureState, OpenStates, TerminalStates
  <2>2. QED BY <1>2, <2>1 DEF Failure
<1>4. ASSUME NEW obs \in Observations, obs.disp # 0 => obs.disp = r.marker PROVE Kept(r, Project(r, obs))
  BY <1>4 DEF Kept, Project, Rows, Observations
<1>5. QED BY <1>1, <1>2, <1>3, <1>4

\* The message of a step; calls rest, go on or begin there.
LEMMA GateStep ==
  ASSUME DeliveryInv, GateInv, NEW m \in Messages,
         \A x \in Messages : x # m => row'[x] = row[x] /\ retained'[x] = retained[x],
         \A v \in Workers : \/ wk'[v].pc = "idle" \/ wk'[v].m = m
                            \/ Busy(v) /\ wk'[v].m = wk[v].m,
         Guarded /\ retained'[m] => GateOK(m)'
  PROVE  GateInv'
<1> SUFFICES ASSUME Guarded, NEW x \in Messages, x # m, retained'[x]
             PROVE  GateOK(x)'
  BY DEF GateInv, Guarded, IngressOn
<1>1. GateOK(x) /\ row'[x] = row[x]
  BY DEF GateInv
<1>2. Rests(x) => Rests(x)'
  BY DEF Rests, Busy
<1>3. QED BY <1>1, <1>2 DEF GateOK

\* Neither rows nor selections change; calls go on or end.
LEMMA GateRests ==
  ASSUME DeliveryInv, GateInv, UNCHANGED <<row, retained>>,
         \A v \in Workers : wk'[v].pc = "idle" \/ (Busy(v) /\ wk'[v].m = wk[v].m)
  PROVE  GateInv'
<1> SUFFICES ASSUME Guarded, NEW x \in Messages, retained[x]
             PROVE  GateOK(x)'
  BY DEF GateInv, Guarded, IngressOn
<1>1. GateOK(x)
  BY DEF GateInv
<1>2. Rests(x) => Rests(x)'
  BY DEF Rests, Busy
<1>3. QED BY <1>1, <1>2 DEF GateOK

\* A call ends with a commit.
LEMMA GateReleases ==
  ASSUME DeliveryInv, StoryInv, GateInv, NEW w \in Workers, NEW m \in Messages, m = wk[w].m,
         Busy(w), Release(w), NEW r, Commit(m, r), Kept(row[m], r), UNCHANGED retained
  PROVE  GateInv'
<1>1. row'[m] = r /\ \A x \in Messages : x # m => row'[x] = row[x]
  BY DEF DeliveryInv, TypeOK, Commit
<1>2. wk'[w].pc = "idle" /\ \A v \in Workers : v # w => wk'[v] = wk[v]
  BY DEF DeliveryInv, TypeOK, Release, Idle
<1>3. ASSUME Guarded, retained'[m] PROVE GateOK(m)'
  <2>1. GateOK(m)
    BY <1>3 DEF GateInv
  <2>2. \A v \in Workers : Busy(v) /\ wk[v].m = m => v = w
    BY <1>3 DEF StoryInv, LockInv, Guarded
  <2>3. Rests(m)'
    BY <1>2, <2>2 DEF Rests, Busy
  <2>4. QED BY <1>1, <2>1, <2>3 DEF GateOK, Kept
<1>4. QED BY <1>1, <1>2, <1>3, GateStep DEF Busy

\* Kept is transitive.
LEMMA KeptTwice ==
  ASSUME NEW r, NEW r2, NEW r3, Kept(r, r2), Kept(r2, r3)
  PROVE  Kept(r, r3)
  BY DEF Kept

\* A step on a message that is not retained, or not in the hands of the gate.
LEMMA GateForeign ==
  ASSUME DeliveryInv, GateInv, NEW m \in Messages, NEW r, Commit(m, r), UNCHANGED retained,
         Guarded => ~GateOK(m),
         \A v \in Workers : \/ wk'[v].pc = "idle" \/ wk'[v].m = m
                            \/ Busy(v) /\ wk'[v].m = wk[v].m
  PROVE  GateInv'
<1>1. \A x \in Messages : x # m => row'[x] = row[x] /\ retained'[x] = retained[x]
  BY DEF DeliveryInv, TypeOK, Commit
<1>2. Guarded => ~retained'[m]
  BY DEF GateInv
<1>3. QED BY <1>1, <1>2, GateStep

\* The gate refuses the claim of a retained reply.
LEMMA GateRefuses ==
  ASSUME NEW m \in Messages, Claimable(m)
  PROVE  Guarded => ~GateOK(m)
  BY DEF Claimable, GateHolds, Guarded, GateOK

\* Sending, claiming and reading back.
LEMMA GateMessage ==
  ASSUME DeliveryInv, StoryInv, GateInv, NEW m \in Messages,
         \/ Send(m) \/ ClaimStep(m) \/ WaitStep(m) \/ ReconcileNode(m) \/ ObserveDelivered(m)
         \/ Revoke(m) \/ DeadlinePasses(m)
  PROVE  GateInv'
<1>1. RowInv(row[m]) /\ row[m] \in Rows /\ node[m] \in NodeRows /\ MessageInv(row[m], node[m], native[m])
  BY MessageFacts DEF RowInv
<1>2. UNCHANGED wk => \A v \in Workers : wk'[v].pc = "idle" \/ (Busy(v) /\ wk'[v].m = wk[v].m)
  BY DEF Busy
<1>3. CASE Send(m)
  <2>1. Commit(m, Route(m)) /\ UNCHANGED <<wk, retained>> /\ ~GateOK(m)
    BY <1>3 DEF Send, Commit, world, GateOK
  <2>2. QED BY <1>2, <2>1, GateForeign
<1>4. CASE \/ ClaimInterrupted(m) \/ ClaimExhausted(m) \/ ClaimDenied(m)
           \/ ClaimSlotBusy(m) \/ ClaimNoEndpoint(m)
  <2>1. Claimable(m) /\ UNCHANGED <<wk, retained>>
    BY <1>4 DEF ClaimInterrupted, ClaimExhausted, ClaimDenied, ClaimSlotBusy, ClaimNoEndpoint,
                Admissible, world
  <2>2. PICK r : Commit(m, r)
    BY <1>4 DEF ClaimInterrupted, ClaimExhausted, ClaimDenied, ClaimSlotBusy, ClaimNoEndpoint
  <2>3. QED BY <1>2, <2>1, <2>2, GateRefuses, GateForeign
<1>5. CASE WakeReadback(m)
  <2>1. PICK r : Commit(m, r) /\ Kept(row[m], r)
    BY <1>1, <1>5, OperatorsKeep DEF WakeReadback, TerminalStates
  <2>2. UNCHANGED <<wk, retained>> /\ MessageFree(m)
    BY <1>5 DEF WakeReadback, world
  <2>3. row'[m] = r /\ \A x \in Messages : x # m => row'[x] = row[x]
    BY <2>1 DEF DeliveryInv, TypeOK, Commit
  <2>4. ASSUME Guarded, retained'[m] PROVE GateOK(m)'
    <3>1. GateOK(m)
      BY <2>2, <2>4 DEF GateInv
    <3>2. Rests(m)'
      BY <2>2, <2>4 DEF Rests, MessageFree, Holds, Busy, StoryInv, LockInv, Guarded
    <3>3. QED BY <2>1, <2>3, <3>1, <3>2 DEF GateOK, Kept
  <2>5. QED BY <1>2, <2>2, <2>3, <2>4, GateStep
<1>6. CASE RetainReply(m) /\ Retainable(m)
  <2> DEFINE r == Retain(row[m], IngressOn)
  <2>1. /\ Commit(m, r) /\ retained' = [retained EXCEPT ![m] = TRUE] /\ row[m].marker = 0
        /\ UNCHANGED wk
    BY <1>6 DEF RetainReply, Retainable
  <2>2. r.marker = row[m].marker /\ r.state = "delivered" /\ (IngressOn => r.ingress = "selected")
    BY <1>1 DEF Retain, Rows
  <2> HIDE DEF r
  <2>3. row'[m] = r /\ \A x \in Messages : x # m => row'[x] = row[x] /\ retained'[x] = retained[x]
    BY <2>1 DEF DeliveryInv, TypeOK, Commit
  <2>4. Guarded => GateOK(m)'
    BY <2>1, <2>2, <2>3 DEF GateOK, Guarded
  <2>5. QED BY <1>2, <2>1, <2>3, <2>4, GateStep
<1>7. CASE Reclaim(m)
  <2>1. Commit(m, Gate(row[m])) /\ UNCHANGED <<wk, retained>> /\ ~GateOK(m)
    BY <1>7 DEF Reclaim, world, GateOK
  <2>2. QED BY <1>2, <2>1, GateForeign
<1>8. CASE ObserveDelivered(m)
  <2>1. PICK p : p = Project(row[m], Inspect(node[m], "uncertain"))
    OBVIOUS
  <2>2. PICK r : r = [p EXCEPT !.state = "delivered", !.attempt = "delivered"]
    OBVIOUS
  <2>3. Commit(m, r) /\ UNCHANGED <<wk, retained>>
    BY <1>8, <2>1, <2>2 DEF ObserveDelivered, world
  <2>4. RowInv(p) /\ Kept(row[m], p)
    <3>1. PICK o \in Observations : o = Inspect(node[m], "uncertain") /\ o.disp = node[m].disp
      BY <1>1, InspectFits
    <3>2. o.disp # 0 => o.disp = row[m].marker
      BY <1>1, <3>1 DEF MessageInv
    <3>3. QED BY <1>1, <2>1, <3>1, <3>2, ProjectRow, OperatorsKeep
  <2>5. r.state = "delivered" /\ r.marker = row[m].marker /\ r.ingress = row[m].ingress
    BY <2>2, <2>4 DEF RowInv, Rows, Kept
  <2>6. row'[m] = r /\ \A x \in Messages : x # m => row'[x] = row[x]
    BY <2>3 DEF DeliveryInv, TypeOK, Commit
  <2>7. Guarded /\ retained'[m] => GateOK(m)'
    BY <2>3, <2>5, <2>6 DEF GateInv, GateOK
  <2>8. QED BY <1>2, <2>3, <2>6, <2>7, GateStep
<1>9. CASE \/ RetainReply(m) /\ ~Retainable(m)
           \/ RegisterWait(m) \/ ReadReply(m) \/ LeaveEarly(m) \/ EndWait(m)
           \/ WaiterDies(m) \/ LeaseExpires(m) \/ ReconcileNode(m) \/ Revoke(m) \/ DeadlinePasses(m)
  <2>1. UNCHANGED <<row, wk, retained>>
    BY <1>9 DEF RetainReply, RegisterWait, ReadReply, LeaveEarly, EndWait, WaiterDies, LeaseExpires,
                ReconcileNode, Revoke, DeadlinePasses, ledger, world
  <2>2. QED BY <1>2, <2>1, GateRests
<1>10. QED BY <1>3, <1>4, <1>5, <1>6, <1>7, <1>8, <1>9 DEF ClaimStep, WaitStep

\* What a settling call commits.
LEMMA SettledKeeps ==
  ASSUME DeliveryInv, StoryInv, NEW w \in Workers, Settle(w) \/ Handle(w) \/ WakeDefers(w)
  PROVE  \E r : Commit(wk[w].m, r) /\ Kept(row[wk[w].m], r)
<1>1. PICK m \in Messages : m = wk[w].m
  BY CallStoryFacts
<1>2. /\ RowInv(row[m]) /\ row[m] \in Rows /\ node[m] \in NodeRows
      /\ node[m].disp # 0 => node[m].disp = row[m].marker
  BY <1>1, CallFacts DEF MessageInv, RowInv
<1>3. ASSUME NEW o \in Observations, o.disp # 0 => o.disp = row[m].marker
      PROVE  Project(row[m], o) \in Rows /\ Kept(row[m], Project(row[m], o))
  BY <1>2, <1>3, ProjectRow, OperatorsKeep DEF RowInv
<1>4. CASE Settle(w)
  <2>1. PICK o \in Observations : o = wk[w].obs
    BY CallStoryFacts DEF Calls
  <2>2. (o.disp # 0 => o.disp = row[m].marker) /\ o.status \in OpenStates \cup TerminalStates
    BY <1>1, <2>1, CallFacts DEF CallInv, Observations, TerminalStates
  <2>3. PICK p \in Rows : p = Project(row[m], o) /\ Kept(row[m], p)
    BY <1>3, <2>2
  <2>4. Kept(p, Finish(p, o.status))
    BY <2>2, OperatorsKeep
  <2>5. QED BY <1>1, <1>4, <2>1, <2>3, <2>4, KeptTwice DEF Settle
<1>5. CASE Handle(w)
  <2>1. PICK back \in Observations, seen \in Observations :
          /\ back = Inspect(node[m], "uncertain") /\ back.disp = node[m].disp
          /\ seen = Inspect(node[m], "blocked") /\ seen.disp = node[m].disp
    BY <1>2, InspectFits
  <2>2. PICK p \in Rows : p = Project(row[m], back) /\ Kept(row[m], p)
    BY <1>2, <1>3, <2>1
  <2>3. PICK q \in Rows : q = Project(row[m], seen) /\ Kept(row[m], q)
    BY <1>2, <1>3, <2>1
  <2>4. PICK e : e = wk[w].err
    OBVIOUS
  <2>5. Handled(row[m], node[m], e) \in
          {row[m], Finish(row[m], "uncertain"), Failure(row[m], e), Finish(p, "delivered"),
           DeferPrepared(q), Failure(q, e)}
    BY <2>1, <2>2, <2>3 DEF Handled
  <2>6. /\ Kept(row[m], row[m]) /\ Kept(row[m], Finish(row[m], "uncertain")) /\ Kept(row[m], Failure(row[m], e))
        /\ Kept(p, Finish(p, "delivered")) /\ Kept(q, DeferPrepared(q)) /\ Kept(q, Failure(q, e))
    BY <1>2, OperatorsKeep DEF TerminalStates
  <2>7. Kept(row[m], Handled(row[m], node[m], e))
    BY <2>2, <2>3, <2>5, <2>6, KeptTwice
  <2>8. QED BY <1>1, <1>5, <2>4, <2>7 DEF Handle
<1>6. CASE WakeDefers(w)
  BY <1>1, <1>2, <1>6, OperatorsKeep DEF WakeDefers
<1>7. QED BY <1>4, <1>5, <1>6

\* Calls only go on with their messages, or end.
GoOn == \A v \in Workers : wk'[v].pc = "idle" \/ (Busy(v) /\ wk'[v].m = wk[v].m)

\* A call goes on with its message.
LEMMA CallGoesOn ==
  ASSUME DeliveryInv, NEW w \in Workers, Busy(w),
         \/ \E p : Goto(w, p) \/ \E e : Fail(w, e) \/ \E o : Return(w, o)
         \/ wk' = [wk EXCEPT ![w].pc = "inboxed", ![w].att = row[wk[w].m].attempts]
  PROVE  GoOn
<1>1. PICK c : wk' = [wk EXCEPT ![w] = c] /\ c.m = wk[w].m
  <2>1. CASE \E p : Goto(w, p)
    <3>1. PICK p : Goto(w, p)
      BY <2>1
    <3>2. [wk[w] EXCEPT !.pc = p].m = wk[w].m
      BY CallFacts DEF Calls
    <3>3. QED BY <3>1, <3>2 DEF Goto
  <2>2. CASE \E e : Fail(w, e)
    <3>1. PICK e : Fail(w, e)
      BY <2>2
    <3>2. [wk[w] EXCEPT !.pc = "failed", !.err = e].m = wk[w].m
      BY CallFacts DEF Calls
    <3>3. QED BY <3>1, <3>2 DEF Fail
  <2>3. CASE \E o : Return(w, o)
    <3>1. PICK o : Return(w, o)
      BY <2>3
    <3>2. [wk[w] EXCEPT !.pc = "returned", !.obs = o].m = wk[w].m
      BY CallFacts DEF Calls
    <3>3. QED BY <3>1, <3>2 DEF Return
  <2>4. CASE wk' = [wk EXCEPT ![w].pc = "inboxed", ![w].att = row[wk[w].m].attempts]
    <3>1. [wk[w] EXCEPT !.pc = "inboxed", !.att = row[wk[w].m].attempts].m = wk[w].m
      BY CallFacts DEF Calls
    <3>2. QED BY <2>4, <3>1
  <2>5. QED BY <2>1, <2>2, <2>3, <2>4
<1>2. wk'[w] = c /\ \A v \in Workers : v # w => wk'[v] = wk[v]
  BY <1>1 DEF DeliveryInv, TypeOK
<1>3. QED BY <1>1, <1>2 DEF Busy, GoOn

\* The steps of a call inside the Node and the Native.
Inside(w) ==
  \/ CheckFails(w) \/ TransportFails(w) \/ CommitInbox(w) \/ Fence(w) \/ EnterNative(w)
  \/ MarkDenied(w) \/ MarkRouted(w) \/ MarkConflicts(w)
  \/ DriverDefers(w) \/ DriverRejects(w) \/ DriverFaults(w)
  \/ InvokeNative(w) \/ DriverStops(w) \/ CommitInvocation(w) \/ SettleRefused(w)

\* They leave the ledger and the waits alone.
LEMMA InsideCall ==
  ASSUME DeliveryInv, NEW w \in Workers, Inside(w)
  PROVE  GoOn /\ UNCHANGED <<row, waiter, retained>>
<1>1. CASE \/ CheckFails(w) \/ TransportFails(w) \/ SettleRefused(w) \/ DriverDefers(w) \/ EnterNative(w)
  <2>1. Busy(w) /\ (\E e : Fail(w, e) \/ Goto(w, e)) /\ UNCHANGED <<row, waiter, retained>>
    BY <1>1 DEF CheckFails, TransportFails, SettleRefused, DriverDefers, EnterNative, Busy, ledger, world
  <2>2. QED BY <2>1, CallGoesOn
<1>2. CASE CommitInbox(w) \/ InvokeNative(w)
  <2>1. Busy(w) /\ UNCHANGED <<row, waiter, retained>>
    BY <1>2 DEF CommitInbox, InvokeNative, Busy, world
  <2>2. \/ Goto(w, "called")
        \/ wk' = [wk EXCEPT ![w].pc = "inboxed", ![w].att = row[wk[w].m].attempts]
    BY <1>2 DEF CommitInbox, InvokeNative
  <2>3. QED BY <2>1, <2>2, CallGoesOn
<1>3. CASE Fence(w)
  <2>1. Busy(w) /\ UNCHANGED <<row, waiter, retained>>
    BY <1>3, Zenon DEF Fence, Busy, world
  <2>2. (\E p : Goto(w, p)) \/ (\E e : Fail(w, e)) \/ (\E o : Return(w, o))
    BY <1>3, Zenon DEF Fence
  <2>3. QED BY <2>1, <2>2, CallGoesOn
<1>4. CASE DriverFaults(w) \/ DriverStops(w) \/ CommitInvocation(w)
  <2>1. Busy(w) /\ UNCHANGED <<row, waiter, retained>>
    <3>1. UNCHANGED <<row, world>> /\ wk[w].pc \in {"boundary", "marked", "called"}
      BY <1>4, Zenon DEF DriverFaults, DriverStops, CommitInvocation
    <3>2. QED BY <3>1 DEF Busy, world
  <2>2. \E n : NodeAnswers(w, n)
    BY <1>4, Zenon DEF DriverFaults, DriverStops, CommitInvocation
  <2>3. \E o : Return(w, o)
    BY <2>2 DEF NodeAnswers
  <2>4. QED BY <2>1, <2>3, CallGoesOn
<1>5. CASE MarkDenied(w) \/ MarkRouted(w) \/ MarkConflicts(w) \/ DriverRejects(w)
  <2>1. Busy(w) /\ UNCHANGED <<row, waiter, retained>>
    BY <1>5 DEF MarkDenied, MarkRouted, MarkConflicts, DriverRejects, Busy, world
  <2>2. (\E e : Fail(w, e)) \/ (\E o : Return(w, o))
    BY <1>5 DEF MarkDenied, MarkRouted, MarkConflicts, DriverRejects, NodeAnswers, RejectPreCall
  <2>3. QED BY <2>1, <2>2, CallGoesOn
<1>6. QED BY <1>1, <1>2, <1>3, <1>4, <1>5 DEF Inside

\* Every step of a dispatcher call, and its faults.
LEMMA GateWorker ==
  ASSUME DeliveryInv, StoryInv, GateInv, NEW w \in Workers, WorkerStep(w) \/ Crash(w) \/ LoseSession(w)
  PROVE  GateInv'
<1>1. PICK m \in Messages : m = wk[w].m
  BY CallStoryFacts
<1>2. CASE Settle(w) \/ Handle(w) \/ WakeDefers(w)
  <2>1. PICK r : Commit(m, r) /\ Kept(row[m], r)
    BY <1>1, <1>2, SettledKeeps
  <2>2. Busy(w) /\ Release(w) /\ UNCHANGED retained
    BY <1>2 DEF Settle, Handle, WakeDefers, Busy, world
  <2>3. QED BY <1>1, <2>1, <2>2, GateReleases
<1>3. CASE Mark(w) \/ MarkLost(w)
  <2>1. Markable(w) /\ Busy(w) /\ UNCHANGED retained /\ row[m].state # "delivered"
    BY <1>1, <1>3 DEF Mark, MarkLost, Markable, Busy, world
  <2>2. ~GateOK(m)
    BY <1>1, <2>1 DEF GateOK, Rests, Busy
  <2>3. \A v \in Workers : wk'[v].pc = "idle" \/ (Busy(v) /\ wk'[v].m = wk[v].m)
    BY <1>3, <2>1, CallGoesOn DEF Mark, MarkLost, NodeAnswers, GoOn
  <2>4. CASE UNCHANGED row
    BY <2>1, <2>3, <2>4, GateRests
  <2>5. CASE Commit(m, RecordMarker(row[m], wk[w].att))
    BY <2>1, <2>2, <2>3, <2>5, GateForeign
  <2>6. QED BY <1>1, <1>3, <2>4, <2>5 DEF Mark, MarkLost
<1>4. CASE Crash(w)
  <2>1. UNCHANGED <<row, retained>> /\ Release(w)
    BY <1>4 DEF Crash, ledger, world
  <2>2. wk'[w].pc = "idle" /\ \A v \in Workers : v # w => wk'[v] = wk[v]
    BY <2>1 DEF DeliveryInv, TypeOK, Release, Idle
  <2>3. QED BY <2>1, <2>2, GateRests DEF Busy
<1>5. CASE LoseSession(w)
  BY <1>5 DEF LoseSession, GateInv, Guarded, DeliveryInv, TypeOK
<1>6. CASE Inside(w)
  BY <1>6, InsideCall, GateRests DEF GoOn
<1>7. QED BY <1>2, <1>3, <1>4, <1>5, <1>6 DEF WorkerStep, Inside

\* Every step of the system.
LEMMA GateNext ==
  ASSUME DeliveryInv, StoryInv, GateInv, [Next]_vars
  PROVE  GateInv'
<1>1. CASE UNCHANGED vars
  BY <1>1, GateRests DEF vars, Busy
<1>2. ASSUME NEW m \in Messages, NEW w \in Workers, ClaimReuse(w, m) \/ ClaimNew(w, m)
      PROVE  GateInv'
  <2>1. Claimable(m) /\ Begin(w, m) /\ UNCHANGED retained
    BY <1>2 DEF ClaimReuse, ClaimNew, Admissible, world
  <2>2. PICK r : Commit(m, r)
    BY <1>2 DEF ClaimReuse, ClaimNew
  <2>3. wk'[w].m = m /\ \A v \in Workers : v # w => wk'[v] = wk[v]
    BY <2>1 DEF Begin, Idle, DeliveryInv, TypeOK
  <2>4. QED BY <2>1, <2>2, <2>3, GateRefuses, GateForeign DEF Busy
<1>3. QED BY <1>1, <1>2, GateMessage, GateWorker DEF Next

---------------------------------------------------------------------------
(* What the ledger never takes back *)

\* The highest layer of which the row has a receipt.
TopReceipt(r) ==
  IF r.acked THEN "runtime_acknowledged"
  ELSE IF r.marker # 0 THEN "runtime_dispatched"
  ELSE IF r.inbox # "none" THEN "target_inbox_committed"
  ELSE "accepted_by_authority"

Told(r) == r.state \in Obstacles => r.notice # "none"

\* A message nobody sent has no receipts, and no wait has read it.
LedgerInv ==
  \A m \in Messages :
    /\ row[m].high = TopReceipt(row[m])
    /\ Kind[m] # "attachment" => Told(row[m])
    /\ row[m].state = "unsent" => row[m] = UnsentRow
    /\ waiter[m] = "read" => row[m].state # "unsent"

\* r2 has the receipts and the notice of r, in at least as many attempts.
Keeps(r, r2) ==
  /\ r.marker # 0 => r2.marker = r.marker
  /\ r.acked => r2.acked
  /\ r.inbox # "none" => r2.inbox = r.inbox
  /\ r.notice # "none" => r2.notice = r.notice
  /\ r.attempts <= r2.attempts

\* The first notice is the one of the obstacle just met.
Alerts(r, r2) ==
  r.notice = "none" =>
    /\ r2.state \in Obstacles =>
         r2.notice = r2.state \/ (r2.state = r.state /\ r2.notice = "none")
    /\ r2.state \notin Obstacles => r2.notice = "none"

\* r2 may be committed over r.
Writes(r, r2) ==
  /\ r2 \in Rows /\ Keeps(r, r2) /\ Alerts(r, r2)
  /\ r.high = TopReceipt(r) => r2.high = TopReceipt(r2)
  /\ Told(r) => Told(r2)
  /\ r2.state # "unsent"

\* ... and nothing is told by it.
Plain(r, r2) == Writes(r, r2) /\ r2.notice = r.notice /\ r2.state \in OpenStates \cup {r.state}

\* A row written back as it is.
LEMMA WritesSame ==
  ASSUME NEW r \in Rows, r.state # "unsent"
  PROVE  Plain(r, r)
  BY DEF Plain, Writes, Keeps, Alerts, Rows

\* Two statement groups of one transaction.
LEMMA WritesTwice ==
  ASSUME NEW r, NEW p, NEW q, r \in Rows, Plain(r, p), Writes(p, q)
  PROVE  Writes(r, q)
<1>1. p \in Rows /\ q \in Rows
  BY DEF Plain, Writes
<1>2. Keeps(r, q)
  BY <1>1 DEF Plain, Writes, Keeps, Rows
<1>3. Alerts(r, q)
  BY DEF Plain, Writes, Alerts, OpenStates, Obstacles
<1>4. QED BY <1>1, <1>2, <1>3 DEF Plain, Writes

\* Only the state, the attempt's status and the ingress column change.
LEMMA WritesState ==
  ASSUME NEW r \in Rows, NEW q \in Rows, q.state \in OpenStates \cup {"delivered", r.state},
         q.state # "unsent", r.attempts <= q.attempts,
         q.high = r.high, q.inbox = r.inbox, q.marker = r.marker, q.acked = r.acked,
         q.notice = r.notice
  PROVE  /\ Writes(r, q)
         /\ q.state # "delivered" => Plain(r, q)
<1>1. Keeps(r, q)
  BY DEF Keeps
<1>2. Alerts(r, q)
  BY DEF Alerts, OpenStates, Obstacles
<1>3. TopReceipt(q) = TopReceipt(r)
  BY DEF TopReceipt
<1>4. Told(r) => Told(q)
  BY DEF Told, OpenStates, Obstacles
<1>5. QED BY <1>1, <1>2, <1>3, <1>4 DEF Writes, Plain

\* _finish and the notice it records.
LEMMA WritesFinish ==
  ASSUME NEW r \in Rows, NEW s \in OpenStates \cup TerminalStates
  PROVE  Writes(r, Finish(r, s)) /\ Finish(r, s).state = s
<1> DEFINE a == IF r.attempt \in OpenAttempt THEN s ELSE r.attempt
           c == [r EXCEPT !.state = s, !.attempt = a]
           f == RecordObstacle(c, s)
<1>1. s \in MessageStates /\ a \in AttemptStatuses /\ s # "unsent"
  BY DEF OpenStates, TerminalStates, MessageStates, AttemptStatuses, Rows
<1>2. Finish(r, s) = f
  BY DEF Finish, Rows
<1> HIDE DEF a
<1>3. /\ c \in Rows /\ c.state = s /\ c.attempts = r.attempts /\ c.high = r.high
      /\ c.marker = r.marker /\ c.acked = r.acked /\ c.inbox = r.inbox /\ c.notice = r.notice
  BY <1>1 DEF Rows
<1> HIDE DEF c
<1>4. /\ f \in Rows /\ f.state = s /\ f.attempts = c.attempts /\ f.high = c.high
      /\ f.marker = c.marker /\ f.acked = c.acked /\ f.inbox = c.inbox
      /\ f.notice = IF s \in Obstacles /\ c.notice = "none" THEN s ELSE c.notice
  <2>1. CASE s \in Obstacles /\ c.notice = "none"
    <3>1. f = [c EXCEPT !.notice = s]
      BY <2>1 DEF RecordObstacle
    <3>2. QED BY <1>3, <2>1, <3>1 DEF Rows
  <2>2. CASE ~(s \in Obstacles /\ c.notice = "none")
    BY <1>3, <2>2 DEF RecordObstacle
  <2>3. QED BY <2>1, <2>2
<1> HIDE DEF f
<1>5. Keeps(r, f)
  BY <1>3, <1>4 DEF Keeps, Rows
<1>6. Alerts(r, f) /\ Told(f)
  BY <1>3, <1>4 DEF Alerts, Told, Obstacles
<1>7. TopReceipt(f) = TopReceipt(r)
  BY <1>3, <1>4 DEF TopReceipt
<1>8. QED BY <1>1, <1>2, <1>3, <1>4, <1>5, <1>6, <1>7 DEF Writes

\* _failure.
LEMMA WritesFailure ==
  ASSUME NEW r \in Rows, NEW e
  PROVE  Writes(r, Failure(r, e)) /\ Failure(r, e).state # "delivered"
<1>1. FailureState(r, e) \in OpenStates \cup TerminalStates /\ FailureState(r, e) # "delivered"
  BY DEF FailureState, OpenStates, TerminalStates
<1>2. QED BY <1>1, WritesFinish DEF Failure

\* _defer_prepared.
LEMMA WritesDefer ==
  ASSUME NEW r \in Rows
  PROVE  Plain(r, DeferPrepared(r))
<1>1. PICK q : q = DeferPrepared(r)
  OBVIOUS
<1>2. /\ q \in Rows /\ q.state = "retry_wait" /\ q.attempts = r.attempts
      /\ q.high = r.high /\ q.inbox = r.inbox /\ q.marker = r.marker /\ q.acked = r.acked
      /\ q.notice = r.notice
  BY <1>1 DEF DeferPrepared, Rows, MessageStates, OpenStates
<1>3. r.attempts <= q.attempts /\ q.state \in OpenStates
  BY <1>2 DEF Rows, OpenStates
<1>4. QED BY <1>1, <1>2, <1>3, WritesState

\* gate.
LEMMA WritesGate ==
  ASSUME NEW r \in Rows, r.state # "unsent"
  PROVE  Plain(r, Gate(r)) /\ (r.state \in OpenStates => Gate(r).state \in OpenStates)
<1>1. CASE r.ingress # "reserved"
  BY <1>1, WritesSame DEF Gate
<1>2. CASE r.ingress = "reserved"
  <2>1. PICK s : s = IF r.marker = 0 /\ ~r.acked /\ r.state = "retry_wait" /\ r.attempts = 0
                       THEN "queued" ELSE r.state
    OBVIOUS
  <2>2. s \in OpenStates \cup {r.state} /\ s \in MessageStates /\ s # "unsent"
        /\ (s = "delivered" => r.state = "delivered")
    BY <2>1 DEF OpenStates, MessageStates, Rows
  <2>3. PICK q : q = [r EXCEPT !.ingress = "released", !.state = s]
    OBVIOUS
  <2>4. Gate(r) = q
    BY <1>2, <2>1, <2>3 DEF Gate, Rows
  <2>5. /\ q \in Rows /\ q.state = s /\ q.attempts = r.attempts
        /\ q.high = r.high /\ q.inbox = r.inbox /\ q.marker = r.marker /\ q.acked = r.acked
        /\ q.notice = r.notice
    BY <2>2, <2>3 DEF Rows, IngressStates
  <2>6. r.attempts <= q.attempts
    BY <2>5 DEF Rows
  <2>7. Writes(r, q)
    BY <2>2, <2>5, <2>6, WritesState
  <2>8. QED BY <2>2, <2>4, <2>5, <2>7 DEF Plain
<1>3. QED BY <1>1, <1>2

\* A new attempt within the budget.
LEMMA WritesAttempt ==
  ASSUME NEW r \in Rows, r.attempts < MaxAttempts
  PROVE  Plain(r, NewAttempt(r))
<1>1. PICK q : q = NewAttempt(r)
  OBVIOUS
<1>2. PICK k : k = r.attempts + 1
  OBVIOUS
<1>3. /\ k \in 0 .. MaxAttempts /\ r.attempts <= k
      /\ "delivering" \in MessageStates /\ "prepared" \in AttemptStatuses
  BY <1>2, MaxAttemptsAssumption DEF Rows, MessageStates, OpenStates, AttemptStatuses, OpenAttempt
<1>4. q = [r EXCEPT !.attempts = k, !.attempt = "prepared", !.state = "delivering"]
  BY <1>1, <1>2 DEF NewAttempt
<1>5. /\ q \in Rows /\ q.state = "delivering" /\ q.attempts = k
      /\ q.high = r.high /\ q.inbox = r.inbox /\ q.marker = r.marker /\ q.acked = r.acked
      /\ q.notice = r.notice
  BY <1>3, <1>4 DEF Rows
<1>6. q.state \in OpenStates
  BY <1>5 DEF OpenStates
<1>7. QED BY <1>1, <1>3, <1>5, <1>6, WritesState

\* mark_dispatched: the receipt of the first marker.
LEMMA WritesMarker ==
  ASSUME NEW r \in Rows, r.state # "unsent", NEW ord \in 1 .. MaxAttempts, r.marker = 0
  PROVE  Writes(r, RecordMarker(r, ord)) /\ RecordMarker(r, ord).state = r.state
<1>1. PICK h : h = Raise(r.high, "runtime_dispatched")
  OBVIOUS
<1>2. h \in LayerNames
  BY <1>1 DEF Raise, LayerNames, Rows
<1>3. ord \in 0 .. MaxAttempts /\ ord # 0 /\ "runtime_dispatched" \in AttemptStatuses
  BY MaxAttemptsAssumption DEF AttemptStatuses, OpenAttempt
<1>4. PICK q : q = RecordMarker(r, ord)
  OBVIOUS
<1>5. q = [r EXCEPT !.marker = ord, !.attempt = "runtime_dispatched", !.high = h]
  BY <1>1, <1>4 DEF RecordMarker
<1>6. /\ q \in Rows /\ q.state = r.state /\ q.attempts = r.attempts
      /\ q.high = h /\ q.inbox = r.inbox /\ q.marker = ord /\ q.acked = r.acked
      /\ q.notice = r.notice
  BY <1>2, <1>3, <1>5 DEF Rows
<1>7. Keeps(r, q)
  BY <1>6 DEF Keeps, Rows
<1>8. Alerts(r, q) /\ (Told(r) => Told(q))
  BY <1>6 DEF Alerts, Told, Rows
<1>9. r.high = TopReceipt(r) => h = TopReceipt(q)
  BY <1>1, <1>3, <1>6 DEF TopReceipt, Raise, Rank
<1>10. QED BY <1>4, <1>6, <1>7, <1>8, <1>9 DEF Writes

\* _project: no receipt of another origin is replaced.
LEMMA WritesProject ==
  ASSUME NEW r, RowInv(r), r.state # "unsent", NEW o \in Observations,
         o.disp # 0 => o.disp = r.marker, ~ProjectionRefused(r, o)
  PROVE  Plain(r, Project(r, o)) /\ Project(r, o).state = r.state
<1> DEFINE q == Project(r, o)
           top == IF o.acked THEN "runtime_acknowledged"
                  ELSE IF o.disp # 0 THEN "runtime_dispatched" ELSE "target_inbox_committed"
<1>1. r \in Rows /\ q \in Rows /\ q.marker = r.marker
  BY ProjectRow DEF RowInv
<1>2. q.acked <=> (r.acked \/ o.acked)
  BY ProjectRow
<1>3. /\ q.state = r.state /\ q.attempts = r.attempts /\ q.notice = r.notice
      /\ q.inbox = "node_inbox" /\ q.high = Raise(r.high, top)
  BY <1>1 DEF Project, Rows
<1> HIDE DEF q
<1>4. r.inbox \in {"none", "node_inbox"}
  BY <1>1 DEF ProjectionRefused, Rows, InboxSources
<1>5. Keeps(r, q)
  <2>1. r.attempts <= q.attempts
    BY <1>1, <1>3 DEF Rows
  <2>2. r.acked => q.acked
    BY <1>2
  <2>3. QED BY <1>1, <1>3, <1>4, <2>1, <2>2 DEF Keeps
<1>6. Alerts(r, q) /\ (Told(r) => Told(q))
  BY <1>1, <1>3 DEF Alerts, Told, Rows
<1>7. ASSUME r.high = TopReceipt(r) PROVE q.high = TopReceipt(q)
  <2>1. CASE o.acked
    BY <1>1, <1>2, <1>3, <1>7, <2>1 DEF TopReceipt, Raise, Rank
  <2>2. CASE r.acked
    BY <1>1, <1>2, <1>3, <1>7, <2>2 DEF TopReceipt, Raise, Rank
  <2>3. CASE ~o.acked /\ ~r.acked
    BY <1>1, <1>2, <1>3, <1>7, <2>3 DEF TopReceipt, Raise, Rank
  <2>4. QED BY <2>1, <2>2, <2>3
<1>8. QED BY <1>1, <1>3, <1>5, <1>6, <1>7 DEF Writes, Plain, q

\* _retain_wait_ingress sets the high water mark without a comparison; only
\* messages without a dispatch marker get there.
LEMMA WritesRetain ==
  ASSUME NEW r \in Rows, r.state # "unsent", r.marker = 0, ~r.acked, NEW st \in BOOLEAN
  PROVE  Writes(r, Retain(r, st)) /\ Retain(r, st).state = "delivered"
<1>1. PICK x : x = IF r.inbox = "none" THEN "authority_inbox" ELSE r.inbox
  OBVIOUS
<1>2. PICK g : g = IF st THEN "selected" ELSE r.ingress
  OBVIOUS
<1>3. /\ x \in InboxSources /\ x # "none" /\ g \in IngressStates
      /\ "delivered" \in MessageStates /\ "target_inbox_committed" \in LayerNames
  BY <1>1, <1>2 DEF Rows, InboxSources, IngressStates, MessageStates, TerminalStates, LayerNames
<1>4. PICK q : q = Retain(r, st)
  OBVIOUS
<1>5. q = [r EXCEPT !.state = "delivered", !.high = "target_inbox_committed", !.inbox = x, !.ingress = g]
  BY <1>1, <1>2, <1>4 DEF Retain, Rows
<1>6. /\ q \in Rows /\ q.state = "delivered" /\ q.attempts = r.attempts
      /\ q.high = "target_inbox_committed" /\ q.inbox = x /\ q.marker = r.marker
      /\ q.acked = r.acked /\ q.notice = r.notice
  BY <1>3, <1>5 DEF Rows
<1>7. Keeps(r, q)
  BY <1>1, <1>6 DEF Keeps, Rows
<1>8. Alerts(r, q) /\ Told(q)
  BY <1>6 DEF Alerts, Told, Obstacles
<1>9. q.high = TopReceipt(q)
  BY <1>3, <1>6 DEF TopReceipt
<1>10. QED BY <1>4, <1>6, <1>7, <1>8, <1>9 DEF Writes

\* A row that was never sent has nothing to lose.
LEMMA WritesRoute ==
  ASSUME NEW m \in Messages
  PROVE  /\ Route(m) \in Rows /\ Keeps(UnsentRow, Route(m))
         /\ Route(m).state \in OpenStates \cup {"delivered", "blocked"}
         /\ Route(m).state = "blocked" => Kind[m] = "attachment"
         /\ Route(m).notice = "none" /\ Route(m).high = TopReceipt(Route(m))
<1>1. PICK a : a = [UnsentRow EXCEPT !.state = "queued"]
  OBVIOUS
<1>2. a = [state |-> "queued", attempts |-> 0, attempt |-> "none",
           high |-> "accepted_by_authority", inbox |-> "none", marker |-> 0,
           acked |-> FALSE, ingress |-> "none", notice |-> "none"]
  BY <1>1 DEF UnsentRow
<1> DEFINE Fine(r) == /\ r \in Rows /\ r.attempts = 0 /\ r.marker = 0 /\ r.notice = "none" /\ r.acked = FALSE
                      /\ r.state \in OpenStates \cup {"delivered", "blocked"}
                      /\ \/ r.inbox = "none" /\ r.high = "accepted_by_authority"
                         \/ r.inbox = "authority_inbox" /\ r.high = "target_inbox_committed"
<1>3. Fine(a)
  BY <1>2, MaxAttemptsAssumption
     DEF Rows, MessageStates, OpenStates, AttemptStatuses, LayerNames, InboxSources, IngressStates
<1>4. /\ Fine(ToInbox(a, "delivered")) /\ Fine(ToInbox(a, "blocked")) /\ Fine(Reserve(a))
      /\ ToInbox(a, "delivered").state # "blocked" /\ Reserve(a).state # "blocked" /\ a.state # "blocked"
  <2>1. a.state = "queued"
    BY <1>2
  <2>2. ASSUME NEW s \in {"delivered", "blocked"}
        PROVE  Fine(ToInbox(a, s)) /\ ToInbox(a, s).state = s
    <3>1. PICK q : q = ToInbox(a, s)
      OBVIOUS
    <3>2. s \in MessageStates /\ "target_inbox_committed" \in LayerNames /\ "authority_inbox" \in InboxSources
      BY DEF MessageStates, TerminalStates, LayerNames, InboxSources
    <3>3. q = [a EXCEPT !.state = s, !.high = "target_inbox_committed", !.inbox = "authority_inbox"]
      BY <3>1 DEF ToInbox
    <3>4. /\ q \in Rows /\ q.state = s /\ q.high = "target_inbox_committed" /\ q.inbox = "authority_inbox"
          /\ q.attempts = a.attempts /\ q.marker = a.marker /\ q.acked = a.acked /\ q.notice = a.notice
      BY <1>3, <3>2, <3>3 DEF Rows
    <3>5. QED BY <1>3, <3>1, <3>4
  <2>3. Fine(Reserve(a)) /\ Reserve(a).state = "retry_wait"
    <3>1. PICK q : q = Reserve(a)
      OBVIOUS
    <3>2. "retry_wait" \in MessageStates /\ "reserved" \in IngressStates /\ "retry_wait" \in OpenStates
      BY DEF MessageStates, OpenStates, IngressStates
    <3>3. q = [a EXCEPT !.ingress = "reserved", !.state = "retry_wait"]
      BY <3>1 DEF Reserve
    <3>4. /\ q \in Rows /\ q.state = "retry_wait" /\ q.high = a.high /\ q.inbox = a.inbox
          /\ q.attempts = a.attempts /\ q.marker = a.marker /\ q.acked = a.acked /\ q.notice = a.notice
      BY <1>3, <3>2, <3>3 DEF Rows
    <3>5. QED BY <1>3, <3>1, <3>2, <3>4
  <2> HIDE DEF Fine
  <2>4. QED BY <2>1, <2>2, <2>3
<1>5. Route(m) \in {a, ToInbox(a, "delivered"), Reserve(a)}
      \/ (Kind[m] = "attachment" /\ Route(m) = ToInbox(a, "blocked"))
  BY <1>1, DeliveryAssumption DEF Route
<1> HIDE DEF Fine
<1>6. Fine(Route(m)) /\ (Route(m).state = "blocked" => Kind[m] = "attachment")
  BY <1>3, <1>4, <1>5
<1>7. UnsentRow.attempts = 0 /\ UnsentRow.marker = 0 /\ UnsentRow.acked = FALSE
      /\ UnsentRow.inbox = "none" /\ UnsentRow.notice = "none"
  BY DEF UnsentRow
<1>8. Keeps(UnsentRow, Route(m))
  BY <1>6, <1>7 DEF Keeps, Fine
<1>9. Route(m).high = TopReceipt(Route(m))
  BY <1>6 DEF Fine, TopReceipt
<1>10. QED BY <1>6, <1>8, <1>9 DEF Fine

\* A dispatcher call works on the message.
Worked(m) == \E w \in Workers : Busy(w) /\ wk[w].m = m

\* r is what a step may commit over the row of m.  The state of a settled
\* message is replaced by "delivered", or by a call that still works on it; a
\* delivered message is reopened by receiver wake only.
Fits(m, r) ==
  \/ r = row[m]
  \/ row[m].state = "unsent" /\ r = Route(m)
  \/ /\ row[m].state # "unsent" /\ Writes(row[m], r)
     /\ \/ row[m].state \in OpenStates
        \/ r.state \in {"delivered", row[m].state}
        \/ /\ Worked(m)
           /\ row[m].state # "delivered" \/ WakeEnabled \/ r.state \in TerminalStates

\* While the locks hold, a call that works on m after the step has it claimed,
\* or began before, and then the step settled m only as delivered.
Works(m) ==
  MaxSessionLosses = 0 =>
    \A w \in Workers :
      wk'[w].pc # "idle" /\ wk'[w].m = m =>
        \/ row[m].state \in OpenStates /\ row'[m].state \in OpenStates
        \/ /\ Busy(w) /\ wk[w].m = m
           /\ row'[m].state \in OpenStates \cup {"delivered", row[m].state}

\* A wait reads a message that was sent.
Reads(m) == waiter'[m] = "read" => waiter[m] = "read" \/ row[m].state # "unsent"

LedgerStep == \A m \in Messages : Fits(m, row'[m]) /\ Works(m) /\ Reads(m)

\* One row is committed; its calls go on, or none works on it any more.
LEMMA LedgerCommit ==
  ASSUME DeliveryInv, NEW m \in Messages, NEW r, Commit(m, r), Fits(m, r), GoOn,
         \A x \in Messages : Reads(x),
         \/ r.state \in OpenStates \cup {"delivered", row[m].state}
         \/ MaxSessionLosses = 0 => \A v \in Workers : wk'[v].pc # "idle" => wk'[v].m # m
  PROVE  LedgerStep
<1>1. row'[m] = r /\ \A x \in Messages : x # m => row'[x] = row[x]
  BY DEF DeliveryInv, TypeOK, Commit
<1>2. \A x \in Messages : Fits(x, row'[x])
  BY <1>1 DEF Fits
<1>3. \A x \in Messages : Works(x)
  BY <1>1 DEF Works, GoOn
<1>4. QED BY <1>2, <1>3 DEF LedgerStep

\* No row changes.
LEMMA LedgerRests ==
  ASSUME UNCHANGED row, GoOn, \A x \in Messages : Reads(x)
  PROVE  LedgerStep
  BY DEF LedgerStep, Fits, Works, GoOn

\* Calls that do not change go on.
LEMMA CallsStay ==
  ASSUME UNCHANGED wk
  PROVE  GoOn
  BY DEF GoOn, Busy

\* While the locks hold, the holder of a free lock finds nobody at work.
LEMMA FreeMeansIdle ==
  ASSUME StoryInv, NEW m \in Messages, MessageFree(m), UNCHANGED wk
  PROVE  MaxSessionLosses = 0 => \A v \in Workers : wk'[v].pc # "idle" => wk'[v].m # m
  BY DEF MessageFree, Holds, Busy, StoryInv, LockInv

\* _observe_messages reads committed replies only.
LEMMA WaitReads ==
  ASSUME DeliveryInv, NEW m \in Messages, WaitStep(m)
  PROVE  \A x \in Messages : Reads(x)
<1>1. CASE ReadReply(m)
  BY <1>1 DEF ReadReply, Reads, DeliveryInv, TypeOK
<1>2. CASE RegisterWait(m) \/ RetainReply(m) \/ LeaveEarly(m) \/ EndWait(m) \/ WaiterDies(m)
  BY <1>2 DEF RegisterWait, RetainReply, LeaveEarly, EndWait, WaiterDies, Reads, DeliveryInv, TypeOK
<1>3. CASE LeaseExpires(m) \/ Reclaim(m)
  BY <1>3 DEF LeaseExpires, Reclaim, Reads, world
<1>4. QED BY <1>1, <1>2, <1>3 DEF WaitStep

\* The row a claim starts from.
LEMMA GatedWrites ==
  ASSUME DeliveryInv, StoryInv, NEW m \in Messages, Claimable(m)
  PROVE  Plain(row[m], Gated(m)) /\ Gated(m).state \in OpenStates /\ Gated(m) \in Rows
<1>1. row[m] \in Rows /\ row[m].state \in OpenStates /\ row[m].state # "unsent"
  BY MessageFacts DEF RowInv, Claimable, OpenStates
<1>2. QED BY <1>1, WritesGate, WritesSame DEF Gated, Plain, Writes

\* Claims that settle or defer a message without a call.
LEMMA LedgerClaim ==
  ASSUME DeliveryInv, StoryInv, NEW m \in Messages, ClaimStep(m)
  PROVE  LedgerStep
<1>1. RowInv(row[m]) /\ row[m] \in Rows
  BY MessageFacts DEF RowInv
<1>2. /\ row[m].state \in OpenStates /\ row[m].state # "unsent" /\ MessageFree(m)
      /\ UNCHANGED <<wk, waiter>>
  BY DEF ClaimStep, ClaimInterrupted, ClaimExhausted, ClaimDenied, ClaimSlotBusy, ClaimNoEndpoint,
         WakeReadback, Admissible, Claimable, OpenStates, world
<1>3. ASSUME NEW r, Commit(m, r), Writes(row[m], r) PROVE LedgerStep
  <2>1. Fits(m, r)
    BY <1>2, <1>3 DEF Fits
  <2>2. GoOn /\ \A x \in Messages : Reads(x)
    BY <1>2, CallsStay DEF Reads
  <2>3. QED BY <1>2, <1>3, <2>1, <2>2, FreeMeansIdle, LedgerCommit
<1>4. CASE WakeReadback(m)
  <2>1. Writes(row[m], Finish(row[m], "expired")) /\ Writes(row[m], DeferPrepared(row[m]))
    BY <1>1, WritesFinish, WritesDefer DEF TerminalStates, Plain
  <2>2. QED BY <1>3, <1>4, <2>1 DEF WakeReadback
<1>5. CASE \/ ClaimInterrupted(m) \/ ClaimExhausted(m) \/ ClaimDenied(m)
           \/ ClaimSlotBusy(m) \/ ClaimNoEndpoint(m)
  <2>1. Claimable(m)
    BY <1>5 DEF ClaimInterrupted, ClaimExhausted, ClaimDenied, ClaimSlotBusy, ClaimNoEndpoint, Admissible
  <2>2. PICK g \in Rows : g = Gated(m) /\ Plain(row[m], g) /\ g.state \in OpenStates
    BY <2>1, GatedWrites
  <2>3. g.attempts = row[m].attempts
    BY <1>1, <2>2, GatedQuiet
  <2>4. PICK d : d = auth[m]
    OBVIOUS
  <2>5. /\ Writes(g, Finish(g, "uncertain")) /\ Writes(g, Finish(g, "budget_exhausted"))
        /\ Writes(g, Failure(g, d)) /\ Writes(g, DeferPrepared(g))
    BY WritesFinish, WritesFailure, WritesDefer DEF TerminalStates, Plain
  <2>6. ASSUME ClaimNoEndpoint(m), row[m].attempt # "prepared"
        PROVE  Writes(g, Failure(NewAttempt(g), "transport"))
    <3>1. g.attempts < MaxAttempts
      BY <1>1, <2>3, <2>6, AdmissibleBudget DEF ClaimNoEndpoint, Admissible, OpenAttempt
    <3>2. PICK a : a = NewAttempt(g)
      OBVIOUS
    <3>3. Plain(g, a) /\ a \in Rows
      BY <3>1, <3>2, WritesAttempt DEF Plain, Writes
    <3>4. Writes(a, Failure(a, "transport"))
      BY <3>3, WritesFailure
    <3>5. QED BY <3>2, <3>3, <3>4, WritesTwice
  <2>7. PICK r : Commit(m, r) /\ Writes(g, r)
    BY <1>5, <2>2, <2>4, <2>5, <2>6
       DEF ClaimInterrupted, ClaimExhausted, ClaimDenied, ClaimSlotBusy, ClaimNoEndpoint
  <2>8. Writes(row[m], r)
    BY <1>1, <2>2, <2>7, WritesTwice
  <2>9. QED BY <1>3, <2>7, <2>8
<1>6. QED BY <1>4, <1>5 DEF ClaimStep

\* Claims that begin a call.
LEMMA LedgerBegin ==
  ASSUME DeliveryInv, StoryInv, NEW m \in Messages, NEW w \in Workers, ClaimReuse(w, m) \/ ClaimNew(w, m)
  PROVE  LedgerStep
<1>1. RowInv(row[m]) /\ row[m] \in Rows
  BY MessageFacts DEF RowInv
<1>2. Claimable(m) /\ Begin(w, m) /\ UNCHANGED waiter /\ Admissible(m)
  BY DEF ClaimReuse, ClaimNew, Admissible, world
<1>3. row[m].state \in OpenStates /\ row[m].state # "unsent"
  BY <1>2 DEF Claimable, OpenStates
<1>4. PICK g \in Rows : g = Gated(m) /\ Plain(row[m], g) /\ g.state \in OpenStates
  BY <1>2, GatedWrites
<1>5. PICK r : Commit(m, r) /\ Writes(row[m], r) /\ r.state \in OpenStates
  <2>1. CASE ClaimReuse(w, m)
    BY <1>4, <2>1 DEF ClaimReuse, Plain
  <2>2. CASE ClaimNew(w, m)
    <3>1. row[m].attempts < MaxAttempts
      BY <1>1, <1>2, <2>2, AdmissibleBudget DEF ClaimNew, Admissible, OpenAttempt
    <3>2. g.attempts < MaxAttempts
      BY <1>1, <1>4, <3>1, GatedQuiet
    <3>3. PICK a : a = NewAttempt(g)
      OBVIOUS
    <3>4. Plain(g, a)
      BY <3>2, <3>3, WritesAttempt
    <3>5. Writes(row[m], a) /\ a.state \in OpenStates
      BY <1>1, <1>4, <3>4, WritesTwice DEF Plain
    <3>6. QED BY <1>4, <2>2, <3>3, <3>5 DEF ClaimNew
  <2>3. QED BY <2>1, <2>2
<1>6. row'[m] = r /\ \A x \in Messages : x # m => row'[x] = row[x]
  BY <1>5 DEF DeliveryInv, TypeOK, Commit
<1>7. wk'[w].m = m /\ \A v \in Workers : v # w => wk'[v] = wk[v]
  BY <1>2 DEF Begin, Idle, DeliveryInv, TypeOK
<1>8. \A x \in Messages : Fits(x, row'[x]) /\ Reads(x)
  BY <1>2, <1>3, <1>5, <1>6 DEF Fits, Reads
<1>9. \A x \in Messages : Works(x)
  BY <1>3, <1>5, <1>6, <1>7 DEF Works, Busy
<1>10. QED BY <1>8, <1>9 DEF LedgerStep

\* Sending.
LEMMA LedgerSend ==
  ASSUME DeliveryInv, StoryInv, NEW m \in Messages, Send(m)
  PROVE  LedgerStep
<1>1. row[m].state = "unsent" /\ Commit(m, Route(m)) /\ UNCHANGED <<wk, waiter>>
  BY DEF Send, Commit, world
<1>2. \A v \in Workers : wk'[v].pc # "idle" => wk'[v].m # m
  BY <1>1 DEF StoryInv, CallStory
<1>3. Fits(m, Route(m)) /\ GoOn /\ \A x \in Messages : Reads(x)
  BY <1>1, CallsStay DEF Fits, Reads
<1>4. QED BY <1>1, <1>2, <1>3, LedgerCommit

\* Reply waits.
LEMMA LedgerWait ==
  ASSUME DeliveryInv, StoryInv, LedgerInv, NEW m \in Messages, WaitStep(m)
  PROVE  LedgerStep
<1>1. RowInv(row[m]) /\ row[m] \in Rows /\ MessageInv(row[m], node[m], native[m])
  BY MessageFacts DEF RowInv
<1>2. UNCHANGED wk
  BY DEF WaitStep, RegisterWait, ReadReply, RetainReply, LeaveEarly, EndWait, WaiterDies, LeaseExpires, Reclaim
<1>3. GoOn /\ \A x \in Messages : Reads(x)
  BY <1>2, CallsStay, WaitReads
<1>4. CASE RetainReply(m) /\ Retainable(m)
  <2>1. waiter[m] = "read" /\ row[m].marker = 0 /\ Commit(m, Retain(row[m], IngressOn))
    BY <1>4 DEF RetainReply, Retainable
  <2>2. row[m].state # "unsent" /\ IngressOn \in BOOLEAN
    BY <2>1 DEF LedgerInv, IngressOn
  <2>3. ~row[m].acked
    BY <1>1, <2>1 DEF MessageInv
  <2>4. PICK r : r = Retain(row[m], IngressOn) /\ Writes(row[m], r) /\ r.state = "delivered"
    BY <1>1, <2>1, <2>2, <2>3, WritesRetain
  <2>5. Fits(m, r)
    BY <2>2, <2>4 DEF Fits
  <2>6. QED BY <1>3, <2>1, <2>4, <2>5, LedgerCommit
<1>5. CASE Reclaim(m)
  <2>1. Commit(m, Gate(row[m])) /\ row[m].ingress = "reserved"
    BY <1>5 DEF Reclaim
  <2>2. row[m].state # "unsent"
    BY <2>1 DEF LedgerInv, UnsentRow
  <2>3. PICK r : r = Gate(row[m]) /\ Plain(row[m], r) /\ (row[m].state \in OpenStates => r.state \in OpenStates)
    BY <1>1, <2>2, WritesGate
  <2>4. r.state \in OpenStates \cup {row[m].state} /\ Writes(row[m], r)
    BY <2>3 DEF Plain
  <2>5. Fits(m, r)
    <3>1. CASE row[m].state \in OpenStates
      BY <2>2, <2>4, <3>1 DEF Fits
    <3>2. CASE row[m].state \notin OpenStates
      <4>1. r.state = row[m].state
        BY <1>1, <2>1, <2>3, <3>2 DEF Gate, Rows, OpenStates
      <4>2. QED BY <2>2, <2>4, <4>1 DEF Fits
    <3>3. QED BY <3>1, <3>2
  <2>6. QED BY <1>3, <2>1, <2>3, <2>4, <2>5, LedgerCommit
<1>6. CASE \/ RetainReply(m) /\ ~Retainable(m)
           \/ RegisterWait(m) \/ ReadReply(m) \/ LeaveEarly(m) \/ EndWait(m)
           \/ WaiterDies(m) \/ LeaseExpires(m)
  <2>1. UNCHANGED row
    BY <1>6 DEF RetainReply, RegisterWait, ReadReply, LeaveEarly, EndWait, WaiterDies, LeaseExpires, ledger
  <2>2. QED BY <1>3, <2>1, LedgerRests
<1>7. QED BY <1>4, <1>5, <1>6 DEF WaitStep

\* The observer.
LEMMA LedgerObserve ==
  ASSUME DeliveryInv, StoryInv, NEW m \in Messages, ObserveDelivered(m)
  PROVE  LedgerStep
<1>1. RowInv(row[m]) /\ row[m] \in Rows /\ MessageInv(row[m], node[m], native[m]) /\ node[m] \in NodeRows
  BY MessageFacts DEF RowInv
<1>2. PICK o \in Observations : o = Inspect(node[m], "uncertain") /\ o.disp = node[m].disp /\ o.acked = node[m].ack
  BY <1>1, InspectFits
<1>3. PICK p : p = Project(row[m], o)
  OBVIOUS
<1>4. PICK r : r = [p EXCEPT !.state = "delivered", !.attempt = "delivered"]
  OBVIOUS
<1>5. Commit(m, r) /\ ~ProjectionRefused(row[m], o) /\ o.acked /\ UNCHANGED <<wk, waiter>>
  BY <1>2, <1>3, <1>4 DEF ObserveDelivered, world
<1>6. row[m].state # "unsent"
  BY <1>1, <1>2, <1>5 DEF MessageInv, RowInv, Rows
<1>7. o.disp # 0 => o.disp = row[m].marker
  BY <1>1, <1>2 DEF MessageInv
<1>8. Plain(row[m], p) /\ p \in Rows
  BY <1>1, <1>3, <1>5, <1>6, <1>7, WritesProject DEF Plain, Writes
<1>9. Writes(p, r) /\ r.state = "delivered"
  <2>1. "delivered" \in MessageStates /\ "delivered" \in AttemptStatuses
    BY DEF MessageStates, TerminalStates, AttemptStatuses
  <2>2. /\ r \in Rows /\ r.state = "delivered" /\ r.attempts = p.attempts
        /\ r.high = p.high /\ r.inbox = p.inbox /\ r.marker = p.marker /\ r.acked = p.acked
        /\ r.notice = p.notice
    BY <1>4, <1>8, <2>1 DEF Rows
  <2>3. p.attempts <= r.attempts
    BY <1>8, <2>2 DEF Rows
  <2>4. QED BY <1>8, <2>2, <2>3, WritesState
<1>10. Writes(row[m], r)
  BY <1>1, <1>8, <1>9, WritesTwice
<1>11. Fits(m, r) /\ GoOn /\ \A x \in Messages : Reads(x)
  BY <1>5, <1>6, <1>9, <1>10, CallsStay DEF Fits, Reads
<1>12. QED BY <1>5, <1>9, <1>11, LedgerCommit

\* What the final transaction and the exception handler commit.
LEMMA SettledWrites ==
  ASSUME DeliveryInv, StoryInv, NEW w \in Workers, Settle(w) \/ Handle(w)
  PROVE  \E r : Commit(wk[w].m, r) /\ Fits(wk[w].m, r)
<1>1. PICK m \in Messages : m = wk[w].m
  BY CallStoryFacts
<1>2. /\ RowInv(row[m]) /\ row[m] \in Rows /\ node[m] \in NodeRows
      /\ node[m].disp # 0 => node[m].disp = row[m].marker
  BY <1>1, CallFacts DEF MessageInv, RowInv
<1>3. Worked(m) /\ row[m].state # "unsent"
  <2>1. wk[w].pc # "idle"
    BY DEF Settle, Handle
  <2>2. QED BY <1>1, <2>1, CallStoryFacts DEF Worked, Busy, CallStory
<1>4. ASSUME NEW o \in Observations, o.disp # 0 => o.disp = row[m].marker, ~ProjectionRefused(row[m], o)
      PROVE  Project(row[m], o) \in Rows /\ Plain(row[m], Project(row[m], o))
  BY <1>2, <1>3, <1>4, WritesProject DEF Plain, Writes
<1>5. CASE Settle(w)
  <2>1. PICK o \in Observations : o = wk[w].obs
    BY CallStoryFacts DEF Calls
  <2>2. /\ o.disp # 0 => o.disp = row[m].marker
        /\ o.status \in TerminalStates
    BY <1>1, <2>1, CallFacts DEF CallInv, Observations, TerminalStates
  <2>3. Commit(m, Finish(Project(row[m], o), o.status)) /\ ~ProjectionRefused(row[m], o)
    BY <1>1, <1>5, <2>1 DEF Settle
  <2>4. PICK p \in Rows : p = Project(row[m], o) /\ Plain(row[m], p)
    BY <1>4, <2>2, <2>3
  <2>5. PICK r : r = Finish(p, o.status) /\ Writes(p, r) /\ r.state \in TerminalStates
    BY <2>2, WritesFinish
  <2>6. Writes(row[m], r)
    BY <1>2, <2>4, <2>5, WritesTwice
  <2>7. Fits(m, r)
    BY <1>3, <2>5, <2>6 DEF Fits
  <2>8. QED BY <1>1, <2>3, <2>4, <2>5, <2>7
<1>6. CASE Handle(w)
  <2>1. PICK back \in Observations, seen \in Observations :
          /\ back = Inspect(node[m], "uncertain") /\ back.disp = node[m].disp
          /\ seen = Inspect(node[m], "blocked") /\ seen.disp = node[m].disp
    BY <1>2, InspectFits
  <2>2. PICK e : e = wk[w].err
    OBVIOUS
  <2>3. PICK r : r = Handled(row[m], node[m], e)
    OBVIOUS
  <2>4. CASE r = row[m]
    BY <1>1, <1>6, <2>2, <2>3, <2>4 DEF Handle, Fits
  <2>5. CASE r # row[m]
    <3>1. row[m].state # "delivered"
      BY <2>3, <2>5 DEF Handled
    <3>2. \/ r = Finish(row[m], "uncertain") \/ r = Failure(row[m], e)
          \/ ~ProjectionRefused(row[m], back) /\ r = Finish(Project(row[m], back), "delivered")
          \/ /\ ~ProjectionRefused(row[m], seen)
             /\ r = DeferPrepared(Project(row[m], seen)) \/ r = Failure(Project(row[m], seen), e)
      BY <2>1, <2>3, <2>5 DEF Handled
    <3>3. Writes(row[m], r)
      <4>1. CASE r = Finish(row[m], "uncertain") \/ r = Failure(row[m], e)
        BY <1>2, <4>1, WritesFinish, WritesFailure DEF TerminalStates
      <4>2. CASE ~ProjectionRefused(row[m], back) /\ r = Finish(Project(row[m], back), "delivered")
        <5>1. PICK p \in Rows : p = Project(row[m], back) /\ Plain(row[m], p)
          BY <1>2, <1>4, <2>1, <4>2
        <5>2. Writes(p, Finish(p, "delivered"))
          BY WritesFinish DEF TerminalStates
        <5>3. QED BY <1>2, <4>2, <5>1, <5>2, WritesTwice
      <4>3. CASE /\ ~ProjectionRefused(row[m], seen)
                 /\ r = DeferPrepared(Project(row[m], seen)) \/ r = Failure(Project(row[m], seen), e)
        <5>1. PICK p \in Rows : p = Project(row[m], seen) /\ Plain(row[m], p)
          BY <1>2, <1>4, <2>1, <4>3
        <5>2. Writes(p, DeferPrepared(p)) /\ Writes(p, Failure(p, e))
          BY WritesDefer, WritesFailure DEF Plain
        <5>3. QED BY <1>2, <4>3, <5>1, <5>2, WritesTwice
      <4>4. QED BY <3>2, <4>1, <4>2, <4>3
    <3>4. Fits(m, r)
      BY <1>3, <3>1, <3>3 DEF Fits
    <3>5. QED BY <1>1, <1>6, <2>2, <2>3, <3>4 DEF Handle
  <2>6. QED BY <2>4, <2>5
<1>7. QED BY <1>5, <1>6

\* Every step of a dispatcher call, and its faults.
LEMMA LedgerWorker ==
  ASSUME DeliveryInv, StoryInv, NEW w \in Workers, WorkerStep(w) \/ Crash(w) \/ LoseSession(w)
  PROVE  LedgerStep
<1>1. PICK m \in Messages : m = wk[w].m
  BY CallStoryFacts
<1>2. ASSUME Busy(w) PROVE RowInv(row[m]) /\ row[m] \in Rows /\ row[m].state # "unsent" /\ Worked(m)
  BY <1>1, <1>2, CallStoryFacts DEF RowInv, CallStory, Worked, Busy
<1>3. UNCHANGED waiter => \A x \in Messages : Reads(x)
  BY DEF Reads
<1>4. CASE Settle(w) \/ Handle(w) \/ WakeDefers(w)
  <2>1. Busy(w) /\ UNCHANGED waiter
    BY <1>4 DEF Settle, Handle, WakeDefers, Busy, world
  <2>2. PICK r : Commit(m, r) /\ Fits(m, r)
    <3>1. CASE WakeDefers(w)
      <4>1. Commit(m, DeferPrepared(row[m])) /\ WakeEnabled /\ Writes(row[m], DeferPrepared(row[m]))
        BY <1>1, <1>2, <2>1, <3>1, WritesDefer DEF WakeDefers, Plain
      <4>2. Fits(m, DeferPrepared(row[m]))
        BY <1>2, <2>1, <4>1 DEF Fits
      <4>3. QED BY <4>1, <4>2
    <3>2. QED BY <1>1, <1>4, <3>1, SettledWrites
  <2>3. Release(w)
    BY <1>4 DEF Settle, Handle, WakeDefers
  <2>4. wk'[w].pc = "idle" /\ \A v \in Workers : v # w => wk'[v] = wk[v]
    BY <2>3 DEF DeliveryInv, TypeOK, Release, Idle
  <2>5. GoOn
    BY <2>4 DEF GoOn, Busy
  <2>6. MaxSessionLosses = 0 => \A v \in Workers : wk'[v].pc # "idle" => wk'[v].m # m
    BY <1>1, <2>1, <2>4 DEF StoryInv, LockInv, Busy
  <2>7. QED BY <1>3, <2>1, <2>2, <2>5, <2>6, LedgerCommit
<1>5. CASE Mark(w) \/ MarkLost(w)
  <2>1. Markable(w) /\ Busy(w) /\ UNCHANGED waiter
    BY <1>5 DEF Mark, MarkLost, Markable, Busy, world
  <2>2. GoOn
    BY <1>5, <2>1, CallGoesOn DEF Mark, MarkLost, NodeAnswers
  <2>3. PICK k : k = wk[w].att
    OBVIOUS
  <2>4. row[m].marker = 0 /\ k \in 1 .. MaxAttempts
    <3>1. wk[w].att \in 0 .. MaxAttempts
      BY CallFacts DEF Calls
    <3>2. QED BY <1>1, <2>1, <2>3, <3>1, MarkableFacts, MaxAttemptsAssumption
  <2>5. PICK r : r = RecordMarker(row[m], k) /\ Writes(row[m], r) /\ r.state = row[m].state
    BY <1>2, <2>1, <2>4, WritesMarker
  <2>6. Fits(m, r)
    BY <1>2, <2>1, <2>5 DEF Fits
  <2>7. CASE UNCHANGED row
    BY <1>3, <2>1, <2>2, <2>7, LedgerRests
  <2>8. CASE Commit(m, r)
    BY <1>3, <2>1, <2>2, <2>5, <2>6, <2>8, LedgerCommit
  <2>9. QED BY <1>1, <1>5, <2>3, <2>5, <2>7, <2>8 DEF Mark, MarkLost
<1>6. CASE Crash(w)
  <2>1. UNCHANGED <<row, waiter>> /\ Release(w)
    BY <1>6 DEF Crash, ledger, world
  <2>2. wk'[w].pc = "idle" /\ \A v \in Workers : v # w => wk'[v] = wk[v]
    BY <2>1 DEF DeliveryInv, TypeOK, Release, Idle
  <2>3. GoOn
    BY <2>2 DEF GoOn, Busy
  <2>4. QED BY <1>3, <2>1, <2>3, LedgerRests
<1>7. CASE LoseSession(w)
  <2>1. UNCHANGED <<row, waiter>> /\ wk' = [wk EXCEPT ![w].session = FALSE] /\ Busy(w)
    BY <1>7 DEF LoseSession, ledger, world, Holds
  <2>2. [wk[w] EXCEPT !.session = FALSE].m = wk[w].m
    BY CallFacts DEF Calls
  <2>3. GoOn
    BY <2>1, <2>2 DEF GoOn, Busy, DeliveryInv, TypeOK
  <2>4. QED BY <1>3, <2>1, <2>3, LedgerRests
<1>8. CASE Inside(w)
  BY <1>3, <1>8, InsideCall, LedgerRests
<1>9. QED BY <1>4, <1>5, <1>6, <1>7, <1>8 DEF WorkerStep, Inside

\* Every step of the system.
LEMMA LedgerNext ==
  ASSUME DeliveryInv, StoryInv, LedgerInv, [Next]_vars
  PROVE  LedgerStep
<1>1. CASE UNCHANGED vars
  BY <1>1, CallsStay, LedgerRests DEF vars, Reads
<1>2. ASSUME NEW m \in Messages, ReconcileNode(m) \/ Revoke(m) \/ DeadlinePasses(m)
      PROVE  LedgerStep
  <2>1. UNCHANGED <<row, wk, waiter>>
    BY <1>2 DEF ReconcileNode, Revoke, DeadlinePasses, ledger, world
  <2>2. QED BY <2>1, CallsStay, LedgerRests DEF Reads
<1>3. QED BY <1>1, <1>2, LedgerSend, LedgerClaim, LedgerWait, LedgerObserve, LedgerBegin, LedgerWorker DEF Next

\* A message nobody sent has an empty row, so no commit takes anything back.
LEMMA LedgerKeeps ==
  ASSUME DeliveryInv, LedgerInv, NEW m \in Messages, Fits(m, row'[m])
  PROVE  Keeps(row[m], row'[m])
<1>1. row[m] \in Rows
  BY DEF DeliveryInv, TypeOK
<1>2. CASE row'[m] = row[m]
  BY <1>1, <1>2 DEF Keeps, Rows
<1>3. CASE row[m].state = "unsent" /\ row'[m] = Route(m)
  BY <1>3, WritesRoute DEF LedgerInv
<1>4. QED BY <1>2, <1>3 DEF Fits, Writes

\* The ledger stays consistent.
LEMMA LedgerKept ==
  ASSUME DeliveryInv, StoryInv, LedgerInv, [Next]_vars
  PROVE  LedgerInv'
<1> SUFFICES ASSUME NEW m \in Messages
             PROVE  /\ row'[m].high = TopReceipt(row'[m])
                    /\ Kind[m] # "attachment" => Told(row'[m])
                    /\ row'[m].state = "unsent" => row'[m] = UnsentRow
                    /\ waiter'[m] = "read" => row'[m].state # "unsent"
  BY DEF LedgerInv
<1>1. /\ row[m].high = TopReceipt(row[m]) /\ (Kind[m] # "attachment" => Told(row[m]))
      /\ row[m].state = "unsent" => row[m] = UnsentRow
      /\ waiter[m] = "read" => row[m].state # "unsent"
  BY DEF LedgerInv
<1>2. Fits(m, row'[m]) /\ Reads(m)
  BY LedgerNext DEF LedgerStep
<1>3. CASE row'[m] = row[m]
  BY <1>1, <1>2, <1>3 DEF Reads
<1>4. CASE row[m].state = "unsent" /\ row'[m] = Route(m)
  <2>1. PICK r : r = row'[m]
    OBVIOUS
  <2>2. /\ r.state \in OpenStates \cup {"delivered", "blocked"} /\ r.high = TopReceipt(r)
        /\ r.state = "blocked" => Kind[m] = "attachment"
    BY <1>4, <2>1, WritesRoute
  <2>3. r.state # "unsent" /\ (Kind[m] # "attachment" => Told(r))
    BY <2>2 DEF OpenStates, Told, Obstacles
  <2>4. QED BY <2>1, <2>2, <2>3
<1>5. CASE Writes(row[m], row'[m])
  BY <1>1, <1>5 DEF Writes
<1>6. QED BY <1>2, <1>3, <1>4, <1>5 DEF Fits

\* While the locks hold, a call works on a message that is open or delivered
\* and without a notice, a notice is about a settled message, and it names the
\* obstacle the message has met.
AlertInv ==
  MaxSessionLosses = 0 =>
    /\ \A w \in Workers :
         Busy(w) => /\ row[wk[w].m].state \in OpenStates \cup {"delivered"}
                    /\ row[wk[w].m].notice = "none"
    /\ \A m \in Messages :
         /\ row[m].notice # "none" => row[m].state \in TerminalStates
         /\ Kind[m] # "attachment" /\ row[m].state \in Obstacles => row[m].notice = row[m].state

\* A commit meets a first obstacle, or none.
LEMMA FirstAlert ==
  ASSUME AlertInv, MaxSessionLosses = 0, NEW m \in Messages, NEW r,
         row[m].state # "unsent", Writes(row[m], r),
         \/ row[m].state \in OpenStates
         \/ r.state \in {"delivered", row[m].state}
         \/ Worked(m)
  PROVE  row[m].notice = "none" \/ r.state \in {"delivered", row[m].state}
  BY DEF AlertInv, Worked, OpenStates, TerminalStates

\* AlertInv is inductive.
LEMMA AlertKept ==
  ASSUME DeliveryInv, StoryInv, LedgerInv, AlertInv, [Next]_vars
  PROVE  AlertInv'
<1> SUFFICES ASSUME MaxSessionLosses = 0
             PROVE  AlertInv'
  BY DEF AlertInv
<1>1. LedgerStep /\ DeliveryInv'
  BY LedgerNext, NextPreserves
<1>2. ASSUME NEW m \in Messages
      PROVE  /\ row'[m].notice # "none" => row'[m].state \in TerminalStates
             /\ Kind[m] # "attachment" /\ row'[m].state \in Obstacles => row'[m].notice = row'[m].state
  <2>1. PICK q, r : q = row[m] /\ r = row'[m]
    OBVIOUS
  <2>2. /\ q.notice # "none" => q.state \in TerminalStates
        /\ Kind[m] # "attachment" /\ q.state \in Obstacles => q.notice = q.state
    BY <2>1 DEF AlertInv
  <2>3. CASE r = q
    BY <2>1, <2>2, <2>3
  <2>4. CASE q.state = "unsent" /\ r = Route(m)
    <3>1. r.notice = "none" /\ r.state \in OpenStates \cup {"delivered", "blocked"}
          /\ (r.state = "blocked" => Kind[m] = "attachment")
      BY <2>4, WritesRoute
    <3>2. QED BY <2>1, <3>1 DEF OpenStates, Obstacles
  <2>5. CASE /\ q.state # "unsent" /\ Writes(q, r)
             /\ q.notice = "none" \/ r.state \in {"delivered", q.state}
    <3>1. \A s \in Obstacles : s \in TerminalStates /\ s # "none"
      BY DEF Obstacles, TerminalStates
    <3>2. "delivered" \in TerminalStates /\ "delivered" \notin Obstacles
      BY DEF Obstacles, TerminalStates
    <3>3. Alerts(q, r) /\ (q.notice # "none" => r.notice = q.notice)
      BY <2>5 DEF Writes, Keeps
    <3>4. CASE q.notice = "none"
      BY <2>1, <2>2, <3>1, <3>3, <3>4 DEF Alerts
    <3>5. CASE q.notice # "none"
      BY <2>1, <2>2, <2>5, <3>1, <3>2, <3>3, <3>5
    <3>6. QED BY <3>4, <3>5
  <2>6. QED
    <3>1. Fits(m, r)
      BY <1>1, <2>1 DEF LedgerStep
    <3>2. QED BY <2>1, <2>3, <2>4, <2>5, <3>1, FirstAlert DEF Fits
<1>3. ASSUME NEW w \in Workers, wk'[w].pc # "idle"
      PROVE  row'[wk'[w].m].state \in OpenStates \cup {"delivered"} /\ row'[wk'[w].m].notice = "none"
  <2>1. PICK m \in Messages : m = wk'[w].m
    BY <1>1 DEF DeliveryInv, TypeOK, Calls
  <2>2. PICK q, r : q = row[m] /\ r = row'[m]
    OBVIOUS
  <2>3. \/ q.state \in OpenStates /\ r.state \in OpenStates
        \/ Busy(w) /\ wk[w].m = m /\ r.state \in OpenStates \cup {"delivered", q.state}
    BY <1>1, <1>3, <2>1, <2>2 DEF LedgerStep, Works
  <2>4. /\ q.state \in OpenStates \cup {"delivered"} /\ q.notice = "none"
        /\ r.state \in OpenStates \cup {"delivered"}
    <3>1. q.state \in OpenStates => q.notice = "none"
      BY <2>2 DEF AlertInv, OpenStates, TerminalStates
    <3>2. Busy(w) /\ wk[w].m = m => q.state \in OpenStates \cup {"delivered"} /\ q.notice = "none"
      BY <2>2 DEF AlertInv
    <3>3. QED BY <2>3, <3>1, <3>2
  <2>5. r = q \/ Writes(q, r)
    <3>1. q.state # "unsent"
      BY <2>4 DEF OpenStates
    <3>2. QED BY <1>1, <2>2, <3>1 DEF LedgerStep, Fits
  <2>6. r.notice = "none"
    BY <2>4, <2>5 DEF Writes, Alerts, OpenStates, Obstacles
  <2>7. QED BY <2>1, <2>2, <2>4, <2>6
<1>4. QED BY <1>2, <1>3 DEF AlertInv, Busy

\* n2 has the receipts of n, its invocation and attempt, and does not offer a
\* spent invocation again.
NodeKeeps(n, n2) ==
  /\ n.inbox => n2.inbox
  /\ n.disp # 0 => n2.disp = n.disp
  /\ n.ack => n2.ack
  /\ n.inv # "none" => n2.inv # "none" /\ n2.att = n.att
  /\ Spent(n) => Spent(n2)

\* One journal entry is rewritten.
Rewrites(m) == \E n : Journal(m, n) /\ NodeKeeps(node[m], n)

\* An entry left as it is.
LEMMA NodeSame ==
  ASSUME NEW n
  PROVE  NodeKeeps(n, n)
  BY DEF NodeKeeps

\* The journal of every message after a step.
LEMMA JournalKeeps ==
  ASSUME DeliveryInv, UNCHANGED node \/ \E m \in Messages : Rewrites(m), NEW x \in Messages
  PROVE  NodeKeeps(node[x], node'[x])
<1>1. CASE UNCHANGED node
  BY <1>1, NodeSame
<1>2. ASSUME NEW m \in Messages, Rewrites(m) PROVE NodeKeeps(node[x], node'[x])
  <2>1. PICK n : Journal(m, n) /\ NodeKeeps(node[m], n)
    BY <1>2 DEF Rewrites
  <2>2. node'[m] = n /\ (x # m => node'[x] = node[x])
    BY <2>1 DEF Journal, DeliveryInv, TypeOK
  <2>3. QED BY <2>1, <2>2, NodeSame
<1>3. QED BY <1>1, <1>2

\* The steps of a call inside the Node and the Native.
LEMMA CallRewrites ==
  ASSUME DeliveryInv, NEW w \in Workers, WorkerStep(w)
  PROVE  UNCHANGED node \/ Rewrites(wk[w].m)
<1>1. PICK m \in Messages : m = wk[w].m
  BY CallFacts
<1>2. PICK n \in NodeRows : n = node[m]
  BY <1>1, CallFacts
<1>3. CASE \/ WakeDefers(w) \/ CheckFails(w) \/ TransportFails(w) \/ EnterNative(w) \/ DriverDefers(w)
           \/ InvokeNative(w) \/ Mark(w) \/ Settle(w) \/ SettleRefused(w) \/ Handle(w)
  BY <1>3 DEF WakeDefers, CheckFails, TransportFails, EnterNative, DriverDefers, InvokeNative, Mark,
              Settle, SettleRefused, Handle, ledger
<1>4. CASE CommitInbox(w)
  <2>1. PICK n2 : n2 = [n EXCEPT !.inbox = TRUE]
    OBVIOUS
  <2>2. NodeKeeps(n, n2)
    BY <2>1 DEF NodeKeeps, NodeRows, Spent
  <2>3. Journal(m, n2)
    BY <1>1, <1>2, <1>4, <2>1, Zenon DEF CommitInbox
  <2>4. QED BY <1>1, <1>2, <2>2, <2>3 DEF Rewrites
<1>5. CASE Fence(w)
  <2>1. PICK k : k = wk[w].att
    OBVIOUS
  <2>2. PICK n2 : n2 = [n EXCEPT !.inv = "prepared", !.att = k]
    OBVIOUS
  <2>3. UNCHANGED node \/ (n.inv = "none" /\ Journal(m, n2))
    BY <1>1, <1>2, <1>5, <2>1, <2>2, Zenon DEF Fence
  <2>4. n.inv = "none" => NodeKeeps(n, n2)
    BY <2>2 DEF NodeKeeps, NodeRows, Spent
  <2>5. QED BY <1>1, <1>2, <2>3, <2>4 DEF Rewrites
<1>6. ASSUME RejectPreCall(w) PROVE Rewrites(m)
  <2>1. PICK n2 : n2 = [n EXCEPT !.inv = "pre_call_rejected"]
    OBVIOUS
  <2>2. NodeKeeps(n, n2)
    BY <2>1 DEF NodeKeeps, NodeRows, Spent
  <2>3. Journal(m, n2)
    BY <1>1, <1>2, <1>6, <2>1, Zenon DEF RejectPreCall
  <2>4. QED BY <1>2, <2>2, <2>3 DEF Rewrites
<1>7. ASSUME NodeAnswers(w, Doubt(n)) \/ NodeAnswers(w, [n EXCEPT !.inv = "uncertain"]) PROVE Rewrites(m)
  <2>1. PICK n2 : (n2 = Doubt(n) \/ n2 = [n EXCEPT !.inv = "uncertain"]) /\ NodeAnswers(w, n2)
    BY <1>7, Zenon
  <2>2. NodeKeeps(n, n2)
    BY <2>1 DEF NodeKeeps, NodeRows, Spent, Doubt
  <2>3. QED BY <1>1, <1>2, <2>1, <2>2 DEF Rewrites, NodeAnswers
<1>8. CASE MarkDenied(w) \/ MarkConflicts(w) \/ MarkRouted(w) \/ DriverRejects(w) \/ DriverFaults(w)
  <2>1. \/ UNCHANGED node \/ RejectPreCall(w) \/ NodeAnswers(w, Doubt(n))
        \/ NodeAnswers(w, [n EXCEPT !.inv = "uncertain"])
    BY <1>1, <1>2, <1>8, Zenon DEF MarkDenied, MarkConflicts, MarkRouted, DriverRejects, DriverFaults
  <2>2. QED BY <1>1, <1>6, <1>7, <2>1
<1>9. CASE MarkLost(w)
  <2>1. UNCHANGED node \/ NodeAnswers(w, Doubt(n))
    BY <1>1, <1>2, <1>9, Zenon DEF MarkLost
  <2>2. QED BY <1>1, <1>7, <2>1
<1>10. CASE DriverStops(w) \/ CommitInvocation(w)
  <2>1. wk[w].pc \in {"marked", "called"}
    BY <1>10, Zenon DEF DriverStops, CommitInvocation
  <2>2. n.disp = 0 /\ ~n.ack
    BY <1>1, <1>2, <2>1, CallFacts DEF CallInv, MessageInv
  <2>3. PICK k : k = wk[w].att
    OBVIOUS
  <2>4. CASE DriverStops(w)
    <3>1. PICK n2 : n2 = [n EXCEPT !.disp = k, !.inv = "uncertain"]
      OBVIOUS
    <3>2. Journal(m, n2)
      BY <1>1, <1>2, <2>3, <2>4, <3>1, Zenon DEF DriverStops, NodeAnswers
    <3>3. NodeKeeps(n, n2)
      BY <2>2, <3>1 DEF NodeKeeps, NodeRows, Spent
    <3>4. QED BY <1>1, <1>2, <3>2, <3>3 DEF Rewrites
  <2>5. CASE CommitInvocation(w)
    <3>1. PICK b \in BOOLEAN :
            Journal(m, [n EXCEPT !.disp = k, !.ack = b,
                                 !.inv = IF b THEN "acknowledged" ELSE "uncertain"])
      BY <1>1, <1>2, <2>3, <2>5, Zenon DEF CommitInvocation, NodeAnswers
    <3>2. PICK s : s = IF b THEN "acknowledged" ELSE "uncertain"
      OBVIOUS
    <3>3. PICK n2 : n2 = [n EXCEPT !.disp = k, !.ack = b, !.inv = s]
      OBVIOUS
    <3>4. Journal(m, n2)
      BY <3>1, <3>2, <3>3, Zenon
    <3>5. NodeKeeps(n, n2)
      <4>1. /\ n2.inbox = n.inbox /\ n2.disp = k /\ n2.inv = s /\ n2.att = n.att
            /\ s \in {"uncertain", "acknowledged"}
        BY <3>2, <3>3 DEF NodeRows
      <4>2. QED BY <2>2, <4>1 DEF NodeKeeps, Spent
    <3>6. QED BY <1>1, <1>2, <3>4, <3>5 DEF Rewrites
  <2>6. QED BY <1>10, <2>4, <2>5
<1>11. QED BY <1>1, <1>3, <1>4, <1>5, <1>8, <1>9, <1>10 DEF WorkerStep

\* Every step of the system.
LEMMA NodeNext ==
  ASSUME DeliveryInv, [Next]_vars
  PROVE  \A x \in Messages : NodeKeeps(node[x], node'[x])
<1>1. CASE UNCHANGED vars
  BY <1>1, JournalKeeps DEF vars
<1>2. ASSUME NEW m \in Messages, ReconcileNode(m) PROVE UNCHANGED node \/ Rewrites(m)
  <2>1. PICK n \in NodeRows : n = node[m]
    BY DEF DeliveryInv, TypeOK
  <2>2. PICK n2 : n2 = [n EXCEPT !.ack = TRUE, !.inv = "acknowledged"]
    OBVIOUS
  <2>3. Journal(m, n2)
    BY <1>2, <2>1, <2>2, Zenon DEF ReconcileNode
  <2>4. NodeKeeps(n, n2)
    BY <2>2 DEF NodeKeeps, NodeRows, Spent
  <2>5. QED BY <2>1, <2>3, <2>4 DEF Rewrites
<1>3. ASSUME NEW m \in Messages,
             \/ Send(m) \/ ClaimStep(m) \/ WaitStep(m) \/ ObserveDelivered(m)
             \/ Revoke(m) \/ DeadlinePasses(m)
             \/ \E w \in Workers : ClaimReuse(w, m) \/ ClaimNew(w, m)
      PROVE  UNCHANGED node
  <2>1. CASE ClaimStep(m) \/ Send(m) \/ ObserveDelivered(m)
    BY <2>1 DEF ClaimStep, ClaimInterrupted, ClaimExhausted, ClaimDenied, ClaimSlotBusy,
                ClaimNoEndpoint, WakeReadback, Send, ObserveDelivered
  <2>2. CASE WaitStep(m) \/ Revoke(m) \/ DeadlinePasses(m)
    BY <2>2 DEF WaitStep, RegisterWait, ReadReply, RetainReply, LeaveEarly, EndWait, WaiterDies,
                LeaseExpires, Reclaim, Revoke, DeadlinePasses, ledger
  <2>3. CASE \E w \in Workers : ClaimReuse(w, m) \/ ClaimNew(w, m)
    BY <2>3 DEF ClaimReuse, ClaimNew
  <2>4. QED BY <1>3, <2>1, <2>2, <2>3
<1>4. ASSUME NEW w \in Workers, Crash(w) \/ LoseSession(w) PROVE UNCHANGED node
  BY <1>4 DEF Crash, LoseSession, ledger
<1>5. ASSUME NEW w \in Workers, WorkerStep(w)
      PROVE  UNCHANGED node \/ \E m \in Messages : Rewrites(m)
  BY <1>5, CallRewrites, CallFacts
<1>6. CASE Next
  <2>1. UNCHANGED node \/ \E m \in Messages : Rewrites(m)
    BY <1>2, <1>3, <1>4, <1>5, <1>6 DEF Next
  <2>2. QED BY <2>1, JournalKeeps
<1>7. QED BY <1>1, <1>6

---------------------------------------------------------------------------
(* Theorems *)

\* DeliveryInv holds in every reachable state.
THEOREM InductiveInvariant == Spec => []DeliveryInv
<1>1. Init => DeliveryInv
  BY InitInv
<1>2. DeliveryInv /\ [Next]_vars => DeliveryInv'
  BY NextPreserves
<1>3. QED BY <1>1, <1>2, PTL DEF Spec

\* Every component keeps its type; no message ever opens more attempts than
\* its packet allows (dispatch).
THEOREM TypeCorrect == Spec => []TypeOK
<1>1. DeliveryInv => TypeOK
  BY DEF DeliveryInv
<1>2. QED BY <1>1, InductiveInvariant, PTL

\* Node and ledger evidence is never ahead of what happened (_receipt,
\* _project).
THEOREM Evidence == Spec => []EvidenceIsReal
<1>1. DeliveryInv => EvidenceIsReal
  BY DEF DeliveryInv, EvidenceIsReal, MessageInv
<1>2. QED BY <1>1, InductiveInvariant, PTL

\* The dispatcher implements the hand-off promise.
THEOREM Refinement == Spec => AtMostOneCall
<1>1. Init => Handoff!Init
  BY UnsentInv DEF Init, Handoff!Init
<1>2. DeliveryInv /\ [Next]_vars =>
        [Handoff!Next]_<<[m \in Messages |-> row[m].marker # 0], native>>
  <2> SUFFICES ASSUME DeliveryInv, [Next]_vars
               PROVE  [Handoff!Next]_<<[m \in Messages |-> row[m].marker # 0], native>>
    OBVIOUS
  <2>1. HandoffStep /\ TypeOK /\ TypeOK'
    BY NextPreserves DEF DeliveryInv
  <2>2. CASE \A x \in Messages : Same(x)
    BY <2>1, <2>2 DEF Same, TypeOK
  <2>3. ASSUME NEW m \in Messages, \A x \in Messages : x # m => Same(x),
               row[m].marker = 0, row'[m].marker # 0, native'[m] = native[m]
        PROVE  Handoff!WriteMarker(m)
    <3>1. native' = native
      BY <2>1, <2>3 DEF Same, TypeOK
    <3>2. [x \in Messages |-> row'[x].marker # 0]
            = [[x \in Messages |-> row[x].marker # 0] EXCEPT ![m] = TRUE]
      <4>1. \A x \in Messages :
              (row'[x].marker # 0) = (IF x = m THEN TRUE ELSE row[x].marker # 0)
        BY <2>3 DEF Same
      <4>2. QED BY <4>1, Zenon
    <3>3. QED BY <2>3, <3>1, <3>2 DEF Handoff!WriteMarker
  <2>4. ASSUME NEW m \in Messages, \A x \in Messages : x # m => Same(x),
               row[m].marker # 0, row'[m].marker = row[m].marker,
               native[m] = 0, native'[m] = 1
        PROVE  Handoff!CallNative(m)
    BY <2>1, <2>4 DEF Same, TypeOK, Handoff!CallNative
  <2>5. QED BY <2>1, <2>2, <2>3, <2>4 DEF HandoffStep, Handoff!Next
<1>3. QED BY <1>1, <1>2, InductiveInvariant, PTL DEF Spec, AtMostOneCall, Handoff!Spec

\* StoryInv holds in every reachable state: what a ledger row reports beside
\* its Node journal and the calls that work on it.
THEOREM StoryInvariant == Spec => []StoryInv
<1>1. Init => StoryInv
  BY StoryInit
<1>2. DeliveryInv /\ StoryInv /\ [Next]_vars => StoryInv'
  BY NextStory DEF StoryNext
<1>3. QED BY <1>1, <1>2, InductiveInvariant, PTL DEF Spec

\* A message reported as delivered was acknowledged by its Native, put into an
\* Inbox, or given to a Tool Result, with receiver wake or without, and
\* however many lock sessions are lost (_finish, _retain_wait_ingress,
\* _send_message).
THEOREM DeliveredIsProved == Spec => []DeliveredHasEvidence
<1>1. StoryInv => DeliveredHasEvidence
  BY DEF StoryInv, RowStory, DeliveredHasEvidence
<1>2. QED BY <1>1, StoryInvariant, PTL

\* While a live wait holds the reservation of a reply, no step opens or marks
\* an attempt for it (gate, dispatch).
THEOREM ReservationsHold == Spec => ReservationHolds
<1>1. DeliveryInv /\ StoryInv /\ [Next]_vars =>
        [\A m \in Messages :
           row[m].ingress = "reserved" /\ lease[m] =>
             row'[m].attempts = row[m].attempts /\ row'[m].marker = row[m].marker]_vars
  BY NextStory DEF StoryNext, Held
<1>2. QED BY <1>1, InductiveInvariant, StoryInvariant, PTL DEF Spec, ReservationHolds

\* Without receiver wake, or while no lock session is lost, a marked message
\* is settled by readback only and no further attempt is opened for it
\* (mark_dispatched, _failure, the interrupted claim of dispatch).
THEOREM MarkedStaysMarked ==
  ASSUME LocksOrNoWake
  PROVE  Spec => []MarkedOnlyReadBack
<1>1. StoryInv => MarkedOnlyReadBack
  BY DEF StoryInv, RowStory, MarkedOnlyReadBack
<1>2. QED BY <1>1, StoryInvariant, PTL

\* A reply that was given to a Tool Result never starts a Native turn: without
\* receiver wake even when dispatcher calls have lost their locks, and beside
\* receiver wake when the ingress table exists and the locks hold
\* (_retain_wait_ingress, gate, mark_dispatched, the fence of deliver).
THEOREM RetainedStaysSilent ==
  ASSUME ~WakeEnabled \/ Guarded
  PROVE  Spec => []RetainedNeverInvoked
<1>1. Init => GateInv
  BY DEF Init, GateInv
<1>2. DeliveryInv /\ StoryInv /\ GateInv /\ [Next]_vars => GateInv'
  BY GateNext
<1>3. DeliveryInv /\ StoryInv /\ GateInv => RetainedNeverInvoked
  BY DEF StoryInv, RowStory, DeliveryInv, MessageInv, RetainedNeverInvoked, GateInv, GateOK
<1>4. QED BY <1>1, <1>2, <1>3, InductiveInvariant, StoryInvariant, PTL DEF Spec

\* LedgerInv and, while the locks hold, AlertInv in every reachable state.
THEOREM LedgerInvariant == Spec => [](LedgerInv /\ AlertInv)
<1>1. Init => LedgerInv /\ AlertInv
  BY DEF Init, LedgerInv, AlertInv, TopReceipt, Told, UnsentRow, Obstacles, Busy, Idle
<1>2. DeliveryInv /\ StoryInv /\ LedgerInv /\ AlertInv /\ [Next]_vars => LedgerInv' /\ AlertInv'
  BY LedgerKept, AlertKept
<1>3. QED BY <1>1, <1>2, InductiveInvariant, StoryInvariant, PTL DEF Spec

\* receipt_high_water is the highest layer with a receipt, although routing
\* and _retain_wait_ingress write it without comparing; and a message at an
\* obstacle has its notice, whichever transaction put it there (attachments,
\* which send_message blocks by itself, excepted).
HighWaterIsTrue ==
  \A m \in Messages :
    /\ row[m].high = TopReceipt(row[m])
    /\ Kind[m] # "attachment" /\ row[m].state \in Obstacles => row[m].notice # "none"

\* The ledger's summaries agree with its receipts and notices
\* (_record_receipt, _finish, record_obstacle, _retain_wait_ingress).
THEOREM SummariesAreTrue == Spec => []HighWaterIsTrue
<1>1. LedgerInv => HighWaterIsTrue
  BY DEF LedgerInv, HighWaterIsTrue, Told
<1>2. QED BY <1>1, LedgerInvariant, PTL

\* No step takes back a receipt, the first notice or an attempt, and none
\* lowers the high water mark: not a retry, not a deferral, not a reply wait.
ReceiptsStay ==
  [][\A m \in Messages :
       /\ Keeps(row[m], row'[m])
       /\ Rank(row[m].high) <= Rank(row'[m].high)]_vars

\* The evidence of the ledger only grows (_record_receipt, _project,
\* _retain_wait_ingress).
THEOREM LedgerIsMonotone == Spec => ReceiptsStay
<1>1. DeliveryInv /\ StoryInv /\ LedgerInv /\ LedgerInv' /\ [Next]_vars =>
        [\A m \in Messages :
           /\ Keeps(row[m], row'[m])
           /\ Rank(row[m].high) <= Rank(row'[m].high)]_vars
  <2> SUFFICES ASSUME DeliveryInv, StoryInv, LedgerInv, LedgerInv', [Next]_vars, NEW m \in Messages
               PROVE  Keeps(row[m], row'[m]) /\ Rank(row[m].high) <= Rank(row'[m].high)
    OBVIOUS
  <2>1. Keeps(row[m], row'[m])
    BY LedgerNext, LedgerKeeps DEF LedgerStep
  <2>2. PICK q, r : q = row[m] /\ r = row'[m]
    OBVIOUS
  <2>3. q.high = TopReceipt(q) /\ r.high = TopReceipt(r)
    BY <2>2 DEF LedgerInv
  <2>4. Rank(TopReceipt(q)) <= Rank(TopReceipt(r))
    BY <2>1, <2>2 DEF Keeps, TopReceipt, Rank
  <2>5. QED BY <2>1, <2>2, <2>3, <2>4
<1>2. QED BY <1>1, InductiveInvariant, StoryInvariant, LedgerInvariant, PTL DEF Spec, ReceiptsStay

\* The notice of a message names the obstacle it has met, and only settled
\* messages have one.
NoticeNamesObstacle ==
  \A m \in Messages :
    /\ row[m].notice # "none" => row[m].state \in TerminalStates
    /\ Kind[m] # "attachment" /\ row[m].state \in Obstacles => row[m].notice = row[m].state

\* A message meets an obstacle only when it has no notice yet, so the notice
\* that ON CONFLICT DO NOTHING keeps is never about an earlier obstacle.
OneObstacle ==
  [][\A m \in Messages :
       row'[m].state \in Obstacles /\ row'[m].state # row[m].state => row[m].notice = "none"]_vars

\* Without receiver wake a settled message stays settled.
SettledStays ==
  [][\A m \in Messages :
       row[m].state \in TerminalStates => row'[m].state \in TerminalStates]_vars

\* While no lock session is lost, the first notice of a message tells the
\* sender what really became of it (record_obstacle).
THEOREM NoticesAreCurrent ==
  ASSUME MaxSessionLosses = 0
  PROVE  Spec => []NoticeNamesObstacle
<1>1. AlertInv => NoticeNamesObstacle
  BY DEF AlertInv, NoticeNamesObstacle
<1>2. QED BY <1>1, LedgerInvariant, PTL

\* While no lock session is lost, a message meets one obstacle in its life,
\* which is what the notices and their escalation assume (_finish,
\* record_obstacle, the claim conditions of dispatch).
THEOREM ObstaclesAreMetOnce ==
  ASSUME MaxSessionLosses = 0
  PROVE  Spec => OneObstacle
<1>1. DeliveryInv /\ StoryInv /\ LedgerInv /\ AlertInv /\ [Next]_vars =>
        [\A m \in Messages :
           row'[m].state \in Obstacles /\ row'[m].state # row[m].state => row[m].notice = "none"]_vars
  <2> SUFFICES ASSUME DeliveryInv, StoryInv, LedgerInv, AlertInv, [Next]_vars, NEW m \in Messages,
                      row'[m].state \in Obstacles, row'[m].state # row[m].state
               PROVE  row[m].notice = "none"
    OBVIOUS
  <2>1. Fits(m, row'[m])
    BY LedgerNext DEF LedgerStep
  <2>2. CASE row[m].state = "unsent"
    BY <2>2 DEF LedgerInv, UnsentRow
  <2>3. CASE row[m].state # "unsent"
    <3>1. row[m].notice = "none" \/ row'[m].state \in {"delivered", row[m].state}
      BY <2>1, <2>3, FirstAlert DEF Fits
    <3>2. QED BY <3>1 DEF Obstacles
  <2>4. QED BY <2>2, <2>3
<1>2. QED BY <1>1, InductiveInvariant, StoryInvariant, LedgerInvariant, PTL DEF Spec, OneObstacle

\* Without receiver wake and while no lock session is lost, nothing reopens a
\* settled message (the claim conditions of dispatch, the handler, reclaim).
THEOREM SettledStaysSettled ==
  ASSUME ~WakeEnabled, MaxSessionLosses = 0
  PROVE  Spec => SettledStays
<1>1. DeliveryInv /\ StoryInv /\ LedgerInv /\ AlertInv /\ [Next]_vars =>
        [\A m \in Messages :
           row[m].state \in TerminalStates => row'[m].state \in TerminalStates]_vars
  <2> SUFFICES ASSUME DeliveryInv, StoryInv, LedgerInv, AlertInv, [Next]_vars, NEW m \in Messages,
                      row[m].state \in TerminalStates
               PROVE  row'[m].state \in TerminalStates
    OBVIOUS
  <2>1. Fits(m, row'[m])
    BY LedgerNext DEF LedgerStep
  <2>2. row[m].state # "unsent" /\ row[m].state \notin OpenStates /\ "delivered" \in TerminalStates
    BY DEF TerminalStates, OpenStates
  <2>3. Worked(m) => row[m].state = "delivered"
    BY <2>2 DEF Worked, AlertInv
  <2>4. QED BY <2>1, <2>2, <2>3 DEF Fits
<1>2. QED BY <1>1, InductiveInvariant, StoryInvariant, LedgerInvariant, PTL DEF Spec, SettledStays

\* The Node journal keeps its receipts and the attempt of its one invocation,
\* and never offers an invocation again whose call may have been made.
JournalStays == [][\A m \in Messages : NodeKeeps(node[m], node'[m])]_vars

\* Whatever crashes or loses its locks, the journal of the Node only grows
\* (deliver, on_dispatch, reconcile_delivery).
THEOREM JournalIsMonotone == Spec => JournalStays
<1>1. DeliveryInv /\ [Next]_vars => [\A m \in Messages : NodeKeeps(node[m], node'[m])]_vars
  BY NodeNext
<1>2. QED BY <1>1, InductiveInvariant, PTL DEF Spec, JournalStays

============================================================================
