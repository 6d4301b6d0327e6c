------------------------------ MODULE Delivery ------------------------------
(***************************************************************************)
(* Delivery of natural messages: the dispatcher calls that claim, prepare, *)
(* mark, invoke and settle a message, the Node endpoint with its SQLite    *)
(* journal, the one Native call, and the reply waits that may take the     *)
(* message for a Tool Result instead.                                      *)
(*                                                                         *)
(* A worker is one running DeliveryDispatcher.dispatch call.  Its pc says  *)
(* which committed step it has passed; every action is one transaction (or *)
(* one Native call), so all interleavings and a crash between any two of   *)
(* them are covered.  Advisory locks are not variables: a worker holds the *)
(* lock of its message and slot exactly while it is busy and its lock      *)
(* session lives, and it holds the Node's SQLite writer fence in the three *)
(* steps that run inside one journal transaction.                          *)
(***************************************************************************)
EXTENDS DeliveryLedger

CONSTANTS
  Messages,          \* natural messages (acs-message/1)
  Workers,           \* concurrent dispatcher calls
  Kind,              \* message |-> "invoke", "inbox" or "attachment"
  Slot,              \* message |-> target Agent slot
  Awaited,           \* messages that answer a request somebody waits on
  IngressRecovery,   \* _wait_ingress_recovery_enabled
  IngressStorage,    \* _wait_ingress_storage_available
  WakeEnabled,       \* receiver wake before Native input is configured
  MaxCrashes,        \* bound on dispatcher crashes
  MaxSessionLosses   \* bound on lost lock sessions

ASSUME DeliveryAssumption ==
  /\ Messages # {}
  /\ Kind \in [Messages -> {"invoke", "inbox", "attachment"}]
  /\ Awaited \subseteq Messages
  /\ {IngressRecovery, IngressStorage, WakeEnabled} \subseteq BOOLEAN
  /\ MaxCrashes \in Nat /\ MaxSessionLosses \in Nat

VARIABLES
  row,        \* PostgreSQL ledger row of every message
  node,       \* Node journal of every message (committed SQLite state)
  native,     \* number of Native calls made for every message
  wk,         \* the dispatcher calls
  auth,       \* does _authorize accept the message now?
  lease,      \* is there an unexpired communication_waits row?
  waiter,     \* the wait_for_response call on the message's request
  retained,   \* history: a Tool Result was given this message
  crashes, losses

ledger == <<row, node, native>>
world  == <<auth, lease, waiter, retained>>
faults == <<crashes, losses>>
vars   == <<row, node, native, wk, auth, lease, waiter, retained, crashes, losses>>

---------------------------------------------------------------------------
(* Components of the state *)

Invocations == {"none", "prepared", "pre_call_rejected", "uncertain",
                "acknowledged"}

NodeRows ==
  [inbox : BOOLEAN,             \* target_inbox_committed receipt
   inv   : Invocations,         \* delivery_invocations.state
   att   : 0 .. MaxAttempts,    \* attempt of the stored invocation
   disp  : 0 .. MaxAttempts,    \* attempt of the runtime_dispatched receipt
   ack   : BOOLEAN]             \* runtime_acknowledged receipt

EmptyNode == [inbox |-> FALSE, inv |-> "none", att |-> 0, disp |-> 0, ack |-> FALSE]

\* The errors _failure tells apart, and the two it never sees as such:
\* "rejected" is InvocationPreCallRejected, "deferred" InvocationDeferred.
Errors == {"none", "expired", "denied", "transport", "boundary", "rejected",
           "deferred"}

InFence == {"boundary", "marked", "called"}   \* inside the last Node transaction

Pcs == {"idle", "claimed", "inboxed", "fenced", "returned", "failed"} \cup InFence

NoObservation == [status |-> "uncertain", inbox |-> FALSE, disp |-> 0, acked |-> FALSE]

Idle == [pc |-> "idle", m |-> CHOOSE m \in Messages : TRUE, att |-> 0,
         err |-> "none", obs |-> NoObservation, session |-> TRUE]

Calls == [pc : Pcs, m : Messages, att : 0 .. MaxAttempts, err : Errors,
          obs : Observations, session : BOOLEAN]

Busy(w) == wk[w].pc # "idle"

Holds(w) == Busy(w) /\ wk[w].session

\* pg_try_advisory_lock on the message and on its target slot.
MessageFree(m) == \A w \in Workers : ~(Holds(w) /\ wk[w].m = m)

SlotFree(m) == \A w \in Workers : ~(Holds(w) /\ Slot[wk[w].m] = Slot[m])

\* journal._transaction: BEGIN IMMEDIATE admits one writer.
NodeFree == \A w \in Workers : wk[w].pc \notin InFence

IngressOn == IngressRecovery \/ IngressStorage

\* What a refused _authorize or Node _check raises; the Node's own clock may
\* notice the deadline first, and then the error is a boundary rejection.
CheckErrors(m) ==
  CASE auth[m] = "denied"  -> {"denied"}
    [] auth[m] = "expired" -> {"expired", "boundary"}
    [] OTHER               -> {}

\* Mutant: a recorded dispatch already counts as delivered.
InspectOptimistic(n, status) ==
  [status |-> IF n.disp # 0 THEN "delivered" ELSE status,
   inbox |-> n.inbox, disp |-> n.disp, acked |-> n.ack]

\* inspect_delivery: only an acknowledgement proves an invoking delivery.
Inspect(n, status) ==
  [status |-> IF n.ack THEN "delivered" ELSE status,
   inbox |-> n.inbox, disp |-> n.disp, acked |-> n.ack]

Init ==
  /\ row      = [m \in Messages |-> UnsentRow]
  /\ node     = [m \in Messages |-> EmptyNode]
  /\ native   = [m \in Messages |-> 0]
  /\ wk       = [w \in Workers |-> Idle]
  /\ auth     = [m \in Messages |-> "ok"]
  /\ lease    = [m \in Messages |-> FALSE]
  /\ waiter   = [m \in Messages |-> "out"]
  /\ retained = [m \in Messages |-> FALSE]
  /\ crashes  = 0
  /\ losses   = 0

---------------------------------------------------------------------------
(* Sending *)

\* send_message and the routing at the end of _send_message, one commit.
Route(m) ==
  LET queued == [UnsentRow EXCEPT !.state = "queued"]
  IN  CASE Kind[m] = "inbox"      -> ToInbox(queued, "delivered")
        [] Kind[m] = "attachment" -> ToInbox(queued, "blocked")
        [] lease[m]               -> IF IngressRecovery THEN Reserve(queued)
                                     ELSE ToInbox(queued, "delivered")
        [] OTHER                  -> queued

Send(m) ==
  /\ row[m].state = "unsent"
  /\ auth[m] = "ok"
  /\ row' = [row EXCEPT ![m] = Route(m)]
  /\ UNCHANGED <<node, native, wk, world, faults>>

---------------------------------------------------------------------------
(* Claiming: the first transaction of dispatch *)

\* A due, open message whose lock is free and that no wait channel owns; r is
\* its row after gate() has run in the same transaction.
Claimable(m) ==
  /\ row[m].state \in OpenStates
  /\ MessageFree(m)
  /\ IngressOn => ~GateHolds(row[m], lease[m])

Gated(m) == IF IngressOn THEN Gate(row[m]) ELSE row[m]

Commit(m, r) == row' = [row EXCEPT ![m] = r]

\* Mutant: a marked attempt is put off instead of being settled.
ClaimInterruptedDefers(m) ==
  /\ Claimable(m)
  /\ row[m].attempt = "runtime_dispatched"
  /\ Commit(m, DeferPrepared(Gated(m)))
  /\ UNCHANGED <<node, native, wk, world, faults>>

\* A marked attempt whose call is gone is settled without another call.
ClaimInterrupted(m) ==
  /\ Claimable(m)
  /\ row[m].attempt = "runtime_dispatched"
  /\ Commit(m, Finish(Gated(m), "uncertain"))
  /\ UNCHANGED <<node, native, wk, world, faults>>

\* No open attempt and none left to open.
Exhausted(m) == row[m].attempt \notin OpenAttempt /\ row[m].attempts >= MaxAttempts

ClaimExhausted(m) ==
  /\ Claimable(m)
  /\ Exhausted(m)
  /\ Commit(m, Finish(Gated(m), "budget_exhausted"))
  /\ UNCHANGED <<node, native, wk, world, faults>>

\* The claims below passed the interrupted and the budget test.
Admissible(m) ==
  Claimable(m) /\ row[m].attempt # "runtime_dispatched" /\ ~Exhausted(m)

ClaimDenied(m) ==
  /\ Admissible(m)
  /\ auth[m] # "ok"
  /\ Commit(m, Failure(Gated(m), auth[m]))
  /\ UNCHANGED <<node, native, wk, world, faults>>

ClaimSlotBusy(m) ==
  /\ Admissible(m) /\ auth[m] = "ok"
  /\ ~SlotFree(m)
  /\ Commit(m, DeferPrepared(Gated(m)))
  /\ UNCHANGED <<node, native, wk, world, faults>>

\* The configured endpoint is missing: a prepared attempt waits for it, a new
\* attempt is opened and closed again in the same transaction.
ClaimNoEndpoint(m) ==
  /\ Admissible(m) /\ auth[m] = "ok" /\ SlotFree(m)
  /\ Commit(m, IF row[m].attempt = "prepared"
                 THEN DeferPrepared(Gated(m))
                 ELSE Failure(NewAttempt(Gated(m)), "transport"))
  /\ UNCHANGED <<node, native, wk, world, faults>>

Begin(w, m) == wk' = [wk EXCEPT ![w] = [Idle EXCEPT !.pc = "claimed", !.m = m]]

ClaimReuse(w, m) ==
  /\ wk[w].pc = "idle"
  /\ Admissible(m) /\ auth[m] = "ok" /\ SlotFree(m)
  /\ row[m].attempt = "prepared"
  /\ Commit(m, Gated(m))
  /\ Begin(w, m)
  /\ UNCHANGED <<node, native, world, faults>>

\* Mutant: a prepared attempt is not reused.
ClaimAlwaysNew(w, m) ==
  /\ wk[w].pc = "idle"
  /\ Admissible(m) /\ auth[m] = "ok" /\ SlotFree(m)
  /\ Commit(m, NewAttempt(Gated(m)))
  /\ Begin(w, m)
  /\ UNCHANGED <<node, native, world, faults>>

ClaimNew(w, m) ==
  /\ wk[w].pc = "idle"
  /\ Admissible(m) /\ auth[m] = "ok" /\ SlotFree(m)
  /\ row[m].attempt # "prepared"
  /\ Commit(m, NewAttempt(Gated(m)))
  /\ Begin(w, m)
  /\ UNCHANGED <<node, native, world, faults>>

\* dispatch starts with readback when an earlier startup of the receiver is
\* still executing; nothing but the deadline can settle the message then.
WakeReadback(m) ==
  /\ WakeEnabled
  /\ row[m].state \in OpenStates /\ row[m].attempts > 0 /\ row[m].marker = 0
  /\ MessageFree(m)
  /\ Commit(m, IF auth[m] = "expired" THEN Finish(row[m], "expired")
               ELSE DeferPrepared(row[m]))
  /\ UNCHANGED <<node, native, wk, world, faults>>

---------------------------------------------------------------------------
(* The Node endpoint: LocalNodeEndpoint.deliver *)

Goto(w, pc) == wk' = [wk EXCEPT ![w].pc = pc]

Fail(w, e) == wk' = [wk EXCEPT ![w].pc = "failed", ![w].err = e]

Return(w, obs) == wk' = [wk EXCEPT ![w].pc = "returned", ![w].obs = obs]

Release(w) == wk' = [wk EXCEPT ![w] = Idle]

Journal(m, n) == node' = [node EXCEPT ![m] = n]

\* A new receiver startup is in progress, impossible, or refused because the
\* message is no longer open: the caller defers the message as it now stands.
WakeDefers(w) ==
  LET m == wk[w].m
  IN  /\ WakeEnabled
      /\ wk[w].pc = "claimed"
      /\ Commit(m, DeferPrepared(row[m]))
      /\ Release(w)
      /\ UNCHANGED <<node, native, world, faults>>

\* The three _check calls that precede the Native boundary.
CheckFails(w) ==
  /\ wk[w].pc \in {"claimed", "inboxed", "fenced"}
  /\ \E e \in CheckErrors(wk[w].m) : Fail(w, e)
  /\ UNCHANGED <<ledger, world, faults>>

\* Endpoint gone, journal locked, connection lost before the boundary.
TransportFails(w) ==
  /\ wk[w].pc \in {"claimed", "inboxed", "fenced", "returned"}
  /\ Fail(w, "transport")
  /\ UNCHANGED <<ledger, world, faults>>

\* The current attempt is read again and its Inbox entry is committed.
CommitInbox(w) ==
  LET m == wk[w].m
  IN  /\ wk[w].pc = "claimed"
      /\ NodeFree /\ auth[m] = "ok"
      /\ Journal(m, [node[m] EXCEPT !.inbox = TRUE])
      /\ wk' = [wk EXCEPT ![w].pc = "inboxed", ![w].att = row[m].attempts]
      /\ UNCHANGED <<row, native, world, faults>>

\* The immutable invocation is stored once; whoever finds it past 'prepared'
\* only reads back, and another attempt's invocation is a conflict.
Fence(w) ==
  LET m == wk[w].m
      n == node[m]
  IN  /\ wk[w].pc = "inboxed"
      /\ NodeFree /\ auth[m] = "ok"
      /\ \/ /\ n.inv = "none"
            /\ Journal(m, [n EXCEPT !.inv = "prepared", !.att = wk[w].att])
            /\ Goto(w, "fenced")
         \/ /\ n.inv = "prepared"
            /\ IF n.att = wk[w].att THEN Goto(w, "fenced") ELSE Fail(w, "boundary")
            /\ UNCHANGED node
         \/ /\ n.inv \notin {"none", "prepared"}
            /\ Return(w, Inspect(n, "uncertain"))
            /\ UNCHANGED node
      /\ UNCHANGED <<row, native, world, faults>>

\* driver.prepare inside the last Node transaction.
EnterNative(w) ==
  LET m == wk[w].m
  IN  /\ wk[w].pc = "fenced"
      /\ NodeFree /\ auth[m] = "ok"
      /\ Goto(w, "boundary")
      /\ UNCHANGED <<ledger, world, faults>>

\* The Native is not idle; the Node transaction rolls back.  The driver may
\* say so in prepare or in invoke before it calls on_dispatch.
DriverDefers(w) ==
  /\ \/ wk[w].pc = "fenced" /\ NodeFree
     \/ wk[w].pc = "boundary"
  /\ Fail(w, "deferred")
  /\ UNCHANGED <<ledger, world, faults>>

RejectPreCall(w) ==
  /\ Journal(wk[w].m, [node[wk[w].m] EXCEPT !.inv = "pre_call_rejected"])
  /\ Fail(w, "rejected")

\* The driver refuses before the boundary; the Node commits that at once.
DriverRejects(w) ==
  /\ \/ wk[w].pc = "fenced" /\ NodeFree
     \/ wk[w].pc = "boundary"
  /\ RejectPreCall(w)
  /\ UNCHANGED <<row, native, world, faults>>

\* The Node commits its last transaction as n and answers from it; without an
\* acknowledgement the answer is "uncertain".
NodeAnswers(w, n) ==
  /\ Journal(wk[w].m, n)
  /\ Return(w, Inspect(n, "uncertain"))

Doubt(n) == [n EXCEPT !.inv = IF @ = "prepared" THEN "uncertain" ELSE @]

\* An unclassified error of driver.invoke before it crossed the boundary.
DriverFaults(w) ==
  /\ wk[w].pc = "boundary"
  /\ NodeAnswers(w, Doubt(node[wk[w].m]))
  /\ UNCHANGED <<row, native, world, faults>>

---------------------------------------------------------------------------
(* mark_dispatched: the Domain marker, called at the Native boundary *)

\* Mutant: the row count of the attempt update is not checked.
UnmarkableUnchecked(r, ordinal) == r.marker \notin {0, ordinal}

\* Another location holds the marker, or the attempt is no longer prepared.
Unmarkable(r, ordinal) == r.marker \notin {0, ordinal} \/ r.attempt # "prepared"

MarkDenied(w) ==
  LET m == wk[w].m
  IN  /\ wk[w].pc = "boundary" /\ auth[m] # "ok"
      /\ \/ RejectPreCall(w)
         \/ auth[m] = "denied" /\ Fail(w, "denied") /\ UNCHANGED node
         \/ row[m].marker # 0 /\ NodeAnswers(w, Doubt(node[m]))
      /\ UNCHANGED <<row, native, world, faults>>

\* "message_already_routed_to_inbox": raised with marker_attempted set, so the
\* Node records the invocation as uncertain.
MarkRouted(w) ==
  LET m == wk[w].m
  IN  /\ wk[w].pc = "boundary" /\ auth[m] = "ok"
      /\ row[m].state = "delivered"
      /\ NodeAnswers(w, [node[m] EXCEPT !.inv = "uncertain"])
      /\ UNCHANGED <<row, native, world, faults>>

MarkConflicts(w) ==
  LET m == wk[w].m
      r == row[m]
  IN  /\ wk[w].pc = "boundary" /\ auth[m] = "ok" /\ r.state # "delivered"
      /\ \/ wk[w].att # r.attempts /\ r.marker = 0 /\ RejectPreCall(w)
         \/ wk[w].att # r.attempts /\ r.marker # 0 /\ NodeAnswers(w, Doubt(node[m]))
         \/ /\ wk[w].att = r.attempts /\ Unmarkable(r, wk[w].att)
            /\ NodeAnswers(w, Doubt(node[m]))
      /\ UNCHANGED <<row, native, world, faults>>

\* Mutant: the message state is not read again.
MarkableWhenRouted(w) ==
  LET m == wk[w].m
  IN  /\ wk[w].pc = "boundary" /\ auth[m] = "ok"
      /\ wk[w].att = row[m].attempts
      /\ ~Unmarkable(row[m], wk[w].att)

Markable(w) ==
  LET m == wk[w].m
  IN  /\ wk[w].pc = "boundary" /\ auth[m] = "ok"
      /\ row[m].state # "delivered"
      /\ wk[w].att = row[m].attempts
      /\ ~Unmarkable(row[m], wk[w].att)

\* Mutant: the Native boundary is crossed without the Domain callback.
MarkSkipsDomain(w) ==
  /\ Markable(w)
  /\ Goto(w, "marked")
  /\ UNCHANGED <<row, node, native, world, faults>>

Mark(w) ==
  LET m == wk[w].m
  IN  /\ Markable(w)
      /\ Commit(m, RecordMarker(row[m], wk[w].att))
      /\ Goto(w, "marked")
      /\ UNCHANGED <<node, native, world, faults>>

\* The database connection breaks around the marker commit.  The error either
\* passes through the Node, whose transaction rolls back, or reaches it as a
\* driver error; the marker may be committed or not.
MarkLost(w) ==
  LET m == wk[w].m
  IN  /\ Markable(w)
      /\ \/ Commit(m, RecordMarker(row[m], wk[w].att))
         \/ UNCHANGED row
      /\ \/ Fail(w, "transport") /\ UNCHANGED node
         \/ NodeAnswers(w, Doubt(node[m]))
      /\ UNCHANGED <<native, world, faults>>

---------------------------------------------------------------------------
(* The Native call and its outcome *)

InvokeNative(w) ==
  /\ wk[w].pc = "marked"
  /\ native' = [native EXCEPT ![wk[w].m] = @ + 1]
  /\ Goto(w, "called")
  /\ UNCHANGED <<row, node, world, faults>>

\* The driver fails after the marker, before or after the bytes left.
DriverStops(w) ==
  LET m == wk[w].m
  IN  /\ wk[w].pc \in {"marked", "called"}
      /\ NodeAnswers(w, [node[m] EXCEPT !.disp = wk[w].att, !.inv = "uncertain"])
      /\ UNCHANGED <<row, native, world, faults>>

\* The driver returns an observation with or without a Native acknowledgement.
CommitInvocation(w) ==
  LET m == wk[w].m
  IN  /\ wk[w].pc = "called"
      /\ \E ack \in BOOLEAN :
           NodeAnswers(w, [node[m] EXCEPT
             !.disp = wk[w].att, !.ack = ack,
             !.inv = IF ack THEN "acknowledged" ELSE "uncertain"])
      /\ UNCHANGED <<row, native, world, faults>>

---------------------------------------------------------------------------
(* Settling: the final transaction and the exception handler of dispatch *)

Settle(w) ==
  LET m == wk[w].m
      obs == wk[w].obs
  IN  /\ wk[w].pc = "returned"
      /\ ~ProjectionRefused(row[m], obs)
      /\ Commit(m, Finish(Project(row[m], obs), obs.status))
      /\ Release(w)
      /\ UNCHANGED <<node, native, world, faults>>

SettleRefused(w) ==
  /\ wk[w].pc = "returned"
  /\ ProjectionRefused(row[wk[w].m], wk[w].obs)
  /\ Fail(w, "boundary")
  /\ UNCHANGED <<ledger, world, faults>>

\* Mutant: the handler does not look for the dispatch marker.
HandledUnmarked(r, n, e) ==
  IF r.state = "delivered" THEN r ELSE Failure(r, e)

\* What the handler commits.  A projection conflict raised inside it rolls
\* everything back and leaves the row as it was.
Handled(r, n, e) ==
  CASE r.state = "delivered" -> r
    [] r.state # "delivered" /\ r.marker # 0 ->
         LET back == Inspect(n, "uncertain")
         IN  IF ~back.acked THEN Finish(r, "uncertain")
             ELSE IF ProjectionRefused(r, back) THEN r
             ELSE Finish(Project(r, back), "delivered")
    [] r.state # "delivered" /\ r.marker = 0 /\ e \in {"rejected", "deferred"} ->
         LET seen == Inspect(n, "blocked")
         IN  IF ProjectionRefused(r, seen) THEN r
             ELSE IF e = "deferred" THEN DeferPrepared(Project(r, seen))
             ELSE Failure(Project(r, seen), e)
    [] OTHER -> Failure(r, e)

Handle(w) ==
  LET m == wk[w].m
  IN  /\ wk[w].pc = "failed"
      /\ Commit(m, Handled(row[m], node[m], wk[w].err))
      /\ Release(w)
      /\ UNCHANGED <<node, native, world, faults>>

---------------------------------------------------------------------------
(* Observation of the original input after an uncertain outcome *)

\* reconcile_delivery: the Native confirms the original input, and the Node
\* adds the missing acknowledgement to a marked invocation.
ReconcileNode(m) ==
  /\ NodeFree
  /\ row[m].attempts = node[m].att
  /\ node[m].disp # 0 /\ ~node[m].ack
  /\ node[m].inv \in {"uncertain", "acknowledged"}
  /\ native[m] > 0
  /\ Journal(m, [node[m] EXCEPT !.ack = TRUE, !.inv = "acknowledged"])
  /\ UNCHANGED <<row, native, wk, world, faults>>

\* The observer projects an acknowledgement of the current attempt.
ObserveDelivered(m) ==
  LET seen == Inspect(node[m], "uncertain")
  IN  /\ seen.acked /\ ~row[m].acked
      /\ row[m].attempts = node[m].att
      /\ ~ProjectionRefused(row[m], seen)
      /\ Commit(m, [Project(row[m], seen) EXCEPT !.state = "delivered",
                                                 !.attempt = "delivered"])
      /\ UNCHANGED <<node, native, wk, world, faults>>

---------------------------------------------------------------------------
(* Reply waits *)

\* One pass of _observe_messages registers or renews the five-second lease.
RegisterWait(m) ==
  /\ m \in Awaited
  /\ \/ waiter[m] = "out"
     \/ waiter[m] = "waiting" /\ ~lease[m]
  /\ waiter' = [waiter EXCEPT ![m] = "waiting"]
  /\ lease'  = [lease EXCEPT ![m] = TRUE]
  /\ UNCHANGED <<ledger, wk, auth, retained, faults>>

\* The pass then reads the committed reply, in a transaction of its own.
ReadReply(m) ==
  /\ waiter[m] = "waiting" /\ row[m].state # "unsent"
  /\ waiter' = [waiter EXCEPT ![m] = "read"]
  /\ UNCHANGED <<ledger, wk, auth, lease, retained, faults>>

\* _retain_wait_ingress leaves attachments and marked messages alone.
Retainable(m) == Kind[m] # "attachment" /\ row[m].marker = 0

RetainReply(m) ==
  /\ waiter[m] = "read"
  /\ IF Retainable(m)
       THEN /\ Commit(m, Retain(row[m], IngressOn))
            /\ retained' = [retained EXCEPT ![m] = TRUE]
       ELSE UNCHANGED <<row, retained>>
  /\ waiter' = [waiter EXCEPT ![m] = "leaving"]
  /\ UNCHANGED <<node, native, wk, auth, lease, faults>>

\* Timeout without a reply, cancellation, or a refused authorization.
LeaveEarly(m) ==
  /\ waiter[m] \in {"waiting", "read"}
  /\ waiter' = [waiter EXCEPT ![m] = "leaving"]
  /\ UNCHANGED <<ledger, wk, auth, lease, retained, faults>>

\* The finally clause of _wait deletes the waiter's lease.
EndWait(m) ==
  /\ waiter[m] = "leaving"
  /\ waiter' = [waiter EXCEPT ![m] = "done"]
  /\ lease'  = [lease EXCEPT ![m] = FALSE]
  /\ UNCHANGED <<ledger, wk, auth, retained, faults>>

WaiterDies(m) ==
  /\ waiter[m] \in {"waiting", "read", "leaving"}
  /\ waiter' = [waiter EXCEPT ![m] = "done"]
  /\ UNCHANGED <<ledger, wk, auth, lease, retained, faults>>

\* Five seconds without renewal; pruning the row later changes nothing more.
LeaseExpires(m) ==
  /\ lease[m]
  /\ lease' = [lease EXCEPT ![m] = FALSE]
  /\ UNCHANGED <<ledger, wk, auth, waiter, retained, faults>>

\* reclaim_wait_ingress in the maintenance loop.
Reclaim(m) ==
  /\ IngressRecovery
  /\ row[m].ingress = "reserved" /\ ~lease[m]
  /\ Commit(m, Gate(row[m]))
  /\ UNCHANGED <<node, native, wk, world, faults>>

---------------------------------------------------------------------------
(* The environment *)

\* A Grant, Route or binding the message depends on is withdrawn.
Revoke(m) ==
  /\ auth[m] = "ok"
  /\ auth' = [auth EXCEPT ![m] = "denied"]
  /\ UNCHANGED <<ledger, wk, lease, waiter, retained, faults>>

DeadlinePasses(m) ==
  /\ auth[m] = "ok"
  /\ auth' = [auth EXCEPT ![m] = "expired"]
  /\ UNCHANGED <<ledger, wk, lease, waiter, retained, faults>>

\* The Core process of the call dies: locks are released and an open Node
\* transaction rolls back.
Crash(w) ==
  /\ Busy(w) /\ crashes < MaxCrashes
  /\ Release(w)
  /\ crashes' = crashes + 1
  /\ UNCHANGED <<ledger, world, losses>>

\* The connection that owns the advisory locks is lost; the call, which uses
\* other connections for its work, goes on without them.
LoseSession(w) ==
  /\ Holds(w) /\ losses < MaxSessionLosses
  /\ wk' = [wk EXCEPT ![w].session = FALSE]
  /\ losses' = losses + 1
  /\ UNCHANGED <<ledger, world, crashes>>

---------------------------------------------------------------------------

ClaimStep(m) ==
  \/ ClaimInterrupted(m) \/ ClaimExhausted(m) \/ ClaimDenied(m)
  \/ ClaimSlotBusy(m) \/ ClaimNoEndpoint(m) \/ WakeReadback(m)

WaitStep(m) ==
  \/ RegisterWait(m) \/ ReadReply(m) \/ RetainReply(m) \/ LeaveEarly(m)
  \/ EndWait(m) \/ WaiterDies(m) \/ LeaseExpires(m) \/ Reclaim(m)

WorkerStep(w) ==
  \/ WakeDefers(w) \/ CheckFails(w) \/ TransportFails(w)
  \/ CommitInbox(w) \/ Fence(w) \/ EnterNative(w)
  \/ MarkDenied(w) \/ MarkRouted(w) \/ MarkConflicts(w) \/ Mark(w) \/ MarkLost(w)
  \/ DriverDefers(w) \/ DriverRejects(w) \/ DriverFaults(w)
  \/ InvokeNative(w) \/ DriverStops(w) \/ CommitInvocation(w)
  \/ Settle(w) \/ SettleRefused(w) \/ Handle(w)

Next ==
  \/ \E m \in Messages :
       \/ Send(m) \/ ClaimStep(m) \/ WaitStep(m)
       \/ ReconcileNode(m) \/ ObserveDelivered(m)
       \/ Revoke(m) \/ DeadlinePasses(m)
       \/ \E w \in Workers : ClaimReuse(w, m) \/ ClaimNew(w, m)
  \/ \E w \in Workers : WorkerStep(w) \/ Crash(w) \/ LoseSession(w)

Spec == Init /\ [][Next]_vars

\* A dispatcher thread runs to its end; the maintenance loop offers every due
\* message to dispatch again and again; a receiver that is busy becomes idle
\* again and again; a wait thread runs on; the lease of a reader that is gone
\* expires.  Crashes, lost locks and failures need no fairness.
Fairness ==
  /\ \A w \in Workers :
       WF_vars(WorkerStep(w)) /\ SF_vars(EnterNative(w)) /\ SF_vars(Mark(w))
  /\ \A m \in Messages :
       /\ SF_vars(\E w \in Workers : ClaimReuse(w, m))
       /\ SF_vars(\E w \in Workers : ClaimNew(w, m))
       /\ SF_vars(ClaimInterrupted(m) \/ ClaimExhausted(m) \/ ClaimDenied(m))
       /\ WF_vars(ReadReply(m)) /\ WF_vars(RetainReply(m)) /\ WF_vars(EndWait(m))
       /\ WF_vars(waiter[m] = "done" /\ LeaseExpires(m))
       /\ WF_vars(Reclaim(m))

FairSpec == Spec /\ Fairness

---------------------------------------------------------------------------
(* Properties *)

\* Every component of the state has its type; in particular no message ever
\* opens more than maximum_attempts attempts.
TypeOK ==
  /\ row      \in [Messages -> Rows]
  /\ node     \in [Messages -> NodeRows]
  /\ native   \in [Messages -> Nat]
  /\ wk       \in [Workers -> Calls]
  /\ auth     \in [Messages -> {"ok", "denied", "expired"}]
  /\ lease    \in [Messages -> BOOLEAN]
  /\ waiter   \in [Messages -> {"out", "waiting", "read", "leaving", "done"}]
  /\ retained \in [Messages -> BOOLEAN]
  /\ crashes  \in 0 .. MaxCrashes
  /\ losses   \in 0 .. MaxSessionLosses

\* The ledger implements the hand-off promise: the marker of a message is its
\* runtime_dispatched receipt, its calls are the Native calls really made.
Handoff == INSTANCE NativeHandoff WITH
             marked <- [m \in Messages |-> row[m].marker # 0],
             calls  <- native

\* Whatever crashes, is retried or loses its locks, the durable marker is
\* written once, before the one Native call (deliver, mark_dispatched).
AtMostOneCall == Handoff!Spec

\* Evidence is never ahead of what happened: a Node dispatch receipt repeats
\* the Domain marker of the same attempt, and a Node or ledger acknowledgement
\* exists only for a Native call that was made (_receipt, _project).
EvidenceIsReal ==
  \A m \in Messages :
    /\ node[m].disp # 0 => node[m].disp = row[m].marker /\ node[m].disp = node[m].att
    /\ node[m].ack => native[m] = 1 /\ node[m].disp # 0
    /\ row[m].acked => node[m].ack

\* Once the marker exists the message can only be settled by readback: it is
\* delivered or uncertain, or still open under the marked attempt.  So no
\* expiry, revocation or exhausted budget reports a message as failed whose
\* Native call may have happened, and no further attempt is opened for it.
MarkedOnlyReadBack ==
  \A m \in Messages :
    LET r == row[m]
    IN  r.marker # 0 =>
          /\ r.marker = r.attempts
          /\ \/ r.state \in {"delivered", "uncertain"}
             \/ r.state \in OpenStates /\ r.attempt = "runtime_dispatched"

\* "delivered" is never a guess: an invoked message has the Native's own
\* acknowledgement, any other one was put into an Inbox or a Tool Result.
DeliveredHasEvidence ==
  \A m \in Messages :
    row[m].state = "delivered" =>
      row[m].acked \/ row[m].inbox = "authority_inbox" \/ retained[m]

\* A reply chosen for a Tool Result does not start a Native turn as well
\* (_retain_wait_ingress, the state check in mark_dispatched).
RetainedNeverInvoked == \A m \in Messages : ~(retained[m] /\ native[m] > 0)

\* While a live wait holds the reservation of a reply, no dispatcher call may
\* open an attempt for it or put the marker on it (gate).
ReservationHolds ==
  [][\A m \in Messages :
       row[m].ingress = "reserved" /\ lease[m] =>
         row'[m].attempts = row[m].attempts /\ row'[m].marker = row[m].marker]_vars

\* Every message that was sent is eventually settled: retries, deferrals,
\* reservations and crashes never leave it open for ever (maintain,
\* reclaim_wait_ingress, the attempt budget).
EventuallySettled ==
  \A m \in Messages :
    row[m].state # "unsent" ~> row[m].state \in TerminalStates
=============================================================================
