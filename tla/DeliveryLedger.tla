--------------------------- MODULE DeliveryLedger ---------------------------
(***************************************************************************)
(* The rows of the PostgreSQL delivery ledger and what one committed       *)
(* statement group does to them.                                           *)
(*                                                                         *)
(* A row stands for one natural message: its delivery_messages row, the    *)
(* delivery_attempts row of its current ordinal, its delivery_receipts,    *)
(* its communication_wait_ingress row and the first obstacle notice        *)
(* recorded about it.  Every operator maps a row to the row the next       *)
(* committed transaction leaves behind; the state machine that decides     *)
(* when they apply is in Delivery.                                         *)
(***************************************************************************)
EXTENDS Naturals

CONSTANT MaxAttempts    \* maximum_attempts of every packet

ASSUME MaxAttemptsAssumption == MaxAttempts \in Nat \ {0}

---------------------------------------------------------------------------
(* States and receipt layers *)

OpenStates == {"queued", "retry_wait", "delivering"}

TerminalStates == {"delivered", "uncertain", "expired", "blocked",
                   "budget_exhausted"}

\* States that communication_faults.record_obstacle turns into a notice.
Obstacles == {"blocked", "uncertain", "budget_exhausted", "expired"}

\* "unsent" is a message whose send_message has not committed.
MessageStates == {"unsent"} \cup OpenStates \cup TerminalStates

\* The receipt layers a natural message can reach.
LayerNames == {"accepted_by_authority", "target_inbox_committed",
               "runtime_dispatched", "runtime_acknowledged"}

Rank(layer) ==
  CASE layer = "accepted_by_authority"  -> 1
    [] layer = "target_inbox_committed" -> 2
    [] layer = "runtime_dispatched"     -> 3
    [] OTHER                            -> 4

\* An attempt is open (finished_at IS NULL) exactly in these two statuses.
OpenAttempt == {"prepared", "runtime_dispatched"}

AttemptStatuses == {"none"} \cup OpenAttempt \cup OpenStates \cup TerminalStates

\* Who committed the target_inbox_committed receipt.
InboxSources == {"none", "authority_inbox", "node_inbox"}

IngressStates == {"none", "reserved", "selected", "released"}

Rows ==
  [state    : MessageStates,
   attempts : 0 .. MaxAttempts,
   attempt  : AttemptStatuses,          \* status of ordinal = attempts
   high     : LayerNames,               \* receipt_high_water
   inbox    : InboxSources,             \* target_inbox_committed receipt
   marker   : 0 .. MaxAttempts,         \* attempt of the runtime_dispatched
                                        \* receipt and activation_* columns
   acked    : BOOLEAN,                  \* runtime_acknowledged receipt
   ingress  : IngressStates,            \* communication_wait_ingress.state
   notice   : {"none"} \cup Obstacles]  \* first communication_notices row

UnsentRow ==
  [state |-> "unsent", attempts |-> 0, attempt |-> "none",
   high |-> "accepted_by_authority", inbox |-> "none", marker |-> 0,
   acked |-> FALSE, ingress |-> "none", notice |-> "none"]

---------------------------------------------------------------------------
(* Statement groups of DeliveryDispatcher *)

\* receipt_high_water only ever moves up in _record_receipt.
Raise(high, layer) == IF Rank(layer) > Rank(high) THEN layer ELSE high

\* record_obstacle -> _insert: ON CONFLICT DO NOTHING keeps the first notice.
RecordObstacle(row, state) ==
  IF state \in Obstacles /\ row.notice = "none"
    THEN [row EXCEPT !.notice = state]
    ELSE row

\* _finish: the message takes the state whatever it was before, and the
\* current attempt takes it too when that attempt is still open.
Finish(row, state) ==
  LET closed == [row EXCEPT
                   !.state   = state,
                   !.attempt = IF @ \in OpenAttempt THEN state ELSE @]
  IN  RecordObstacle(closed, state)

\* _defer_prepared: only the schedule moves; the attempt stays open.
DeferPrepared(row) == [row EXCEPT !.state = "retry_wait"]

\* _failure: how an error before the dispatch marker settles the message.
FailureState(row, error) ==
  CASE error = "expired"   -> "expired"
    [] error = "transport" -> IF row.attempts >= MaxAttempts
                                THEN "budget_exhausted" ELSE "retry_wait"
    [] OTHER               -> "blocked"

Failure(row, error) == Finish(row, FailureState(row, error))

\* A new delivery_attempts row, inserted 'prepared'.
NewAttempt(row) ==
  [row EXCEPT !.attempts = @ + 1, !.attempt = "prepared",
              !.state = "delivering"]

\* Mutant: the attempt row is not moved on together with the receipt.
RecordMarkerOnly(row, ordinal) ==
  [row EXCEPT !.marker = ordinal, !.high = Raise(@, "runtime_dispatched")]

\* mark_dispatched: receipt, activation columns and attempt in one commit.
RecordMarker(row, ordinal) ==
  [row EXCEPT !.marker = ordinal, !.attempt = "runtime_dispatched",
              !.high = Raise(@, "runtime_dispatched")]

\* A Node observation: which receipts the Node journal holds, and the status
\* the endpoint returned.  disp is the attempt of its dispatch receipt.
Observations ==
  [status : {"delivered", "uncertain", "blocked"}, inbox : BOOLEAN,
   disp : 0 .. MaxAttempts, acked : BOOLEAN]

\* _record_receipt raises receipt_projection_conflict when the layer already
\* has different evidence; _project raises without an Inbox receipt.
ProjectionRefused(row, obs) ==
  \/ ~obs.inbox
  \/ row.inbox = "authority_inbox"
  \/ obs.disp # 0 /\ row.marker # 0 /\ obs.disp # row.marker

\* _project: copy every Node receipt into the ledger.
Project(row, obs) ==
  [row EXCEPT
     !.inbox  = "node_inbox",
     !.marker = IF obs.disp # 0 THEN obs.disp ELSE @,
     !.acked  = @ \/ obs.acked,
     !.high   = LET top == IF obs.acked THEN "runtime_acknowledged"
                           ELSE IF obs.disp # 0 THEN "runtime_dispatched"
                           ELSE "target_inbox_committed"
                IN  Raise(@, top)]

---------------------------------------------------------------------------
(* Statement groups of the reply-wait channel *)

\* The message goes to the authoritative Inbox at once: a Client recipient, a
\* message_only packet, or a reply that an active wait receives.
ToInbox(row, state) ==
  [row EXCEPT !.state = state, !.high = "target_inbox_committed",
              !.inbox = "authority_inbox"]

\* reserve: the reply waits for its reader until the lease runs out.
Reserve(row) == [row EXCEPT !.ingress = "reserved", !.state = "retry_wait"]

\* _retain_wait_ingress for one reply without a dispatch marker.  The
\* receipt is inserted ON CONFLICT DO NOTHING; select() runs only when the
\* ingress table exists.
Retain(row, storage) ==
  [row EXCEPT !.state = "delivered", !.high = "target_inbox_committed",
              !.inbox = IF @ = "none" THEN "authority_inbox" ELSE @,
              !.ingress = IF storage THEN "selected" ELSE @]

\* Mutant: an unexpired reservation is not looked up.
GateForgetsReservation(row, leased) == row.ingress = "selected"

\* gate() returns True: the wait channel still owns the message.
GateHolds(row, leased) ==
  \/ row.ingress = "selected"
  \/ row.ingress = "reserved" /\ leased

\* What gate() writes when it returns False.
Gate(row) ==
  IF row.ingress # "reserved" THEN row
  ELSE [row EXCEPT
          !.ingress = "released",
          !.state = IF /\ row.marker = 0 /\ ~row.acked
                       /\ @ = "retry_wait" /\ row.attempts = 0
                      THEN "queued" ELSE @]
=============================================================================
