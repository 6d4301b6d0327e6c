# Verification of the Agent-collaboration runtime

TLA+ specifications of the collaboration runtime under `src/runtime`, checked
with TLC on small instances and proved with TLAPS for every instance. The
runtime lets Agents that live in different Native programs
(Codex, OpenCode, ...) send one another messages through a PostgreSQL
"Domain"; a message that asks for work is handed to the Native of its target.
That hand-off has an external effect which cannot be undone or asked for
again, so the subject of the project is first of all: *one message, at most
one Native call, and never a wrong report about it*.

## 1. The system

### Parts, their state, their operations

| Part | Source (`src/runtime`) | State | Operations that change it |
|---|---|---|---|
| Delivery ledger | `delivery.py`, `communication_core_schema.sql` | `delivery_messages`, `delivery_attempts`, `delivery_receipts` | `send_message`, `_finish`, `_failure`, `_defer_prepared`, `_record_receipt`, `_project` |
| Dispatcher | `delivery.py` (`DeliveryDispatcher`) | advisory locks, the call in progress | `dispatch`, `recover_prepared`, `reconcile_marked` |
| Node endpoint | `delivery_node.py`, `node.py` | SQLite journal: Inbox, invocation, receipts | `deliver`, `reconcile_delivery`, `inspect_delivery` |
| Native driver | `native_delivery.py`, `*_driver.py` | the Native program | `prepare`, `invoke` (one call), observation |
| Reply waits | `communication.py` | `communication_waits` leases | `wait_for_response`, `_retain_wait_ingress` |
| Wait ingress | `communication_wait_ingress.py` | `communication_wait_ingress` | `reserve`, `gate`, `select`, `reclaim_wait_ingress` |
| Message wake | `communication_message_wake.py` | receiver startup operation | `advance_message_wake`, readback |
| Delivery observer | `communication_delivery_observer.py` | - | `observe(reconcile=True)` |
| Maintenance loop | `communication_dispatch.py` | tasks in flight | offers due messages to `dispatch`, prunes, reclaims |
| Obstacle notices | `communication_faults.py` | `communication_supervisors`, `communication_notices`, `communication_notice_routes` | `bind_supervisor`, `record_obstacle`, `_unreachable`, `queue_communication_notices` |
| Notification frontier | `communication_notifications.py` | per-Client frontier | acknowledge, list |
| Event publication | `communication_event_storage.py`, `communication_event_schema.sql` | event intents, the project's clock row, the stream | `record_event_intent`, `publish_event_intents`, `purge_event_records` |
| Event feed | `communication_event_http.py`, `communication_client_events.py` | one SSE response: queue, position, cursor | `event_batch`, `event_current`, `produce`, `generate` |
| Snapshots | `communication_client_snapshot.py`, `communication_snapshot_storage.py` | stored pages | `snapshot`, `snapshot_page`, prune |
| Attachments | `communication_client_attachments.py`, `communication_attachment_*.py` | reservations, chunks, request receipts, associations; the content store | reserve, upload, finalize, associate with a message, expire |
| Signed receivers | `receiver.py`, `receiver_delivery.py`, `receiver_domain.py`, `remote_endpoint.py` | Domain: admissions per attempt and purpose; receiver: SQLite ledger of requests and its boot | prepare, challenge, dispatch, recover, reconcile, replace the boot |
| Receiver lifecycle | `receiver_lifecycle_*.py`, `receiver_recovery_operations.py`, `codex_driver.py`, `native_restore*.py` | operations in the Outbox with a lease; the Driver's journal and the Native process | submit, claim, challenge, observe, permit, execute, reconcile, record |
| Leases and effects (retired) | `lease_authority.py`, `effects.py`, `effect_domain.py` | leases with fencing tokens; the gateway's records and the file | acquire, renew, close, expire; write, resume; register, reconcile |
| Recovery (Human Bridge: retired) | `recovery_service.py`, `recovery.py`, `response_collector.py` | command claims, incidents, manual packets, response observations; the Node's response Outbox | eight commands, each reserved, acted and recorded; collect |
| Supervisors, projects, source store, HTTP/MCP surfaces, installers | the rest | - | administration, operating system and formatting |

### How they interact

A sender's `send_message` commits a row in state `queued` (or routes it to an
Inbox, or reserves it for a wait). The maintenance loop offers every due row
to `dispatch`. A dispatch call takes two session advisory locks (message,
target slot), claims an attempt in one transaction, lets the Node endpoint
commit its Inbox entry and the immutable invocation in two SQLite
transactions, and enters a third one, which stays open while the driver runs:
inside it the driver calls back into PostgreSQL (`mark_dispatched`, the
durable *dispatch marker*), and only then calls the Native. The Node commits
what it saw, the dispatcher projects the Node's receipts into the ledger and
settles the message. Meanwhile the original requester may sit in
`wait_for_response`: a reply may go to its Tool Result instead of a Native
turn. Both sides write the same row.

Every such change also records, by trigger, an event intent. The maintenance
loop numbers committed intents into the project's stream; a client takes a
snapshot, which carries the stream position of its cut, and follows the stream
over SSE from there. Files go another way: a client reserves an attachment,
uploads it in chunks, finalizes it into the content store, and a message pins it.

Instead of the local Node endpoint a message may go through a signed receiver:
a process of its own with its own ledger, reached by requests that carry signed
permits, which the Domain admits one per attempt and purpose. When a receiver
has no running Native session, a message wake or an operator submits a
lifecycle operation; maintenance workers and callers advance it until the Node
starts or resumes the session.

Two parts belong to the historical task runtime. `docs/runtime/COMMUNICATION.md`
(lines 214-246) retires Lease/Effect and the task Human Bridge from the default
Domain facade and its commands; the code remains in `src/runtime`, but its
tables are created by test fixtures only
(`runtime_tests/fixtures/legacy_schema_1_9.sql`), and
`runtime_tests/test_communication_storage.py:26-64` asserts that the default
schema never creates them. They are modelled as that code stands, on those
tables: in Recovery a Node's response Outbox is projected into the Domain
later, and an incident lets a person supply an answer that remained uncertain;
work on protected files runs under a lease of the Domain through a gateway that
keeps its own records. Nothing else in the runtime depends on either.

### What is hard

* Two databases and one external effect: a crash, a broken connection or a
  lost lock between any two of the commits.
* Session advisory locks that disappear with their connection while the call
  that owned them goes on.
* Two consumers of one reply (dispatcher and wait), each deciding in one
  transaction and acting in another.
* Deferrals that do not use up attempts, leases that expire while they are
  renewed, a deadline that passes at any point.
* Late evidence: acknowledgements that are read back after the message was
  already settled.
* A change feed whose sources commit out of order, whose readers buffer ahead
  of what they have sent, and whose authorization and retention move
  meanwhile.
* Requests that arrive after their sender gave up, next to a second sender; a
  receiver process that runs on after its boot was replaced.
* Commands of several transactions (reserve, act, record; plan, publish,
  finish) whose callers die in between and execute them again, also at the
  same time.
* Leases that end while their holder is between a check and a file operation.

`PROJECT.json` lists these as hazards, each at its line.

### What makes each part correct

* Ledger and dispatcher: one marker, at most one call; evidence is never ahead
  of the facts; after the marker a message is settled by readback only; every
  message is settled.
* Waits: a reply given to a Tool Result is not invoked as well; a reservation
  keeps the dispatcher out while its reader lives, and only then.
* Notices: the supervisor relation has no cycle, a notice climbs it once, and
  only past managers that cannot have been invoked.
* Event feed: one gap-free order, and a client that holds a cursor has been
  told everything it may see up to it.
* Attachments: what a message refers to stays readable, staging stays within
  its budget and is always one the service accepts when it starts, and all
  requests hear the same verdict.
* Signed receivers and lifecycle: the one-effect discipline of delivery over an
  unreliable transport; a report of "delivered", "blocked", "completed" or
  "rejected" is true.
* Leases and effects (historical): one operation at a time, each at most once, resumable
  after every crash, and none under a lease older than one that already acted.
* Recovery (historical): an incident follows its workflow whatever races for it, a
  completed command's result has happened, Node and Domain agree.

## 2. Modules

| Module | Content |
|---|---|
| `DeliveryLedger` | a ledger row and, as operators on rows, every statement group that rewrites it |
| `Delivery` | the state machine: dispatcher calls, Node journal, Native call, waits, faults; all properties |
| `NativeHandoff` | the abstract promise: write the marker once, then call at most once |
| `MCDelivery` | instances for TLC |
| `Delivery_proofs` | its two inductive invariants and the theorems |
| `Notices` | supervision, and the obstacle notice that climbs it |
| `MCNotices`, `Notices_proofs` | its instance for TLC and its theorems |
| `EventStream` | one project's change feed, from source transaction to SSE client |
| `MCEventStream`, `EventStream_proofs` | its instance for TLC and its theorems |
| `SignedReceiver`, `SignedReceiver_proofs` | one message through the signed receiver protocol; implements `NativeHandoff` |
| `ReceiverLifecycle`, `MCReceiverLifecycle`, `ReceiverLifecycle_proofs` | recovery operations of one endpoint, from acceptance to the Native process and back |
| `LeasedEffects`, `MCLeasedEffects`, `LeasedEffects_proofs` | leases and the protected-file gateway, record by record |
| `EffectRegister` | the abstract promise of the gateway: one operation at a time, each at most once |
| `Recovery`, `MCRecovery`, `Recovery_proofs` | recovery commands, Human Bridge incidents and delayed responses of one message |
| `IncidentWorkflow` | the abstract life of the incidents of a message |
| `Attachments`, `MCAttachments`, `Attachments_proofs` | attachment uploads of one project |

### Delivery: state

`row[m]` is the message's ledger row: `state` and `attempts` of
`delivery_messages`, `attempt` the status of the current ordinal in
`delivery_attempts`, `inbox`, `marker` and `acked` the three kinds of
`delivery_receipts`, `high` the `receipt_high_water`, `ingress` the
`communication_wait_ingress` state and `notice` the first notice. `node[m]`
is the committed SQLite journal, `native[m]` counts Native calls. `wk[w]` is
one `dispatch` call in progress: `pc` names the last committed step, `att` the
ordinal it carries, `err` the exception it is unwinding with, `obs` what the
Node answered, `session` whether its lock connection lives. `auth[m]` is the
current verdict of `_authorize`, `lease[m]` whether an unexpired
`communication_waits` row exists, `waiter[m]` the wait on the request that m
answers; `retained[m]` is a history variable.

### Delivery: actions and code

One action is one committed transaction, or the Native call itself.

| Actions | Code |
|---|---|
| `Send` | `send_message` and the routing at the end of `_send_message` |
| `ClaimInterrupted`, `ClaimExhausted`, `ClaimDenied`, `ClaimSlotBusy`, `ClaimNoEndpoint`, `ClaimReuse`, `ClaimNew` | the first transaction of `dispatch`, by the branch it ends in; each includes `gate` |
| `WakeReadback`, `WakeDefers` | the two places where `dispatch` consults the message wake |
| `CheckFails`, `TransportFails`, `CommitInbox`, `Fence` | the first two Node transactions of `LocalNodeEndpoint.deliver` |
| `EnterNative`, `DriverDefers`, `DriverRejects`, `DriverFaults` | the third one up to the boundary |
| `MarkDenied`, `MarkRouted`, `MarkConflicts`, `Mark`, `MarkLost` | `at_native_boundary` and `mark_dispatched`, by outcome |
| `InvokeNative`, `DriverStops`, `CommitInvocation` | the call and its outcome |
| `Settle`, `SettleRefused`, `Handle` | the final transaction and the exception handler of `dispatch` |
| `ReconcileNode`, `ObserveDelivered` | `reconcile_delivery` and the observer |
| `RegisterWait`, `ReadReply`, `RetainReply`, `LeaveEarly`, `EndWait`, `WaiterDies`, `LeaseExpires`, `Reclaim` | `_wait`, `_observe_messages`, `_retain_wait_ingress`, `prune_expired_waits`, `reclaim_wait_ingress` |
| `Revoke`, `DeadlinePasses`, `Crash`, `LoseSession` | the environment |

Abstractions: packets, evidence documents and identities are reduced to the
attempt ordinal they carry (the code compares them for equality only, and
they are deterministic in the ordinal); schedules (`next_attempt_at`) to
"sooner or later"; authorization to three verdicts. Locks are not variables:
a call holds the locks of its message and slot while it is busy and its
session lives, and holds SQLite's writer lock in the three steps inside the
last Node transaction.

### Notices: state and actions

`manager[s]` is the slot's row of `communication_supervisors`, `clients` the
project's `communication_clients`, `obstacle[m]` the obstacle a message met
(`uncertain`, or one of the three that exclude a call, as `blocked`), and
`notice[m][a]` the `communication_notices` row for recipient a with its route:
`source` the slot on whose behalf it was sent, `native` the column
`native_requested`, `delivery` what became of the notice's own message.

| Actions | Code |
|---|---|
| `BindSupervisor` | `bind_supervisor` with the guard of `configure_team` |
| `RecordObstacle` | `record_obstacle` for a natural message |
| `QueueNotice`, `QueueFails` | one row of `queue_communication_notices` |
| `NoticeDispatched`, `NoticeDelivered` | marker and acknowledgement of the notice |
| `NoticeFails`, `NoticeDoubt` | `record_obstacle` for the notice |
| `AddClient` | the environment |

`Chain(a)`, the addresses the loop of `bind_supervisor` visits, is the least
set that contains a and the manager of every slot in it. The limit of 128 is
the constant `MaxChain`. A notice is a message of the same ledger, so of its
delivery only the outcomes that `Delivery` admits are kept: no failure once
there is a marker (`MarkedOnlyReadBack`). A message is taken to meet one
obstacle, as it does while the dispatcher's locks hold (theorem
`ObstaclesAreMetOnce` of `Delivery`): a settled message is not claimed again,
and the same obstacle recorded twice for the same recipient is dropped by the
primary key.

### EventStream: state and actions

`src[f]` is the source transaction of a fact with its intent row, `id[f]` the
intent id it drew from the `BIGSERIAL` (`nextId`), `pubseq[f]` the
`published_sequence`; `stream`, `high` and `retained` are the stored stream
and the two columns of its clock row, `aged` the sequences past the retention
cutoff. `batch[p]` and `base[p]` are the rows and the high water a publisher
holds between its reads and its commit: while a batch is not empty the clock
row is locked, which keeps other publishers, retention (`FOR UPDATE`) and
readers (`FOR SHARE`) out; snapshots and source transactions do not lock it.
`client[c]` is the follower: `pos` and `rev` the cursor it holds, `view` what
it was told, `next` the producer's position, `queue` the buffer, `hand` and
`checked` the event the consumer is about to send, `closed` the flag of
`end()`; `late` is a history variable. `auth[c]` is the authorization
revision; `Visible[c][a]` stands for `_event_visible` and the kinds filter.

| Actions | Code |
|---|---|
| `Record`, `CommitFact`, `RollbackFact`, `Replay`, `ReplayEnds` | the triggers and `acs_communication_event_intent` inside a source transaction; a repeated source key locks the existing row |
| `PublishSelect`, `PublishCommit`, `PublishRollback` | `publish_event_intents` up to the locked rows, its commit, its failure |
| `Age`, `Purge` | the wall clock, `purge_event_records` |
| `SnapshotCut`, `SnapshotReturns`, `SnapshotFails` | the repeatable-read transaction of `snapshot`, the check after it |
| `Connect`, `ConnectRefused` | `GET events` with its first batch, or 409/410 |
| `Fetch`, `FetchRefused`, `ProducerEnds` | `produce()`; the last covers the slow consumer, the byte budget and failed reads |
| `Take`, `Check`, `Emit`, `EndStream`, `Disconnect` | the consumer loop of `generate()` |
| `AuthChange` | the environment |

Publication and retention of different projects share no rows, so one project
is modelled; the rotation over projects is left out. Frames, tokens and byte
counts are abstracted. The queue is filled in ascending order and is kept as a
set whose head is the least sequence. `Check` and `Emit` are two steps because
the authority's transaction ends before the network write.

### SignedReceiver: state and actions

`row`, `ord`, `attempt`, `sel` and `marked` are the message in the Domain with
the boot its last attempt selected, `adm` the admissions, `reg` the registered
boot. `sender` is the one dispatcher call that the message's advisory lock
admits, with the connection it waits on; `late` holds requests nobody waits
for any more. On the other side `boot`, `prep` and `disp` are the receiver's
ledger, `procs` the processes that run (an old one may still run beside its
successor) and `thread` the handlers under way. `calls` counts Native inputs.

| Actions | Code |
|---|---|
| `Dispatch`, `Sender`, `SenderCrash` | a dispatcher call with `RemoteNodeEndpointAdapter.deliver`: prepare, admission, marker, dispatch, result, settlement |
| `Reconcile`, `Recover` | `reconcile_marked`, `recover_prepared` |
| `ObserverReads`, `ObserverRecords` | the delivery observer |
| `Receive`, `Execute` | `ReceiverService`: checks, duplicates, local marker, Native input, receipt |
| `ClaimBoot`, `RegisterBoot`, `ProcessCrash`, `RequestLost`, `DeadlinePasses` | `claim_boot`, endpoint registration, the environment |

A signed document is what it says: signatures and digests are not modelled, and
a boot stands for its generation, revision and isolation reference.

### ReceiverLifecycle: state and actions

`op[o]` is the payload of an operation in the Outbox (state, phase, whether its
challenge is live, the permitted action with the capacity and process
incarnation it was derived from), `lease[o]` the maintenance lease, `wk[x]` one
`advance()` under way, `net` the execute requests in transit. `nd` is the
Node's critical section, `row` and `io` the Driver's journal, `drv` its memory
and the Native process. `effects`, `spawned` and `raced` are history.

| Actions | Code |
|---|---|
| `Submit`, `ClaimWork`, `CallerAdvance`, `FinishWork`, `LeaseExpires`, `ExecutorDies` | acceptance, `claim_lifecycle_work`, callers, `finish_lifecycle_work` |
| `Begin`, `Observe`, `ObserveFails`, `Record`, `RecordRefused` | challenge, observation, permit |
| `SendExecute`, `NodeRefuse`, `NodeExecute`, `NodeStep` | the execute request and the Driver's steps: journal, launch, thread, acknowledgement, failure |
| `NodeReconcile`, `RecordReceipt`, `ExchangeFails` | readback and the receipt |
| `NodeCrash`, `NodeRecover`, `ProcessExits`, `Terminate` | restart of the Node and the stopped origin of a session |
| `RequestLost`, `ChallengeExpires`, `EndpointRevised` | the environment |

### LeasedEffects: state and actions

`status` and `left` are the leases of one resource by generation, `lock` the
resource lock of the Domain, `holder` the gateway's file lock, `thread` the
calls under way; `payload`, `intent`, `execs`, `done` and `pointer` are the
gateway's records, `content` the file, `effect` the registered publication.
`Acquire`, `Renew`, `Close`, `Expire`, `Tick` are the lease authority;
`Write`, `Resume` and `Step` are `LocalFileEffectGateway`, one step per record;
`LoseTransaction` breaks the Domain connection under a call, which goes on
until its next check; `RegisterEffect` and `ReconcileEffect` are
`effect_domain.py`. A file write is atomic (temporary file and rename); that a
power loss undoes a directory entry is not modelled.

### Recovery: state and actions

`claim` is the result of a completed command, `call` one execution under way,
`incident`, `request`, `probe`, `packet` and `confirmed` the Human Bridge
tables, `receipt` and `message` what delivery holds, `shown` and `observed` a
response's disposition in the Domain and in the Node's Outbox, `consumer` who
consumed it. Each command has an action for what it does (`OpenIncident`,
`RequestHuman`, `Reprobe`, `ReceiveManual`, `ConfirmManual`, `ExpireIncident`,
`ProjectApplied`, `ProjectFenced`, `Consume`, and `...Again` for what a
repetition finds), between `Reserve` or `Replay` and `Record`, `MarkNode`,
`Leave`. `Leave` is every refusal, failure or death of a call. That a message
has one active incident is the unique index `recovery_incidents_one_active` of
the legacy schema fixture; `open_incident` itself does not test it. Authority
verdicts are an input `ok`. A pending claim permits what no claim permits, so
the two are not told apart.

### Attachments: state and actions

`row[a]` is the reservation (state, revision, generation, lease, received
chunks, whether the content is valid, published, pinned, past its expiry),
`chunks[a]` its staged chunks, `plan[r]` and `result[r]` the two receipts of a
request, `call[c]` an execution of a request, `cas` the content store, `sent`
the associations. A chunk holds the declared bytes or other ones. `Contents`
says which reservations may declare valid content, `AttachmentsPerMessage` is
the limit of that name.

| Actions | Code |
|---|---|
| `Reserve`, `Expire` | `reserve_attachment`, `expire_attachment_staging` |
| `PlanUpload`, `Append`, `Complete` | the PUT handler: captured lease, chunks, end of the stream (complete or reject) |
| `PeekFinal`, `PlanFinal`, `CheckReady`, `ReadUpload`, `Put`, `Finish`, `RejectContent` | `finalize_attachment`; the plan's two unlocked reads are two steps, the two of `read_uploaded_attachment` one, as a change between them ends in the same conflict |
| `Send` | `prepare_message_attachments` and `associate_attachments` in the sending transaction |
| `Drop`, `Age`, `LeaseExpires` | refusal, failure or loss of a call; the clock |

## 3. Runs

The bounds are chosen so that every branch happens: two attempts so that reuse,
retry and an exhausted budget occur, two executions at a time, at least one
fault of every kind. Deadlock checking is off: once everything is settled the
system may rest.

| Run | Instance | Shows |
|---|---|---|
| `dispatch` | two invoking messages for one slot, two calls, one of which may lose its locks | types, `EvidenceIsReal`, the refinement `AtMostOneCall` |
| `wait_direct` | a reply and a held attachment, waits without the ingress table, receiver wake, a crash | `DeliveredHasEvidence` |
| `wait_ingress` | one awaited reply, durable reservations, two attempts, a crash | `RetainedNeverInvoked`, `ReservationHolds`, `MarkedOnlyReadBack`, `EventuallySettled` |
| `wake_invokes_retained` | violation | without the ingress table a wake deferral reopens a retained reply, and it is invoked |
| `notices` | three slots, two Clients, one message, bindings and Clients added at any time | `SupervisionAcyclic`, `AcceptanceStops`, `OneManagerActs`, `UnknownInvokesNobody`, `EventuallyRetained` |
| `event_stream` | two facts, one of which the client may lose sight of, two publishers, batches of two, a buffer of one, one fault or replay, one change of authorization | `StreamConsistent`, `NothingMissed`, `AtMostOneLate`, `EventuallyPublished`, `StreamDelivers` |
| `lifecycle` | two operations of all three kinds, one executor beside dead and overtaken ones, two endpoint epochs, two faults | `OneEffect`, `OneSession`, `ReportsAreTrue` |
| `lifecycle_liveness` | one operation, three faults | `AcknowledgedIsSettled` |
| `signed_receiver` | two attempts, three boots, two crashes of either side | the refinement `OneNativeInput`, `ReportsAreTrue`, `MarkedIsSettled` |
| `leased_effects` | two calls, two operations, two payloads, two leases | the refinement `OneEffectAtATime`, `PointerIsTrue`, `ExecutionIsRecorded`, `OneStaleStep`, `ReplacementsInOrder` |
| `recovery` | two executions at a time of three plans: everything that can settle one incident; a manual answer, a delayed response and two consumers; two generations of an incident | the refinement `FollowsWorkflow`, `ResolvedByItsReceipt`, `ResultsHappened`, `DispositionsAgree`, `AnswersAgree` |
| `attachments` | two uploads and two finalize requests of a two-chunk attachment, two calls, a rival reservation of the same viewer and one of another, of which one must wait for the budget, one message | `StagingFrontier`, `MessageKeepsContent`, `OneVerdict`, `QuotaHeld`, `OvertakenIsSilent` |

Three invariants are conjunctions of named parts: `ReportsAreTrue` (of
`SignedReceiver`: `DeliveredWasInvoked`, `BlockedWasNotInvoked`; of
`ReceiverLifecycle`: `CompletedHasEvidence`, `RejectionHoldsUnlessRaced`),
`PointerIsTrue` (`UnresolvedIsResumable`, `PublishedIsCurrent`) and
`StreamConsistent` (`StreamContiguous`, `PublishedOnce`). Every module states a
`TypeOK`; the run of the core checks it, and in every module it is proved as
part of the inductive invariant.

Why the bounds are enough: two calls on one message are the smallest number
that can interleave; each action concerns one message, and two messages meet
only in the slot lock and the writer fence. Two attempts distinguish "the
marker's attempt" from "another one". Three slots are the smallest team with a
circle that comparing a slot with its manager's manager does not reveal.
With a buffer of one a read may consist of nothing but an invisible record; two
publishers are the fewest that can collide. Three boots let a process be
replaced, and its replacement be replaced while requests to the first are still
on their way. Two operations and two leases are the fewest with a predecessor
that must be resolved and an owner that was overtaken. The plans of `recovery`
put together the commands that read or write the same rows; commands of
different plans meet only in states that a plan already contains. An attachment
shares nothing with another one but the budget, and a message may name several
only if each is ready by itself. The third attachment, of another viewer, makes
the project's budget bind where no viewer's does. Interchangeable calls, requests, operations
and payloads are symmetric where only safety is checked. The theorems below
remove the bounds for the properties that matter most.

Three hazards are met in full by a theorem and in part by a run, because the
instance that has all of it is too large: a crash of the Core beside a second
dispatcher (`dispatch` has the second dispatcher, `wait_ingress` the crash;
`Refinement` has both), a lost lock session for `MarkedOnlyReadBack`
(`MarkedStaysMarked`), and a receipt that is offered to another incident
*of the same layer* for `ResolvedByItsReceipt` (`ManualNeedsItsReceipt`; the
plans of `recovery` offer receipts of the other layer and Native ones).

### What the violation says

`wake_invokes_retained`: the deferral after an unavailable wake loads the row
and writes `retry_wait` whatever the row says. A reply retained for a Tool
Result in the meantime is open again. With the ingress table the gate still
stops it while the locks hold (`RetainedStaysSilent`); without the table the
reply is invoked, and so it is, table or not, when a second call that lost its
lock session is already past its claim.

The same deferral stands in the way of `MarkedStaysMarked`. When a call
loses its lock session before it reaches the wake, a second call may claim,
mark and settle the message as `uncertain`, and the first one then writes
`retry_wait` over it (`delivery.py:1063-1080`): the message is open again
although it is marked and its attempt is closed, so a further attempt may be
opened for it. It is still not called twice (`AtMostOneCall` does not depend on
it). `MarkedOnlyReadBack` is therefore stated for a runtime without wake or
without lost sessions; `wait_ingress` is of the first kind.

### What else the models show

Behaviour that is not excluded by a property, but that a reader should know of:

* `mark_dispatched` refuses a message that is already `delivered` only after
  the Node has noted that the marker was attempted; the Node answers
  `uncertain`, and `dispatch` writes that over `delivered`. The same happens to
  a delivery the observer projected between the Node's answer and the final
  transaction of the call: the acknowledgement stays in the ledger, and so does
  the high water mark, but the message reads `uncertain` from then on. So only
  "settled stays settled" is a theorem, not "delivered stays delivered".
* The Node treats every stored invocation that is not `prepared` as possibly
  called, also `pre_call_rejected`: a crash turns a rejection into `uncertain`.
* A readback by a second executor can reach the Node before the execute request
  of an executor that lost its lease. The operation is then settled as
  `definitively_rejected`, and its session starts afterwards: the exception
  that `RejectionHoldsUnlessRaced` names (`receiver_lifecycle_executor.py:168`,
  `204`). The model records the race in `raced`; no property excludes it.
* A lost reply to a prepare request leaves the message `blocked` for good, and
  an ordinary dispatch after a boot replacement blocks a prepared message
  before `recover_prepared` can take it up; `reconcile_marked` and
  `recover_prepared` are called by tools only. A recovered dispatch is neither
  reconciled nor observed, as its selection no longer matches.
* `AcceptanceGuardFailed` is no `RuntimeError` and passes the sender's handlers.
* An operation whose endpoint epoch changed before its permit stays `preparing`
  or `deferred`.
* A Human Bridge open or request that acted and is retried after the expiry
  keeps its claim pending. A projection overtaken by another receipt conflicts
  on each retry. An incident whose packet is committed may expire, and the next
  generation may commit another packet.
* A finalize plan that pairs an old revision with a new lease (its two reads
  take no lock) makes every retry of that request a conflict; a new key works.
  That such a plan changes nothing is part of `OvertakenIsSilent`.

### Fairness

`Delivery` states what the runtime's scheduling gives: a dispatch thread and a
wait thread run on (weak fairness of their steps); the maintenance loop offers
a due message again and again and its claims are only intermittently enabled
because of locks and reservations (strong fairness of the claims); a receiver
that is busy becomes idle again and again (strong fairness of entering the
Native and of the marker); a lease nobody renews expires; reservations without
a lease are reclaimed every half second. Nothing is assumed about crashes,
failures, revocation or deadlines. `EventuallySettled` would be false for a
receiver that is busy for ever and a message without a deadline; that is the
code's behaviour too. `Notices` assumes that every pending notice is queued
or given up and every queued one is settled (weak fairness of its steps): the
first is `queue_communication_notices` every half second, the second is
`EventuallySettled`. `EventStream` assumes that source transactions end, that
the maintenance loop keeps publishing, and that the two tasks of an open
response run on; nobody has to commit a fact, purge, take a snapshot or
connect, and the stream may be cut at any time. Replays of an intent are
bounded (`MaxFaults`): a row that is locked at every single pass would be
skipped at every pass. `SignedReceiver` assumes that a due message is
dispatched again and that a call under way goes on, since each of its waits
ends by a timeout; nothing is assumed about the receiver, the network,
reconciliation or the observer. `ReceiverLifecycle` assumes that executors and
the Node's steps run on, that leases run out, that maintenance claims what is
due again and again, and that an exchange which is possible again and again
succeeds some time (strong fairness of claims, readback and receipt). With two
operations a weakly fair executor may serve one of them for ever, so the
liveness run has one. `LeasedEffects`, `Recovery` and `Attachments` are checked
for safety only: nothing in the code obliges a client to come back.

## 4. Proofs

`Delivery_proofs` proves, from `MaxAttemptsAssumption` and
`DeliveryAssumption` (which only give the constants their types and say that
there is a message), for any sets of messages and calls and any bounds:

* `TypeCorrect`: `Spec => []TypeOK`;
* `Evidence`: `Spec => []EvidenceIsReal`;
* `Refinement`: `Spec => AtMostOneCall`, that is, `Delivery` implements
  `NativeHandoff` under the mapping "marked iff the row has a dispatch
  marker, calls = Native calls made".

None of the three properties is inductive. The invariant `DeliveryInv` adds
what the argument really uses:

1. `RowInv`: the marker belongs to an opened attempt, and the attempt it
   belongs to is not `prepared` any more. Hence `mark_dispatched`, which
   demands a prepared current attempt and no marker of another attempt, finds
   no marker at all.
2. `MessageInv`: a call implies a marker; the Node's dispatch receipt is the
   marker and is tied to the stored invocation; acknowledgements follow.
3. `CallInv`: a call past the fence carries the stored invocation's attempt;
   between marker and Native call nobody has called, and the Node has no
   dispatch receipt yet; what a call has observed stays true.
4. `FenceInv`: one call at most is inside the last Node transaction. This,
   not the advisory locks, is what separates marker and call from every other
   call, so the theorem covers lost sessions.

Every action's lemma also yields `HandoffStep`, its effect on marker and calls
(nothing, one marker, one call), from which the refinement follows.

What the ledger *reports* needs a second invariant on top, `StoryInv`, and
gives four more theorems:

* `DeliveredIsProved`: `Spec => []DeliveredHasEvidence`;
* `ReservationsHold`: `Spec => ReservationHolds`;
* `RetainedStaysSilent`: `Spec => []RetainedNeverInvoked`, assuming that
  receiver wake is off, or that the ingress table exists and no lock session is
  ever lost (`Guarded`);
* `MarkedStaysMarked`: `Spec => []MarkedOnlyReadBack`, assuming
  `LocksOrNoWake` (receiver wake is off, or no lock session is ever lost).

The hypotheses are needed: with wake, TLC refutes the first property without
the ingress table (run `wake_invokes_retained`), and both with one lost session.
Three parts of `StoryInv` carry the argument.

1. `RowStory`, about a row beside its Node journal. A prepared attempt belongs
   to an open or a delivered message; a marked row has one of the shapes of
   `MarkedOnlyReadBack`; and a retained message that is *not* `delivered` any
   more has a spent invocation. The last part is what `RetainedNeverInvoked`
   is missing: `mark_dispatched` is stopped by the state `delivered`, but
   `Settle` may overwrite that state with `uncertain`. It does so only after
   the Node answered, and then the stored invocation is past `prepared` and the
   fence lets no call of that attempt through; a later attempt meets it as well.
2. `CallStory`: a call at work excludes a reservation, what it returns as
   `delivered` is acknowledged, and it returns only with the invocation spent.
3. `LockInv`, needed with wake only: as long as no session is lost one call
   works on a message, and what it claimed is unmarked when the wake defers it.

`GateInv` carries the second case of `RetainedStaysSilent`: a retained reply
stays selected and unmarked, and if it is not `delivered` any more no call is
at work on it, since whatever moved it away ended the only one. The gate, which
looks at the selection and not at the state, admits no other.

Each operator on rows has a lemma (`FinishReports`, `ProjectReports`,
`GateReports`, ...) that says when its result may replace a row (`Reports`),
and each action is reduced to one of four step lemmas: a commit beside resting
calls (`ReportStep`), a commit that ends a call (`ReleaseStep`), a journal
entry (`JournalStep`), a marker (`MarkedStep`). TLC confirmed the
invariants on instances with and without wake, with up to two lost sessions, before the
proofs.

What the ledger *keeps* is a third group:

* `SummariesAreTrue`: `receipt_high_water` is the highest layer with a receipt,
  and a message at an obstacle has a notice (`Spec => []HighWaterIsTrue`);
* `LedgerIsMonotone`: no step takes back a receipt, the first notice or an
  attempt, or lowers the high water mark (`Spec => ReceiptsStay`);
* `JournalIsMonotone`: the Node keeps its receipts, its invocation and that
  invocation's attempt, and never makes a spent invocation `prepared` again
  (`Spec => JournalStays`);
* `NoticesAreCurrent` and `ObstaclesAreMetOnce`, assuming that no lock session
  is lost: the first notice names the state the message is in, and a message
  meets an obstacle only while it has no notice (`[]NoticeNamesObstacle`,
  `OneObstacle`), so the `ON CONFLICT DO NOTHING` of `record_obstacle` never
  hides a later obstacle behind an earlier one;
* `SettledStaysSettled`, assuming also that receiver wake is off: nothing
  reopens a settled message (`SettledStays`).

These properties are stated in `Delivery_proofs`. The first three hold whatever
is lost or switched on. TLC refutes the others without their hypotheses: a
second call that outlived its lock settles the message again, and the deferral
of receiver wake rewrites a row that was delivered meanwhile. `Writes(r, r2)`
says when r2 may be committed over r, and every row operator has a lemma for it
(`WritesFinish`, `WritesProject`, `WritesRetain`, ...). The interesting one is
`WritesRetain`, which sets the mark without comparing: it is right only because
`_retain_wait_ingress` skips marked messages and an acknowledged message is
marked (`MessageInv`). `LedgerNext` reduces every action to such a commit and
records which calls are still at work on the message (`Fits`, `Works`); with
the locks, `AlertInv` follows: a call works on a message that is open or
delivered and has no notice.

`Notices_proofs` proves, for a team of any size and any set of messages,
`Acyclic`, `AcceptanceIsFinal`, `OneManager` and `UnknownIsQuiet` from
`NoticesAssumption`. Supervision without circles is stated as "no set of slots
keeps all its managers inside itself", and a chain that avoids a slot as a
closed set without it, so that the step needs no induction over chains: a
circle closed by a binding would meet the closed set of the new manager in a
smaller circle that was there before. `AcceptanceStops` needs to know that a
climbing notice never returns to a slot it came from: `Climbs` says that while
a manager is asked, the managers of all slots the notice came from are again
such slots or the one asked, and a return would make them a circle.

`EventStream_proofs` proves, for any facts, clients, publishers and limits,
`Contiguous` (`StreamConsistent`), `Complete`
(`NothingMissed`), `OneLate`, `CursorForward` and `ExpiredOnly`, from
assumptions that type the limits, the bounds and `Visible`. `StoreInv` adds
what the clock lock gives: a publisher with a batch is alone, the high water
it read is still current, and its rows are committed, unpublished and
distinct. `ClientInv` adds what an open response owes its client: whatever is
visible between the cursor and the producer's position is in the buffer or in
hand, the event in hand is below the buffer, and once the response is ending
nothing is owed any more because the cursor, not the position, is kept. A
publication cannot disturb it, as new sequences are above every position
(`StoreMoves`); a read cannot skip, as it starts at or above the boundary of a
contiguous stream (`BatchComplete`).

`LeasedEffects_proofs` proves, for any calls, operations, payloads and number
of leases, `PointerIsAlwaysTrue`, `EffectsAreRecorded`, `StaleStepsBounded`,
`ReplacementsStayInOrder` and the refinement `GatewayImplementsRegister`. A
crash may leave the gateway's files at any of seven stages, so `RecordInv`
fixes, for each stage of the call that holds the file lock (`StageOK`) and for
each pointer (`PointerOK`), which records exist and which of the two contents
the file has; an intent is tied to the operation it follows (`IntentOK`).
`LeaseInv` says that only the newest lease can be current, and `StaleInv` that
a call which has passed its check is no older than any recorded execution.

`SignedReceiver_proofs` proves, for any number of attempts, boots and faults,
`ReportsAreAlwaysTrue` and the refinement `ProtocolImplementsHandoff`. The
network is the difficulty: a request sent for a call that is long gone may still
arrive. `RequestInv` says that such a request executes only under the marker of
the current attempt, `LedgerInv` that the receiver's ledger has one execution
for the whole message and what its row says of the Native, `ReportInv` that
every answer on its way to the Domain repeats a ledger row that is final.

`Recovery_proofs` proves, for any incidents, packets, responses, commands and
calls, `ManualNeedsItsReceipt`, `ClaimedResultsHappened`, `NodeAndDomainAgree`,
`ExecutionsAgree` and the refinement `IncidentsFollowWorkflow`. A command acts
in one transaction and records its result in another, and anything may happen
in between. `Happened(c, out)` is what a result claims, stated so that nothing
takes it back (`Later`: records are written once, settled incidents do not
move); `CallInv` and `ClaimInv` use it for results before and after they are
recorded. `BridgeInv` relates incidents, packets, confirmations and receipts.

`Attachments_proofs` proves, for any attachments, requests, calls and messages,
`StorageIsAccepted`, `MessagesKeepContent`, `VerdictsAgree`,
`OvertakenStaysSilent` and `BudgetsHold`. Calls remember revisions they read without a lock;
`AtMost` says that whoever is still at the revision of the row is also at its
generation, which holds because both only move forward (`Forward`). With it
the compare-and-set on the revision protects chunks, verdicts and content.
`OvertakenIsSilent` speaks of uploads whose generation is past and of finalizers
whose plan has an old revision, also when it pairs it with the current lease.
`BudgetsHold` (`Spec => []QuotaHeld`) needs sums: the declared size of a set of
attachments is the number of chunks they declare, a cardinality, so that the
library's facts about finite sets give what a sum of one more attachment is
(`TotalAdd`) and that a smaller set declares no more (`TotalMonotone`). Only a
reservation adds to what is held, and its own test bounds the new sum; every
other step keeps or frees.

`ReceiverLifecycle_proofs` proves, for any operations, executors, epochs and
faults, `OneEffectAlways`, `OneSessionAlways` and `SettledReportsHold`.
`NodeInv` says that the Driver's journal is ahead of the Native at every step;
`Dead(o)` is what makes "not_started" true: the permit is used up, the Native
was not touched and no request is left that could. It survives every step
except the race the model records in `raced`. `OneSession` also says that no
process is launched beside a live one. That rests on `ProcessOK`: the Driver's
proof of a stopped process is right, a live process has a journalled dispatch,
and from the acceptance of a request that launches one to the launch there is
none. An acceptance keeps it because the capacity it re-reads excludes a live
process (`AcceptanceExcludes`), and a permit's action and capacity never change
once it is issued (`PermitsStand`).

The assumptions of all these modules give the constants their types and keep
distinct values apart, nothing more. TLC checked each of the inductive
invariants on the instances above before its proof.

Only model-checked: liveness (`EventuallySettled`, `EventuallyRetained`,
`EventuallyPublished`, `StreamDelivers`, `AcknowledgedIsSettled`,
`MarkedIsSettled`), as fairness and `ENABLED` are outside the prover's reach.
Every other property of a passing run is a theorem.

## 5. Plan and what is not modelled

Proofs next: monotonicity of the other components' records, as `Delivery` has
it for ledger and journal, and an obstacle model shared by `Delivery` and
`Notices` in place of the assumption `ObstaclesAreMetOnce` discharges. Models
next: the open points below.

Open in modelled parts: the notification frontier (acknowledging against new
notifications), stored snapshot pages and their pruning, Node boot replacement
behind the local endpoint, the Human Bridge file provider (a provider that dies
between its journal's intent and the installed file stays there), Natives other
than Codex in the lifecycle.

Left out for good: HTTP, MCP and SDK surfaces, permissions and project
administration (seen by delivery as a verdict that may change), process
supervisors, installers, the content store and the format validators:
formatting, operating system calls, parsing and hashing rather than protocols.
About two fifths of the repository's Python is tooling (`tools/`, `scripts/`:
probes, gate runners, scenes and workspace set-up) that drives the runtime from
outside and has no protocol of its own; it is not modelled either.
