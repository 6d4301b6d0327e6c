----------------------------- MODULE EventStream -----------------------------
(* The change feed of one project: source transactions record event intents, *)
(* a publisher copies committed intents into an ordered stream, retention    *)
(* drops an expired prefix of it, and a client that starts from a snapshot   *)
(* follows the stream over SSE, saving the cursor of each event it is sent.  *)
(*                                                                           *)
(* runtime/communication_event_storage.py and communication_event_schema.sql *)
(* (intents, clock, stream), communication_client_snapshot.py (snapshot),    *)
(* communication_client_events.py (event_batch, event_current) and           *)
(* communication_event_http.py (the producer and the consumer of one SSE     *)
(* response).  A fact stands for one source row with its trigger-recorded    *)
(* intent; payloads, tokens and kinds are abstracted to which client may see *)
(* which fact under which authorization revision.                            *)
EXTENDS Integers, Sequences, FiniteSets

CONSTANTS
  Facts,        \* source facts, one event intent each (source_key)
  Clients,      \* followers of the stream
  Publishers,   \* control planes that run maintain_event_publication
  Visible,      \* Visible[c][a]: facts c may see under authorization revision a
  BatchLimit,   \* batch_limit of a publication
  PurgeLimit,   \* limit of a retention pass
  QueueLimit,   \* EventStreamLimits.max_events
  MaxAuth,      \* bound: authorization revisions of a client
  MaxFaults     \* bound: rolled back transactions and intent replays

ASSUME LimitsAssumption ==
  /\ BatchLimit \in Nat \ {0} /\ PurgeLimit \in Nat \ {0}
  /\ QueueLimit \in Nat \ {0}
ASSUME BoundsAssumption == MaxAuth \in Nat /\ MaxFaults \in Nat
ASSUME VisibleAssumption == Visible \in [Clients -> [0..MaxAuth -> SUBSET Facts]]

VARIABLES
  src,       \* src[f]: the source transaction and its intent row
  id,        \* id[f]: intent_id, 0 before the intent is recorded
  nextId,    \* the BIGSERIAL of intent_id: never rolled back
  pubseq,    \* pubseq[f]: published_sequence, 0 for NULL
  stream,    \* rows of communication_event_stream: sequence and intent
  high,      \* high_water of the project's clock row
  retained,  \* retained_through of the project's clock row
  aged,      \* sequences whose published_at is before the retention cutoff
  batch,     \* batch[p]: intents publisher p selected and locked, in id order
  base,      \* base[p]: the high_water publisher p read
  auth,      \* auth[c]: the current authorization revision of client c
  client,    \* client[c]: the client's cursor and its SSE response
  faults     \* faults and replays so far (bounded by MaxFaults)

sourceVars == <<src, id, nextId>>
clockVars == <<stream, high, retained, aged>>
pubVars == <<batch, base>>
vars == <<src, id, nextId, pubseq, stream, high, retained, aged, batch, base,
          auth, client, faults>>

SrcStates == {"none", "open", "committed", "replaying"}
Row == [seq : Nat, fact : Facts]
Seqs == {r.seq : r \in stream}
NoHand == {}

(* A client's record.  st: "none" has no usable cursor, "cut" has a snapshot *)
(* being checked, "ready" holds a cursor, "open" has an SSE response.  view  *)
(* is what the client was told; pos and rev the saved cursor (state.cursor); *)
(* next the producer's position; queue, hand, checked and closed the state   *)
(* of generate().  The queue is filled in sequence order, so it is kept as   *)
(* the set of its rows and its head is the row with the least sequence.      *)
(* late counts events sent in this response after its authorization changed  *)
(* (a history variable).                                                     *)
ClientRec ==
  [st : {"none", "cut", "ready", "open"}, view : SUBSET Facts, pos : Nat,
   rev : 0..MaxAuth, next : Nat, queue : SUBSET Row, hand : SUBSET Row,
   checked : BOOLEAN, closed : BOOLEAN, late : Nat]

Init ==
  /\ src = [f \in Facts |-> "none"]
  /\ id = [f \in Facts |-> 0]
  /\ nextId = 1
  /\ pubseq = [f \in Facts |-> 0]
  /\ stream = {}
  /\ high = 0 /\ retained = 0
  /\ aged = {}
  /\ batch = [p \in Publishers |-> <<>>]
  /\ base = [p \in Publishers |-> 0]
  /\ auth = [c \in Clients |-> 0]
  /\ client = [c \in Clients |->
       [st |-> "none", view |-> {}, pos |-> 0, rev |-> 0, next |-> 0,
        queue |-> {}, hand |-> NoHand, checked |-> FALSE, closed |-> FALSE,
        late |-> 0]]
  /\ faults = 0

-----------------------------------------------------------------------------
(* Source transactions.                                                      *)

(* A trigger records the intent inside the source transaction and takes its  *)
(* id from the sequence; the row is invisible until the commit.              *)
Record(f) ==
  /\ src[f] = "none"
  /\ src' = [src EXCEPT ![f] = "open"]
  /\ id' = [id EXCEPT ![f] = nextId]
  /\ nextId' = nextId + 1
  /\ UNCHANGED <<pubseq, clockVars, pubVars, auth, client, faults>>

CommitFact(f) ==
  /\ src[f] = "open"
  /\ src' = [src EXCEPT ![f] = "committed"]
  /\ UNCHANGED <<id, nextId, pubseq, clockVars, pubVars, auth, client, faults>>

RollbackFact(f) ==
  /\ src[f] = "open" /\ faults < MaxFaults
  /\ src' = [src EXCEPT ![f] = "none"]
  /\ id' = [id EXCEPT ![f] = 0]
  /\ faults' = faults + 1
  /\ UNCHANGED <<nextId, pubseq, clockVars, pubVars, auth, client>>

Selected(f) == \E p \in Publishers : \E i \in 1..Len(batch[p]) : batch[p][i] = f

(* The same source_key again: ON CONFLICT DO UPDATE leaves the values alone  *)
(* and holds the row lock until its transaction ends.                        *)
Replay(f) ==
  /\ src[f] = "committed" /\ ~Selected(f) /\ faults < MaxFaults
  /\ src' = [src EXCEPT ![f] = "replaying"]
  /\ nextId' = nextId + 1
  /\ faults' = faults + 1
  /\ UNCHANGED <<id, pubseq, clockVars, pubVars, auth, client>>

ReplayEnds(f) ==
  /\ src[f] = "replaying"
  /\ src' = [src EXCEPT ![f] = "committed"]
  /\ UNCHANGED <<id, nextId, pubseq, clockVars, pubVars, auth, client, faults>>

-----------------------------------------------------------------------------
(* Publication and retention.                                                *)

\* Mutant: publishers and retention do not lock the clock row.
ClockUnlocked == TRUE

(* The clock row's FOR UPDATE lock: held by a publisher from its first read  *)
(* to the end of its transaction.                                            *)
ClockFree == \A p \in Publishers : batch[p] = <<>>

\* Mutant: the publisher polls above the last intent it published.
PendingAboveLast ==
  {f \in Facts : /\ src[f] = "committed" /\ pubseq[f] = 0 /\ ~Selected(f)
                 /\ \A g \in Facts : pubseq[g] > 0 => id[g] < id[f]}

(* Committed, unpublished intents that no other transaction has locked.      *)
Pending == {f \in Facts : src[f] = "committed" /\ pubseq[f] = 0 /\ ~Selected(f)}

(* ORDER BY intent_id LIMIT: b lists the first BatchLimit pending intents.   *)
FirstPending(b) ==
  /\ \A i, j \in 1..Len(b) : i < j => id[b[i]] < id[b[j]]
  /\ \A f \in Pending :
        \/ \E i \in 1..Len(b) : b[i] = f
        \/ Len(b) = BatchLimit /\ id[b[Len(b)]] < id[f]

PublishSelect(p) ==
  /\ ClockFree /\ batch[p] = <<>>
  /\ \E n \in 1..BatchLimit : \E b \in [1..n -> Pending] :
       /\ FirstPending(b)
       /\ batch' = [batch EXCEPT ![p] = b]
  /\ base' = [base EXCEPT ![p] = high]
  /\ UNCHANGED <<sourceVars, pubseq, clockVars, auth, client, faults>>

PublishCommit(p) ==
  LET b == batch[p] IN
  /\ b # <<>>
  /\ stream' = stream \cup {[seq |-> base[p] + i, fact |-> b[i]] : i \in 1..Len(b)}
  /\ pubseq' = [f \in Facts |->
       IF \E i \in 1..Len(b) : b[i] = f
       THEN base[p] + (CHOOSE i \in 1..Len(b) : b[i] = f) ELSE pubseq[f]]
  /\ high' = base[p] + Len(b)
  /\ batch' = [batch EXCEPT ![p] = <<>>]
  /\ base' = [base EXCEPT ![p] = 0]
  /\ UNCHANGED <<sourceVars, retained, aged, auth, client, faults>>

(* The transaction fails: every original intent is kept.                     *)
PublishRollback(p) ==
  /\ batch[p] # <<>> /\ faults < MaxFaults
  /\ batch' = [batch EXCEPT ![p] = <<>>]
  /\ base' = [base EXCEPT ![p] = 0]
  /\ faults' = faults + 1
  /\ UNCHANGED <<sourceVars, pubseq, clockVars, auth, client>>

(* Time passes for one record.  Rows may age in any order: published_at is   *)
(* the wall clock of the database, which may be stepped.                     *)
Age(s) ==
  /\ s \in Seqs /\ s \notin aged
  /\ aged' = aged \cup {s}
  /\ UNCHANGED <<sourceVars, pubseq, stream, high, retained, pubVars, auth, client, faults>>

(* The rows below the first one that is still retained.                      *)
ExpiredPrefix == {s \in Seqs : \A r \in Seqs : r <= s => r \in aged}

Purge ==
  /\ ClockFree
  /\ \E floor \in ExpiredPrefix :
       /\ LET upTo == Cardinality({s \in ExpiredPrefix : s <= floor}) IN
          upTo = PurgeLimit \/ (upTo < PurgeLimit /\ \A s \in ExpiredPrefix : s <= floor)
       /\ stream' = {r \in stream : r.seq > floor}
       /\ retained' = floor
       /\ aged' = {s \in aged : s > floor}
  /\ UNCHANGED <<sourceVars, pubseq, high, pubVars, auth, client, faults>>

-----------------------------------------------------------------------------
(* Clients.                                                                  *)

(* A grant, a binding or a membership of the client changes.                 *)
AuthChange(c) ==
  /\ auth[c] < MaxAuth
  /\ auth' = [auth EXCEPT ![c] = @ + 1]
  /\ UNCHANGED <<sourceVars, pubseq, clockVars, pubVars, client, faults>>

Set(c, k) ==
  /\ client' = [client EXCEPT ![c] = k]
  /\ UNCHANGED <<sourceVars, pubseq, clockVars, pubVars, auth, faults>>

Recorded == {f \in Facts : src[f] \in {"committed", "replaying"}}

(* The REPEATABLE READ cut: the visible facts, the high water and the        *)
(* authorization revision of one database snapshot.                          *)
SnapshotCut(c) ==
  /\ client[c].st \in {"none", "ready"}
  /\ Set(c, [client[c] EXCEPT !.st = "cut", !.rev = auth[c], !.pos = high,
               !.view = Recorded \cap Visible[c][auth[c]]])

(* event_current after the cut: nothing is returned under a changed revision *)
(* (SnapshotMismatch, quota and contention also return nothing).             *)
SnapshotReturns(c) ==
  /\ client[c].st = "cut" /\ auth[c] = client[c].rev
  /\ Set(c, [client[c] EXCEPT !.st = "ready"])

SnapshotFails(c) ==
  /\ client[c].st = "cut"
  /\ Set(c, [client[c] EXCEPT !.st = "none"])

(* A cursor is good for this revision of the authorization, and at or above  *)
(* the replay boundary.                                                      *)
CursorGood(c, position) == auth[c] = client[c].rev /\ position >= retained

(* read_event_records, under FOR SHARE of the clock row: the next records in *)
(* sequence order, at most limit of them; last is the sequence of the last.  *)
Reads(position, limit, last) ==
  LET n == Cardinality({s \in Seqs : position < s /\ s <= last}) IN
  /\ last \in Seqs /\ position < last
  /\ n = limit \/ (n < limit /\ \A s \in Seqs : s <= last)

(* event_batch keeps the visible ones, but moves past every record it read.  *)
Batch(c, position, last) ==
  {r \in stream : position < r.seq /\ r.seq <= last /\ r.fact \in Visible[c][client[c].rev]}

(* GET events: the first batch is read before the response starts.           *)
Connect(c) ==
  LET k == client[c] IN
  /\ k.st = "ready" /\ ClockFree /\ CursorGood(c, k.pos)
  /\ \E last \in Seqs \cup {k.pos} :
       /\ IF \E s \in Seqs : s > k.pos THEN Reads(k.pos, QueueLimit, last)
                                       ELSE last = k.pos
       /\ Set(c, [k EXCEPT !.st = "open", !.next = last, !.queue = Batch(c, k.pos, last)])

(* 409 or 410: the cursor's revision changed, it precedes the boundary, or   *)
(* its lifetime is over.  The client has to take a snapshot.                 *)
ConnectRefused(c) ==
  /\ client[c].st = "ready"
  /\ Set(c, [client[c] EXCEPT !.st = "none"])

\* Mutant: the position moves only to the last event that was kept.
FetchToVisible(c) ==
  LET k == client[c] IN
  /\ k.st = "open" /\ ~k.closed /\ ClockFree /\ CursorGood(c, k.next)
  /\ Cardinality(k.queue) < QueueLimit
  /\ \E last \in Seqs :
       /\ Reads(k.next, QueueLimit - Cardinality(k.queue), last)
       /\ Set(c, [k EXCEPT !.next = IF Batch(c, k.next, last) = {} THEN @ ELSE last,
                           !.queue = @ \cup Batch(c, k.next, last)])

(* The producer reads on while the queue has room.                           *)
Fetch(c) ==
  LET k == client[c] IN
  /\ k.st = "open" /\ ~k.closed /\ ClockFree /\ CursorGood(c, k.next)
  /\ Cardinality(k.queue) < QueueLimit
  /\ \E last \in Seqs :
       /\ Reads(k.next, QueueLimit - Cardinality(k.queue), last)
       /\ Set(c, [k EXCEPT !.next = last, !.queue = @ \cup Batch(c, k.next, last)])

(* end(): the buffered events are dropped and the control event is queued.   *)
Ending(k) == [k EXCEPT !.closed = TRUE, !.queue = {}]

FetchRefused(c) ==
  LET k == client[c] IN
  /\ k.st = "open" /\ ~k.closed /\ ~CursorGood(c, k.next)
  /\ Set(c, Ending(k))

(* slow_consumer, event_exceeds_buffer, or a read that failed or timed out.  *)
ProducerEnds(c) ==
  /\ client[c].st = "open" /\ ~client[c].closed
  /\ Set(c, Ending(client[c]))

(* The consumer takes the head of the queue.                                 *)
Take(c) ==
  LET k == client[c] IN
  /\ k.st = "open" /\ k.hand = NoHand
  /\ \E r \in k.queue :
       /\ \A q \in k.queue : r.seq <= q.seq
       /\ Set(c, [k EXCEPT !.hand = {r}, !.queue = @ \ {r}, !.checked = FALSE])

\* Mutant: the authorization of the fetch is trusted at the emit.
CheckSkipped(c) ==
  LET k == client[c] IN
  /\ k.st = "open" /\ k.hand # NoHand /\ ~k.checked
  /\ Set(c, [k EXCEPT !.checked = TRUE])

(* event_current: a fresh check before every emit.  Its transaction ends     *)
(* before the event is yielded.                                              *)
Check(c) ==
  LET k == client[c] IN
  /\ k.st = "open" /\ k.hand # NoHand /\ ~k.checked
  /\ auth[c] = k.rev
  /\ Set(c, [k EXCEPT !.checked = TRUE])

\* Mutant: the client is given the producer's position as its cursor.
EmitPosition(c) ==
  LET k == client[c] IN
  /\ k.st = "open" /\ k.checked /\ ~k.closed
  /\ \E r \in k.hand :
       Set(c, [k EXCEPT !.view = @ \cup {r.fact}, !.pos = k.next, !.hand = NoHand,
                 !.checked = FALSE, !.late = IF auth[c] = k.rev THEN @ ELSE @ + 1])

(* The event is sent with its cursor, unless the producer ended meanwhile.   *)
Emit(c) ==
  LET k == client[c] IN
  /\ k.st = "open" /\ k.checked /\ ~k.closed
  /\ \E r \in k.hand :
       Set(c, [k EXCEPT !.view = @ \cup {r.fact}, !.pos = r.seq, !.hand = NoHand,
                 !.checked = FALSE, !.late = IF auth[c] = k.rev THEN @ ELSE @ + 1])

(* The response is over and its buffers are gone; the client keeps the       *)
(* cursor of the last event it was sent.                                     *)
Closed(k) == [k EXCEPT !.st = "ready", !.next = 0, !.queue = {}, !.hand = NoHand,
                       !.checked = FALSE, !.closed = FALSE, !.late = 0]

(* A control event ends the response: the producer ended it, or a check made *)
(* before an emit or for a heartbeat failed.                                 *)
EndStream(c) ==
  LET k == client[c] IN
  /\ k.st = "open"
  /\ \/ k.closed /\ (k.hand = NoHand \/ k.checked)
     \/ auth[c] # k.rev /\ ~k.checked
  /\ Set(c, Closed(k))

Disconnect(c) ==
  /\ client[c].st = "open"
  /\ Set(c, Closed(client[c]))

-----------------------------------------------------------------------------
Source(f) == Record(f) \/ CommitFact(f) \/ RollbackFact(f) \/ Replay(f) \/ ReplayEnds(f)
Publisher(p) == PublishSelect(p) \/ PublishCommit(p) \/ PublishRollback(p)
Snapshots(c) == SnapshotCut(c) \/ SnapshotReturns(c) \/ SnapshotFails(c)
Follow(c) == \/ Connect(c) \/ ConnectRefused(c) \/ Fetch(c) \/ FetchRefused(c)
             \/ ProducerEnds(c) \/ Take(c) \/ Check(c) \/ Emit(c)
             \/ EndStream(c) \/ Disconnect(c)

Next ==
  \/ \E f \in Facts : Source(f)
  \/ \E p \in Publishers : Publisher(p)
  \/ \E s \in Seqs : Age(s)
  \/ Purge
  \/ \E c \in Clients : AuthChange(c) \/ Snapshots(c) \/ Follow(c)

Spec == Init /\ [][Next]_vars

(* Transactions end, the maintenance loop keeps publishing, and the producer *)
(* and the consumer of an SSE response are running asyncio tasks.  Nobody    *)
(* has to commit a fact, purge, take a snapshot or connect.                  *)
Fairness ==
  /\ \A f \in Facts : WF_vars(CommitFact(f)) /\ WF_vars(ReplayEnds(f))
  /\ \A p \in Publishers : WF_vars(PublishSelect(p)) /\ WF_vars(PublishCommit(p))
  /\ \A c \in Clients :
       /\ WF_vars(Fetch(c)) /\ WF_vars(FetchRefused(c)) /\ WF_vars(Take(c))
       /\ WF_vars(Check(c)) /\ WF_vars(Emit(c)) /\ WF_vars(EndStream(c))

FairSpec == Spec /\ Fairness

-----------------------------------------------------------------------------
(* Properties.                                                               *)

(* Every variable keeps its type, and the consumer of a response has at most *)
(* one event in hand, whose cursor the client will be given.                 *)
TypeOK ==
  /\ src \in [Facts -> SrcStates]
  /\ id \in [Facts -> Nat] /\ nextId \in Nat
  /\ pubseq \in [Facts -> Nat]
  /\ stream \subseteq Row
  /\ high \in Nat /\ retained \in Nat /\ aged \subseteq Nat
  /\ batch \in [Publishers -> Seq(Facts)] /\ base \in [Publishers -> Nat]
  /\ auth \in [Clients -> 0..MaxAuth]
  /\ client \in [Clients -> ClientRec]
  /\ \A c \in Clients : \A r, q \in client[c].hand : r = q
  /\ faults \in 0..MaxFaults

(* The stored stream has no hole: its sequences are exactly the ones above   *)
(* retained_through up to high_water, whatever publications and retention    *)
(* passes interleave (the boundary and "missing retained event stream        *)
(* record" conditions that _shape verifies at start-up).                     *)
StreamContiguous == Seqs = (retained + 1)..high

(* A fact has at most one place in the stream: each row is its intent's      *)
(* published_sequence, a published intent above the boundary has its row,    *)
(* two intents never share a sequence, and only committed facts are          *)
(* published ("inconsistent published event intent" of _shape).              *)
PublishedOnce ==
  /\ \A r \in stream : r.seq = pubseq[r.fact]
  /\ \A f \in Facts :
       /\ pubseq[f] <= high
       /\ pubseq[f] > retained => [seq |-> pubseq[f], fact |-> f] \in stream
       /\ pubseq[f] > 0 => f \in Recorded
  /\ \A f, g \in Facts : pubseq[f] = pubseq[g] /\ pubseq[f] > 0 => f = g

(* One gap-free order, whatever publications, replays and retention passes   *)
(* interleave: the two conditions together.                                  *)
StreamConsistent == StreamContiguous /\ PublishedOnce

(* A client that holds a cursor was told every fact it may see that was      *)
(* published at or before the cursor: by the snapshot, although facts commit *)
(* out of id order and are published later, or by an event, although buffers *)
(* are dropped when a response ends and invisible records are skipped.       *)
NothingMissed ==
  \A c \in Clients : client[c].st \in {"ready", "open"} =>
    \A f \in Visible[c][client[c].rev] :
      0 < pubseq[f] /\ pubseq[f] <= client[c].pos => f \in client[c].view

(* A fresh authorization check precedes every emit: after a change, at most  *)
(* the one event that was already checked is still sent.                     *)
AtMostOneLate == \A c \in Clients : client[c].late <= 1

(* The cursor a client holds never goes back, across events, reconnections   *)
(* and new snapshots: nothing makes it replay what it already acknowledged.  *)
CursorNeverGoesBack == [][\A c \in Clients : client'[c].pos >= client[c].pos]_vars

(* Retention removes nothing but expired records ("Delete only an expired    *)
(* contiguous prefix").                                                      *)
PurgesExpiredOnly == [][Seqs \ Seqs' \subseteq aged]_vars

(* Every committed fact is published, however late it commits.               *)
EventuallyPublished ==
  \A f \in Facts : (f \in Recorded) ~> (pubseq[f] > 0)

(* An open response tells its client of every published fact the client may  *)
(* see, or ends.                                                             *)
StreamDelivers ==
  \A c \in Clients, f \in Facts :
    (client[c].st = "open" /\ pubseq[f] > 0 /\ f \in Visible[c][client[c].rev])
      ~> (f \in client[c].view \/ client[c].st # "open")
=============================================================================
