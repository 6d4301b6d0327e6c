---------------------------- MODULE Attachments ----------------------------
(***************************************************************************)
(* Attachment uploads of one project: a reservation, the chunks of an      *)
(* upload, publication to the content store, and the message that pins the *)
(* result (communication_client_attachments.py over                        *)
(* communication_attachment_storage.py).                                   *)
(*                                                                         *)
(* An action is one SQL transaction, or the write to the content store     *)
(* between two of them.  A call that is refused, fails or loses its client *)
(* changes nothing more: that is Drop.                                     *)
(***************************************************************************)
EXTENDS Naturals, FiniteSets

CONSTANTS
  Ids,            \* the attachments that may be reserved
  Viewer,         \* [Ids -> the uploader's private viewer key]
  Size,           \* [Ids -> declared bytes, in chunks]
  Contents,       \* [Ids -> whether its bytes may, or may not, be of the declared media type]
  Uploads,        \* PUT content requests, one per Idempotency-Key and attachment
  Finals,         \* finalize requests, one per Idempotency-Key and attachment
  Of,             \* [Uploads \cup Finals -> Ids]
  Nobody,         \* not a request
  Calls,          \* executions of requests under way, retries included
  Messages,
  ViewerQuota, ProjectQuota, MessageLimit,  \* limits, in chunks
  AttachmentsPerMessage

Requests == Uploads \cup Finals

ASSUME AttachmentsAssumption ==
  /\ IsFiniteSet(Ids)
  /\ Size \in [Ids -> Nat \ {0}]
  /\ Contents \in [Ids -> SUBSET BOOLEAN]
  /\ Uploads \cap Finals = {}
  /\ Of \in [Requests -> Ids]
  /\ Nobody \notin Requests
  /\ {ViewerQuota, ProjectQuota, MessageLimit, AttachmentsPerMessage} \subseteq Nat

VARIABLES
  row,      \* communication_attachments
  chunks,   \* communication_attachment_chunks of each attachment
  plan,     \* the plan receipt of each request in communication_attachment_requests
  result,   \* its result receipt
  call,     \* the calls under way
  cas,      \* attachments whose declared content is in the Scope's content store
  sent      \* communication_message_attachments: what each message pins

vars == <<row, chunks, plan, result, call, cas, sent>>

Data == {"declared", "other"}

NoRow == [state |-> "none", rev |-> 0, gen |-> 0, lease |-> "none", got |-> 0,
          valid |-> FALSE, artifact |-> FALSE, pinned |-> FALSE, aged |-> FALSE]

NoPlan == [kind |-> "none", gen |-> 0, rev |-> 0]

NoResult == [out |-> "none", rev |-> 0]

Idle == [pc |-> "idle", req |-> Nobody, off |-> 0, ok |-> TRUE, rev |-> 0]

Init ==
  /\ row = [a \in Ids |-> NoRow]
  /\ chunks = [a \in Ids |-> {}]
  /\ plan = [r \in Requests |-> NoPlan]
  /\ result = [r \in Requests |-> NoResult]
  /\ call = [c \in Calls |-> Idle]
  /\ cas = {}
  /\ sent = [m \in Messages |-> {}]

\* sum(declared_bytes) over S: the chunks its attachments declare, counted.
Total(S) == Cardinality(UNION {{a} \X (1..Size[a]) : a \in S})

-----------------------------------------------------------------------------
(* Reservations, their expiry, and the guards of a row. *)

\* Staging that counts against the budgets.
Held == {a \in Ids : ~row[a].pinned /\ row[a].state \notin {"none", "expired", "rejected"}}

\* Mutant: uploaded and ready content is not counted.
FitsReserved(a) ==
  LET H == {b \in Held : row[b].state = "reserved"}
      Mine == {b \in H : Viewer[b] = Viewer[a]}
  IN Total(H) + Size[a] <= ProjectQuota /\ Total(Mine) + Size[a] <= ViewerQuota

\* The two budgets, summed under the project's quota lock.
Fits(a) ==
  LET Mine == {b \in Held : Viewer[b] = Viewer[a]}
  IN Total(Held) + Size[a] <= ProjectQuota /\ Total(Mine) + Size[a] <= ViewerQuota

\* reserve_attachment.  A repeated request returns its receipt: no step.  v says
\* whether the declared content is of the declared media type, which nobody
\* knows before the bytes are validated.
Reserve(a, v) ==
  /\ row[a].state = "none"
  /\ v \in Contents[a]
  /\ Fits(a)
  /\ row' = [row EXCEPT ![a].state = "reserved", ![a].rev = 1, ![a].valid = v]
  /\ UNCHANGED <<chunks, plan, result, call, cas, sent>>

\* The clock reaches expires_at; an upload lease never outlives it.
Age(a) ==
  /\ row[a].state # "none"
  /\ ~row[a].pinned
  /\ ~row[a].aged
  /\ row' = [row EXCEPT ![a].aged = TRUE,
                        ![a].lease = IF @ = "live" THEN "expired" ELSE @]
  /\ UNCHANGED <<chunks, plan, result, call, cas, sent>>

LeaseExpires(a) ==
  /\ row[a].lease = "live"
  /\ row' = [row EXCEPT ![a].lease = "expired"]
  /\ UNCHANGED <<chunks, plan, result, call, cas, sent>>

\* One row of expire_attachment_staging.
Expire(a) ==
  /\ row[a].aged
  /\ ~row[a].pinned
  /\ row[a].state \notin {"none", "expired"}
  /\ row' = [row EXCEPT ![a].state = "expired", ![a].rev = @ + 1, ![a].lease = "none"]
  /\ chunks' = [chunks EXCEPT ![a] = {}]
  /\ UNCHANGED <<plan, result, call, cas, sent>>

Live(a) == row[a].state # "expired" /\ (row[a].pinned \/ ~row[a].aged)

\* The lease token is drawn anew with every generation, so the generation
\* identifies it.
Fence(a, g) == Live(a) /\ row[a].gen = g /\ row[a].lease = "live"

Staged(a) == row[a].state \in {"reserved", "uploaded"}

\* The staged chunks are contiguous, complete and have the declared digest.
Intact(a) ==
  LET Mine == {k \in chunks[a] : k.gen = row[a].gen}
  IN /\ {k.off : k \in Mine} = 0..(Size[a] - 1)
     /\ \A k \in Mine : k.data = "declared"
     /\ row[a].got = Size[a]

Ends(c) == call' = [call EXCEPT ![c] = Idle]

Goto(c, pc) == call' = [call EXCEPT ![c].pc = pc]

\* A call is refused, fails, or its client goes away.
Drop(c) ==
  /\ call[c].pc # "idle"
  /\ Ends(c)
  /\ UNCHANGED <<row, chunks, plan, result, cas, sent>>

-----------------------------------------------------------------------------
(* PUT content. *)

\* Mutant: a restart leaves the chunks of the last generation in place.
BeginUploadOver(a) ==
  /\ Live(a)
  /\ Staged(a)
  /\ row' = [row EXCEPT ![a].state = "reserved", ![a].rev = @ + 1, ![a].gen = @ + 1,
                        ![a].got = 0, ![a].lease = "live"]
  /\ UNCHANGED chunks

\* Mutant: a rejected attachment may be uploaded again.
BeginUploadRejected(a) ==
  /\ Live(a)
  /\ row[a].state # "ready"
  /\ row' = [row EXCEPT ![a].state = "reserved", ![a].rev = @ + 1, ![a].gen = @ + 1,
                        ![a].got = 0, ![a].lease = "live"]
  /\ chunks' = [chunks EXCEPT ![a] = {}]

\* begin_attachment_upload: the facade restarts every reservation whose
\* revision has moved, and revision 1 has no lease to take over.
BeginUpload(a) ==
  /\ Live(a)
  /\ Staged(a)
  /\ row' = [row EXCEPT ![a].state = "reserved", ![a].rev = @ + 1, ![a].gen = @ + 1,
                        ![a].got = 0, ![a].lease = "live"]
  /\ chunks' = [chunks EXCEPT ![a] = {}]

\* The first execution of a request captures its lease, every other one
\* works under the captured one.
PlanUpload(c, r) ==
  LET a == Of[r]
      p == [kind |-> "lease", gen |-> row[a].gen + 1, rev |-> row[a].rev + 1]
  IN /\ call[c].pc = "idle"
     /\ row[a].state # "none"
     /\ result[r] = NoResult
     /\ \/ /\ plan[r] = NoPlan
           /\ BeginUpload(a)
           /\ plan' = [plan EXCEPT ![r] = p]
        \/ /\ plan[r] # NoPlan
           /\ UNCHANGED <<row, chunks, plan>>
     /\ call' = [call EXCEPT ![c] = [Idle EXCEPT !.pc = "upload", !.req = r, !.rev = plan'[r].rev]]
     /\ UNCHANGED <<result, cas, sent>>

\* A chunk within the declaration, at the next of its fixed boundaries.
Expects(c) == call[c].off < Size[Of[call[c].req]]

\* The client sends the next chunk: it is stored, or it repeats a stored one.
Append(c, d) ==
  LET r == call[c].req
      a == Of[r]
      g == plan[r].gen
      off == call[c].off
      ok == call[c].ok /\ d = "declared"
  IN /\ call[c].pc = "upload"
     /\ Expects(c)
     /\ Fence(a, g)
     /\ Staged(a)
     /\ \/ /\ off < row[a].got
           /\ \E k \in chunks[a] :
                /\ k.gen = g /\ k.off = off /\ k.data = d
                /\ call' = [call EXCEPT ![c].off = off + 1, ![c].ok = ok, ![c].rev = k.rev]
           /\ UNCHANGED <<row, chunks>>
        \/ /\ off = row[a].got
           /\ row[a].state = "reserved"
           /\ row' = [row EXCEPT ![a].got = @ + 1, ![a].rev = @ + 1]
           /\ chunks' = [chunks EXCEPT ![a] = @ \cup
                           {[gen |-> g, off |-> off, data |-> d, rev |-> row[a].rev + 1]}]
           /\ call' = [call EXCEPT ![c].off = off + 1, ![c].ok = ok, ![c].rev = row[a].rev + 1]
     /\ UNCHANGED <<plan, result, cas, sent>>

\* Mutant: a rejection does not compare the revision.
RejectLate(a, rev) ==
  /\ Live(a)
  /\ Staged(a)
  /\ row' = [row EXCEPT ![a].state = "rejected", ![a].got = 0, ![a].lease = "none", ![a].rev = @ + 1]
  /\ chunks' = [chunks EXCEPT ![a] = {}]

\* reject_attachment, under the revision its caller has seen.
Reject(a, rev) ==
  /\ Live(a)
  /\ row[a].rev = rev
  /\ Staged(a) /\ ~row[a].pinned
  /\ row' = [row EXCEPT ![a].state = "rejected", ![a].got = 0, ![a].lease = "none", ![a].rev = @ + 1]
  /\ chunks' = [chunks EXCEPT ![a] = {}]

Answer(r, out, rev) == result' = [result EXCEPT ![r] = [out |-> out, rev |-> rev]]

\* The end of the stream: what was received is the declared content, and the
\* upload completes, or it is not, and the reservation is rejected.
Complete(c) ==
  LET r == call[c].req
      a == Of[r]
      matches == call[c].off = Size[a] /\ call[c].ok
  IN /\ call[c].pc = "upload"
     /\ result[r] = NoResult
     /\ \/ /\ matches
           /\ Fence(a, plan[r].gen)
           /\ Staged(a)
           /\ Intact(a)
           /\ row' = IF row[a].state = "uploaded" THEN row
                     ELSE [row EXCEPT ![a].state = "uploaded", ![a].rev = @ + 1]
           /\ Answer(r, "uploaded", row'[a].rev)
           /\ UNCHANGED chunks
        \/ /\ ~matches
           /\ Reject(a, call[c].rev)
           /\ Answer(r, "rejected", row'[a].rev)
     /\ Ends(c)
     /\ UNCHANGED <<plan, cas, sent>>

-----------------------------------------------------------------------------
(* Finalize. *)

\* What get_attachment shows of a ready attachment.
ShowsReady(a) == row[a].state = "ready" /\ Live(a)

\* The plan's transaction: its two reads of the row take no lock, so the
\* attachment may move between them; the request itself is locked.
PeekFinal(c, r) ==
  LET a == Of[r]
  IN /\ call[c].pc = "idle"
     /\ row[a].state # "none"
     /\ result[r] = NoResult
     /\ \A x \in Calls : call[x].pc = "peeked" => call[x].req # r
     /\ \/ /\ plan[r] # NoPlan
           /\ call' = [call EXCEPT ![c] = [Idle EXCEPT !.pc = "check", !.req = r]]
           /\ UNCHANGED plan
        \/ /\ plan[r] = NoPlan
           /\ ShowsReady(a)
           /\ plan' = [plan EXCEPT ![r].kind = "ready"]
           /\ call' = [call EXCEPT ![c] = [Idle EXCEPT !.pc = "check", !.req = r]]
        \/ /\ plan[r] = NoPlan
           /\ ~ShowsReady(a)
           /\ call' = [call EXCEPT ![c] = [Idle EXCEPT !.pc = "peeked", !.req = r, !.rev = row[a].rev]]
           /\ UNCHANGED plan
     /\ UNCHANGED <<row, chunks, result, cas, sent>>

\* uploaded_attachment_lease, and the plan is stored.
PlanFinal(c) ==
  LET r == call[c].req
      a == Of[r]
  IN /\ call[c].pc = "peeked"
     /\ row[a].state = "uploaded"
     /\ Fence(a, row[a].gen)
     /\ plan' = [plan EXCEPT ![r] = [kind |-> "lease", gen |-> row[a].gen, rev |-> call[c].rev]]
     /\ call' = [call EXCEPT ![c].pc = "check", ![c].rev = 0]
     /\ UNCHANGED <<row, chunks, result, cas, sent>>

\* _attachment_ready_result finds the stored result, or a ready attachment.
ReadyResult(c) ==
  LET r == call[c].req
      a == Of[r]
  IN \/ /\ result[r] # NoResult
        /\ UNCHANGED result
     \/ /\ result[r] = NoResult
        /\ ShowsReady(a)
        /\ Answer(r, "ready", row[a].rev)

Unready(c) == result[call[c].req] = NoResult /\ ~ShowsReady(Of[call[c].req])

\* Before any work, and again after a conflict.
CheckReady(c) ==
  /\ call[c].pc \in {"check", "reconcile"}
  /\ \/ ReadyResult(c) /\ Ends(c)
     \/ /\ call[c].pc = "check"
        /\ Unready(c)
        /\ plan[call[c].req].kind = "lease"
        /\ Goto(c, "read")
        /\ UNCHANGED result
  /\ UNCHANGED <<row, chunks, plan, cas, sent>>

\* The upload is still the planned one.
Planned(c) ==
  LET r == call[c].req
  IN Fence(Of[r], plan[r].gen) /\ row[Of[r]].rev = plan[r].rev

\* read_uploaded_attachment.  Row and chunks are read by two statements; whatever
\* changes the row takes its chunks away or leaves both reads as they were, so
\* the two are one step at the first read, or a conflict at the second.
ReadUpload(c) ==
  LET a == Of[call[c].req]
  IN /\ call[c].pc = "read"
     /\ \/ /\ Planned(c)
           /\ row[a].state = "uploaded"
           /\ Intact(a)
           /\ Goto(c, "put")
        \/ /\ Live(a)
           /\ ~(Planned(c) /\ row[a].state = "uploaded" /\ Intact(a))
           /\ Goto(c, "reconcile")
     /\ UNCHANGED <<row, chunks, plan, result, cas, sent>>

\* Mutant: the content is made ready before it is stored.
PutLater(c) ==
  LET a == Of[call[c].req]
  IN /\ call[c].pc = "put"
     /\ Goto(c, IF row[a].valid THEN "finish" ELSE "reject")
     /\ UNCHANGED <<row, chunks, plan, result, cas, sent>>

\* put_attachment_content: validated, stored and read back, outside SQL.
Put(c) ==
  LET a == Of[call[c].req]
  IN /\ call[c].pc = "put"
     /\ \/ ~row[a].valid /\ Goto(c, "reject") /\ UNCHANGED cas
        \/ row[a].valid /\ Goto(c, "finish") /\ cas' = cas \cup {a}
     /\ UNCHANGED <<row, chunks, plan, result, sent>>

\* finish_attachment_ready, or a conflict that is looked into.
Finish(c) ==
  LET r == call[c].req
      a == Of[r]
  IN /\ call[c].pc = "finish"
     /\ result[r] = NoResult
     /\ \/ /\ Planned(c)
           /\ row[a].state = "uploaded"
           /\ row' = [row EXCEPT ![a].state = "ready", ![a].rev = @ + 1, ![a].artifact = TRUE,
                                 ![a].lease = "none"]
           /\ chunks' = [chunks EXCEPT ![a] = {}]
           /\ Answer(r, "ready", row'[a].rev)
           /\ Ends(c)
        \/ /\ Live(a)
           /\ ~(Planned(c) /\ row[a].state = "uploaded")
           /\ Goto(c, "reconcile")
           /\ UNCHANGED <<row, chunks, result>>
     /\ UNCHANGED <<plan, cas, sent>>

\* The validator refused the content.
RejectContent(c) ==
  LET r == call[c].req
      a == Of[r]
  IN /\ call[c].pc = "reject"
     /\ result[r] = NoResult
     /\ \/ /\ Reject(a, plan[r].rev)
           /\ Answer(r, "rejected", row'[a].rev)
           /\ Ends(c)
        \/ /\ Live(a)
           /\ row[a].rev # plan[r].rev \/ ~Staged(a)
           /\ Goto(c, "reconcile")
           /\ UNCHANGED <<row, chunks, result>>
     /\ UNCHANGED <<plan, cas, sent>>

-----------------------------------------------------------------------------
(* Messages. *)

\* prepare_message_attachments and associate_attachments, in the transaction
\* that accepts the message.
Send(m, S) ==
  /\ sent[m] = {}
  /\ S # {}
  /\ Cardinality(S) <= AttachmentsPerMessage
  /\ \A a, b \in S : Viewer[a] = Viewer[b]
  /\ \A a \in S : ShowsReady(a)
  /\ Total(S) <= MessageLimit
  /\ row' = [a \in Ids |-> IF a \in S /\ ~row[a].pinned
                           THEN [row[a] EXCEPT !.pinned = TRUE, !.aged = FALSE, !.rev = @ + 1]
                           ELSE row[a]]
  /\ sent' = [sent EXCEPT ![m] = S]
  /\ UNCHANGED <<chunks, plan, result, call, cas>>

Next ==
  \/ \E a \in Ids, v \in BOOLEAN : Reserve(a, v)
  \/ \E a \in Ids : Age(a) \/ LeaseExpires(a) \/ Expire(a)
  \/ \E c \in Calls, r \in Uploads : PlanUpload(c, r)
  \/ \E c \in Calls, d \in Data : Append(c, d)
  \/ \E c \in Calls, r \in Finals : PeekFinal(c, r)
  \/ \E c \in Calls : \/ Complete(c) \/ PlanFinal(c) \/ CheckReady(c) \/ ReadUpload(c)
                      \/ Put(c) \/ Finish(c) \/ RejectContent(c) \/ Drop(c)
  \/ \E m \in Messages, S \in SUBSET Ids : Send(m, S)

Spec == Init /\ [][Next]_vars

-----------------------------------------------------------------------------
States == {"none", "reserved", "uploaded", "ready", "rejected", "expired"}

Row == [state : States, rev : Nat, gen : Nat, lease : {"none", "live", "expired"}, got : Nat,
        valid : BOOLEAN, artifact : BOOLEAN, pinned : BOOLEAN, aged : BOOLEAN]

Chunk == [gen : Nat, off : Nat, data : Data, rev : Nat]

Receipt == [out : {"none", "uploaded", "rejected", "ready"}, rev : Nat]

Frame == [pc : {"idle", "upload", "peeked", "check", "read", "put", "finish", "reject", "reconcile"},
          req : Requests \cup {Nobody}, off : Nat, ok : BOOLEAN, rev : Nat]

TypeOK ==
  /\ row \in [Ids -> Row]
  /\ \A a \in Ids : row[a].got <= Size[a]
  /\ chunks \in [Ids -> SUBSET Chunk]
  /\ plan \in [Requests -> [kind : {"none", "lease", "ready"}, gen : Nat, rev : Nat]]
  /\ result \in [Requests -> Receipt]
  /\ call \in [Calls -> Frame]
  /\ \A c \in Calls : call[c].pc # "idle" => call[c].req \in Requests
  /\ cas \subseteq Ids
  /\ sent \in [Messages -> SUBSET Ids]

\* Whatever uploads, finalizers and expiry do to each other, the storage is
\* always one that verify_attachment_storage accepts when the service starts:
\* the chunks are those of the current generation, in order, and add up to
\* what the row says, completed uploads have the declared digest, and no
\* receipt is ahead of its row.
StagingFrontier ==
  \A a \in Ids :
    /\ Staged(a) => /\ {k.off : k \in chunks[a]} = 0..(row[a].got - 1)
                    /\ \A k \in chunks[a] : k.gen = row[a].gen /\ k.rev <= row[a].rev
    /\ ~Staged(a) => chunks[a] = {}
    /\ row[a].state = "uploaded" => Intact(a)
    /\ row[a].state \in {"uploaded", "ready"} => row[a].got = Size[a]
    /\ row[a].state = "ready" => row[a].artifact
    /\ row[a].artifact => row[a].state \in {"ready", "expired"}
    /\ row[a].pinned => row[a].state = "ready"
    /\ row[a].lease # "none" => row[a].gen > 0
    /\ \A r \in Requests : Of[r] = a => plan[r].rev <= row[a].rev /\ result[r].rev <= row[a].rev

\* An accepted message keeps what it was sent with: its attachments stay
\* ready and their content is in the store, although publication and
\* acceptance are different transactions and expiry runs beside them.
MessageKeepsContent ==
  \A m \in Messages : \A a \in sent[m] :
    row[a].pinned /\ row[a].state = "ready" /\ row[a].artifact /\ a \in cas

\* Two requests are never told that the same attachment is ready and that it
\* was rejected, in whatever order uploads, finalizers and retries run.
OneVerdict ==
  \A r, q \in Requests :
    Of[r] = Of[q] => ~(result[r].out = "ready" /\ result[q].out = "rejected")

\* The unassociated content of the project and of each viewer stays within
\* the budgets.
QuotaHeld ==
  /\ Total(Held) <= ProjectQuota
  /\ \A a \in Ids : Total({b \in Held : Viewer[b] = Viewer[a]}) <= ViewerQuota

\* The plan of a request is no longer, or never was, that of the attachment as
\* it stands.  A finalize plan may pair an old revision with a new lease.
Overtaken(r) ==
  /\ plan[r].kind = "lease"
  /\ \/ plan[r].gen # row[Of[r]].gen
     \/ r \in Finals /\ plan[r].rev # row[Of[r]].rev

\* An execution whose upload was restarted by another request, and a finalizer
\* whose plan mixes two uploads, change neither the row nor the chunks: appends,
\* completion and publication are fenced by the lease, and a publication and a
\* rejection, which carries no lease, by the revision.
OvertakenIsSilent ==
  [][\A c \in Calls :
       /\ call[c].pc \notin {"idle", "peeked"}
       /\ Overtaken(call[c].req)
       /\ call'[c] # call[c]
       => row' = row /\ chunks' = chunks]_vars

=============================================================================
