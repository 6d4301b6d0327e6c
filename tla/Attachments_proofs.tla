------------------------ MODULE Attachments_proofs ------------------------
(* Proofs about Attachments for any number of attachments, requests, calls   *)
(* and messages.  RowOK is what a row, its chunks and the content store say  *)
(* of each other, ReceiptOK what a stored receipt says of its row, CallOK    *)
(* what a call remembers of it.  The three hold together because revisions   *)
(* and generations move forward only (Forward): a receipt or a call that is  *)
(* still at the revision of the row is also at its generation.               *)
EXTENDS Attachments, FiniteSetTheorems, TLAPS

RowOK(a) ==
  /\ Staged(a) => /\ {k.off : k \in chunks[a]} = 0..(row[a].got - 1)
                  /\ \A k \in chunks[a] : k.gen = row[a].gen /\ k.rev <= row[a].rev
  /\ ~Staged(a) => chunks[a] = {}
  /\ row[a].state = "none" => row[a].rev = 0 /\ row[a].got = 0
  /\ row[a].state = "uploaded" => Intact(a)
  /\ row[a].state \in {"uploaded", "ready"} => row[a].got = Size[a]
  /\ row[a].state = "ready" => row[a].artifact
  /\ row[a].artifact => row[a].state \in {"ready", "expired"} /\ a \in cas
  /\ row[a].pinned => row[a].state = "ready"
  /\ row[a].lease # "none" => row[a].gen > 0

Plan == [kind : {"none", "lease", "ready"}, gen : Nat, rev : Nat]

(* At the revision of the row, or before it; at the revision, also of its    *)
(* generation.                                                               *)
AtMost(a, rev, gen) == rev <= row[a].rev /\ (rev = row[a].rev => gen = row[a].gen)

ReceiptOK(r) ==
  LET a == Of[r]
  IN /\ plan[r].rev <= row[a].rev /\ result[r].rev <= row[a].rev
     /\ plan[r].kind = "lease" => AtMost(a, plan[r].rev, plan[r].gen)
     /\ r \in Uploads => plan[r] = NoPlan \/ plan[r].kind = "lease"
     /\ result[r].out = "ready" => row[a].artifact
     /\ result[r].out = "rejected" => row[a].state \in {"rejected", "expired"} /\ ~row[a].artifact

CallOK(c) ==
  LET r == call[c].req
      a == Of[r]
  IN /\ call[c].pc = "upload" => /\ r \in Uploads /\ plan[r].kind = "lease"
                                 /\ AtMost(a, call[c].rev, plan[r].gen)
     /\ call[c].pc \notin {"idle", "upload"} => r \in Finals
     /\ call[c].pc = "peeked" => call[c].rev <= row[a].rev
     /\ call[c].pc = "finish" => a \in cas

AttachmentsInv ==
  /\ TypeOK
  /\ \A a \in Ids : RowOK(a)
  /\ \A r \in Requests : ReceiptOK(r)
  /\ \A c \in Calls : CallOK(c)
  /\ \A m \in Messages : \A a \in sent[m] : row[a].pinned

(* What a step may do to a row.                                              *)
Forward ==
  \A a \in Ids :
    /\ row'[a].rev >= row[a].rev /\ (row'[a].rev = row[a].rev => row'[a].gen = row[a].gen)
    /\ row[a].artifact => row'[a].artifact
    /\ row[a].state \in {"rejected", "expired"} =>
         row'[a].state \in {"rejected", "expired"} /\ (row'[a].artifact => row[a].artifact)
    /\ row[a].pinned => row'[a].pinned

-----------------------------------------------------------------------------
LEMMA OfTypes ==
  ASSUME NEW r \in Requests
  PROVE  Of[r] \in Ids /\ Size[Of[r]] \in Nat /\ Size[Of[r]] > 0 /\ r # Nobody
BY AttachmentsAssumption

LEMMA InitInv == Init => AttachmentsInv
<1> SUFFICES ASSUME Init PROVE AttachmentsInv
    OBVIOUS
<1> USE AttachmentsAssumption DEF Init
<1>1. TypeOK
  <2>1. NoRow \in Row /\ NoResult \in Receipt /\ Idle \in Frame
      BY DEF NoRow, Row, States, NoResult, Receipt, Idle, Frame
  <2>2. NoPlan \in Plan
      BY DEF NoPlan, Plan
  <2>3. \A a \in Ids : row[a].got <= Size[a]
      BY DEF NoRow
  <2>4. \A c \in Calls : call[c].pc = "idle"
      BY DEF Idle
  <2> QED  BY <2>1, <2>2, <2>3, <2>4 DEF TypeOK, Plan
<1>2. \A a \in Ids : RowOK(a)
    BY DEF RowOK, NoRow, Staged
<1>3. \A r \in Requests : ReceiptOK(r)
    BY DEF ReceiptOK, NoRow, NoPlan, NoResult
<1>4. \A c \in Calls : CallOK(c)
    BY DEF CallOK, Idle
<1> QED  BY <1>1, <1>2, <1>3, <1>4 DEF AttachmentsInv

(* Receipts and calls that a step leaves alone.                              *)
LEMMA ReceiptKept ==
  ASSUME TypeOK, Forward, row' \in [Ids -> Row], NEW r \in Requests, ReceiptOK(r),
         plan'[r] = plan[r], result'[r] = result[r]
  PROVE  ReceiptOK(r)'
<1>1. Of[r] \in Ids /\ row[Of[r]] \in Row /\ row'[Of[r]] \in Row
    BY OfTypes DEF TypeOK
<1>2. row[Of[r]].rev \in Nat /\ row'[Of[r]].rev \in Nat /\ plan[r].rev \in Nat /\ result[r].rev \in Nat
    BY <1>1 DEF TypeOK, Row, Receipt
<1>3. /\ plan[r].rev <= row'[Of[r]].rev /\ result[r].rev <= row'[Of[r]].rev
      /\ plan[r].kind = "lease" /\ plan[r].rev = row'[Of[r]].rev => plan[r].gen = row'[Of[r]].gen
    BY <1>1, <1>2 DEF ReceiptOK, Forward, AtMost
<1>4. /\ result[r].out = "ready" => row'[Of[r]].artifact
      /\ result[r].out = "rejected" => row'[Of[r]].state \in {"rejected", "expired"} /\ ~row'[Of[r]].artifact
    BY <1>1 DEF ReceiptOK, Forward
<1> QED  BY <1>3, <1>4 DEF ReceiptOK, AtMost

LEMMA CallKept ==
  ASSUME TypeOK, Forward, row' \in [Ids -> Row], cas \subseteq cas', NEW c \in Calls, CallOK(c),
         call'[c] = call[c],
         \A r \in Uploads : plan[r].kind = "lease" => plan'[r] = plan[r]
  PROVE  CallOK(c)'
<1>1. CASE call[c].pc = "idle"
    BY <1>1 DEF CallOK
<1>2. CASE call[c].pc # "idle"
  <2>1. PICK r \in Requests : r = call[c].req
      BY <1>2 DEF TypeOK
  <2>2. Of[r] \in Ids /\ row[Of[r]] \in Row /\ row'[Of[r]] \in Row /\ call[c] \in Frame
      BY OfTypes DEF TypeOK
  <2> QED  BY <2>1, <2>2 DEF CallOK, Forward, AtMost, Row, Frame
<1> QED  BY <1>1, <1>2

(* A row that a step leaves alone.                                           *)
LEMMA RowKept ==
  ASSUME NEW a \in Ids, RowOK(a), row'[a] = row[a], chunks'[a] = chunks[a], cas \subseteq cas'
  PROVE  RowOK(a)'
BY DEF RowOK, Staged, Intact

(* Rows move forward and stay consistent, and nothing is unpinned.           *)
RowsStep ==
  /\ row' \in [Ids -> Row] /\ (\A a \in Ids : row'[a].got <= Size[a])
  /\ chunks' \in [Ids -> SUBSET Chunk] /\ cas \subseteq cas' /\ cas' \subseteq Ids
  /\ Forward /\ \A a \in Ids : RowOK(a)'

(* One row moves.                                                            *)
LEMMA OneRow ==
  ASSUME AttachmentsInv, NEW a \in Ids, row' \in [Ids -> Row], chunks' \in [Ids -> SUBSET Chunk],
         \A b \in Ids \ {a} : row'[b] = row[b] /\ chunks'[b] = chunks[b],
         UNCHANGED cas, row'[a].got <= Size[a], RowOK(a)',
         row'[a].rev >= row[a].rev, row'[a].rev = row[a].rev => row'[a].gen = row[a].gen,
         row[a].artifact => row'[a].artifact,
         row[a].state \in {"rejected", "expired"} =>
           row'[a].state \in {"rejected", "expired"} /\ (row'[a].artifact => row[a].artifact),
         row[a].pinned => row'[a].pinned
  PROVE  RowsStep
<1>1. \A b \in Ids : RowOK(b)'
  <2>1. ASSUME NEW b \in Ids, b # a PROVE RowOK(b)'
      BY <2>1, RowKept DEF AttachmentsInv
  <2> QED  BY <2>1
<1>2. \A b \in Ids : row'[b].got <= Size[b]
    BY DEF AttachmentsInv, TypeOK
<1>3. Forward
  <2>1. \A b \in Ids : row[b].rev \in Nat
      BY DEF AttachmentsInv, TypeOK, Row
  <2> QED  BY <2>1 DEF Forward
<1> QED  BY <1>1, <1>2, <1>3 DEF RowsStep, AttachmentsInv, TypeOK

LEMMA NoRowMoves ==
  ASSUME AttachmentsInv, UNCHANGED <<row, chunks>>, cas \subseteq cas', cas' \subseteq Ids
  PROVE  RowsStep
<1>1. \A b \in Ids : RowOK(b)'
    BY RowKept DEF AttachmentsInv
<1>2. Forward
  <2>1. \A b \in Ids : row[b].rev \in Nat
      BY DEF AttachmentsInv, TypeOK, Row
  <2> QED  BY <2>1 DEF Forward
<1> QED  BY <1>1, <1>2 DEF RowsStep, AttachmentsInv, TypeOK

(* The clock, expiry and reservations: rows move, nothing else does.         *)
LEMMA OutsideStep ==
  ASSUME AttachmentsInv, RowsStep, UNCHANGED <<plan, result, call, cas, sent>>
  PROVE  AttachmentsInv'
<1> USE DEF AttachmentsInv, RowsStep
<1>1. TypeOK'
    BY DEF TypeOK
<1>2. \A r \in Requests : ReceiptOK(r)'
    BY ReceiptKept
<1>3. \A c \in Calls : CallOK(c)'
    BY CallKept
<1>4. \A m \in Messages : \A a \in sent[m] : row'[a].pinned
    BY DEF TypeOK, Forward
<1> QED  BY <1>1, <1>2, <1>3, <1>4

(* A call steps: it changes its own frame, and one request at most.          *)
LEMMA CallStep ==
  ASSUME AttachmentsInv, RowsStep, UNCHANGED sent,
         NEW c \in Calls, NEW f \in Frame, call' = [call EXCEPT ![c] = f],
         f.pc # "idle" => f.req \in Requests, CallOK(c)',
         plan' \in [Requests -> Plan], result' \in [Requests -> Receipt],
         NEW r \in Requests, \A q \in Requests \ {r} : plan'[q] = plan[q] /\ result'[q] = result[q],
         r \in Uploads /\ plan[r].kind = "lease" => plan'[r] = plan[r],
         ReceiptOK(r)'
  PROVE  AttachmentsInv'
<1> USE DEF AttachmentsInv, RowsStep
<1>1. call' \in [Calls -> Frame] /\ call'[c] = f /\ \A d \in Calls \ {c} : call'[d] = call[d]
    BY DEF TypeOK
<1>2. \A d \in Calls : call'[d].pc # "idle" => call'[d].req \in Requests
    BY <1>1 DEF TypeOK
<1>3. TypeOK'
    BY <1>1, <1>2 DEF TypeOK, Plan
<1>4. \A q \in Requests : ReceiptOK(q)'
  <2>1. ASSUME NEW q \in Requests, q # r PROVE ReceiptOK(q)'
      BY <2>1, ReceiptKept
  <2> QED  BY <2>1
<1>5. \A q \in Uploads : plan[q].kind = "lease" => plan'[q] = plan[q]
    BY DEF Requests
<1>6. \A d \in Calls : CallOK(d)'
  <2>1. ASSUME NEW d \in Calls, d # c PROVE CallOK(d)'
      BY <1>1, <1>5, <2>1, CallKept
  <2> QED  BY <2>1
<1>7. \A m \in Messages : \A a \in sent[m] : row'[a].pinned
    BY DEF TypeOK, Forward
<1> QED  BY <1>3, <1>4, <1>6, <1>7

-----------------------------------------------------------------------------
(* Reservations and their expiry                                             *)

LEMMA ReserveInv ==
  ASSUME AttachmentsInv, NEW a \in Ids, NEW v \in BOOLEAN, Reserve(a, v)
  PROVE  AttachmentsInv'
<1> USE DEF AttachmentsInv
<1>1. /\ row[a].state = "none" /\ row' = [row EXCEPT ![a].state = "reserved", ![a].rev = 1, ![a].valid = v]
      /\ UNCHANGED <<chunks, plan, result, call, cas, sent>>
    BY DEF Reserve
<1>2. row \in [Ids -> Row] /\ row[a] \in Row
    BY DEF TypeOK
<1>3. row' \in [Ids -> Row] /\ \A b \in Ids \ {a} : row'[b] = row[b]
  <2>1. row'[a] \in Row
      BY <1>1, <1>2 DEF Row, States
  <2> QED  BY <1>1, <1>2, <2>1
<1>4. /\ row'[a].state = "reserved" /\ row'[a].rev = 1 /\ row'[a].gen = row[a].gen
      /\ row'[a].lease = row[a].lease /\ row'[a].got = row[a].got /\ (row'[a].artifact <=> row[a].artifact)
      /\ (row'[a].pinned <=> row[a].pinned)
    BY <1>1, <1>2 DEF Row
<1>5. row[a].rev = 0 /\ row[a].got = 0 /\ chunks[a] = {} /\ ~row[a].artifact /\ ~row[a].pinned
    BY <1>1 DEF RowOK, Staged
<1>6. RowOK(a)'
    BY <1>1, <1>4, <1>5 DEF RowOK, Staged
<1>7. RowsStep
    BY <1>1, <1>3, <1>4, <1>5, <1>6, OneRow DEF TypeOK
<1> QED  BY <1>1, <1>7, OutsideStep

(* Only the lease and the age of a row change.                               *)
LEMMA ClockStep ==
  ASSUME AttachmentsInv, NEW a \in Ids, row' \in [Ids -> Row], \A b \in Ids \ {a} : row'[b] = row[b],
         row'[a].state = row[a].state, row'[a].rev = row[a].rev, row'[a].gen = row[a].gen,
         row'[a].got = row[a].got, row'[a].artifact <=> row[a].artifact, row'[a].pinned <=> row[a].pinned,
         row'[a].lease # "none" => row[a].lease # "none",
         UNCHANGED <<chunks, plan, result, call, cas, sent>>
  PROVE  AttachmentsInv'
<1> USE DEF AttachmentsInv
<1>1. Staged(a)' <=> Staged(a)
    BY DEF Staged
<1>2. Intact(a)' <=> Intact(a)
    BY DEF Intact
<1>3. RowOK(a)'
    BY <1>1, <1>2 DEF RowOK
<1>4. row[a].rev \in Nat /\ row'[a].got <= Size[a] /\ chunks' \in [Ids -> SUBSET Chunk]
    BY DEF TypeOK, Row
<1>5. RowsStep
    BY <1>3, <1>4, OneRow
<1> QED  BY <1>5, OutsideStep

LEMMA AgeInv ==
  ASSUME AttachmentsInv, NEW a \in Ids, Age(a)
  PROVE  AttachmentsInv'
<1>1. /\ row' = [row EXCEPT ![a].aged = TRUE, ![a].lease = IF @ = "live" THEN "expired" ELSE @]
      /\ UNCHANGED <<chunks, plan, result, call, cas, sent>>
    BY DEF Age
<1>2. row \in [Ids -> Row] /\ row[a] \in Row
    BY DEF AttachmentsInv, TypeOK
<1>3. row' \in [Ids -> Row] /\ \A b \in Ids \ {a} : row'[b] = row[b]
  <2>1. row'[a] \in Row
      BY <1>1, <1>2 DEF Row
  <2> QED  BY <1>1, <1>2, <2>1
<1>4. /\ row'[a].state = row[a].state /\ row'[a].rev = row[a].rev /\ row'[a].gen = row[a].gen
      /\ row'[a].got = row[a].got /\ (row'[a].artifact <=> row[a].artifact)
      /\ (row'[a].pinned <=> row[a].pinned) /\ (row'[a].lease # "none" => row[a].lease # "none")
    BY <1>1, <1>2 DEF Row
<1> QED  BY <1>1, <1>3, <1>4, ClockStep

LEMMA LeaseExpiresInv ==
  ASSUME AttachmentsInv, NEW a \in Ids, LeaseExpires(a)
  PROVE  AttachmentsInv'
<1>1. /\ row[a].lease = "live" /\ row' = [row EXCEPT ![a].lease = "expired"]
      /\ UNCHANGED <<chunks, plan, result, call, cas, sent>>
    BY DEF LeaseExpires
<1>2. row \in [Ids -> Row] /\ row[a] \in Row
    BY DEF AttachmentsInv, TypeOK
<1>3. row' \in [Ids -> Row] /\ \A b \in Ids \ {a} : row'[b] = row[b]
  <2>1. row'[a] \in Row
      BY <1>1, <1>2 DEF Row
  <2> QED  BY <1>1, <1>2, <2>1
<1>4. /\ row'[a].state = row[a].state /\ row'[a].rev = row[a].rev /\ row'[a].gen = row[a].gen
      /\ row'[a].got = row[a].got /\ (row'[a].artifact <=> row[a].artifact)
      /\ (row'[a].pinned <=> row[a].pinned) /\ (row'[a].lease # "none" => row[a].lease # "none")
    BY <1>1, <1>2 DEF Row
<1> QED  BY <1>1, <1>3, <1>4, ClockStep

LEMMA ExpireInv ==
  ASSUME AttachmentsInv, NEW a \in Ids, Expire(a)
  PROVE  AttachmentsInv'
<1> USE DEF AttachmentsInv
<1>1. /\ ~row[a].pinned /\ row[a].state \notin {"none", "expired"}
      /\ row' = [row EXCEPT ![a].state = "expired", ![a].rev = @ + 1, ![a].lease = "none"]
      /\ chunks' = [chunks EXCEPT ![a] = {}] /\ UNCHANGED <<plan, result, call, cas, sent>>
    BY DEF Expire
<1>2. row \in [Ids -> Row] /\ row[a] \in Row /\ row[a].rev \in Nat /\ chunks \in [Ids -> SUBSET Chunk]
    BY DEF TypeOK, Row
<1>3. row' \in [Ids -> Row] /\ \A b \in Ids \ {a} : row'[b] = row[b]
  <2>1. row'[a] \in Row
      BY <1>1, <1>2 DEF Row, States
  <2> QED  BY <1>1, <1>2, <2>1
<1>4. /\ row'[a].state = "expired" /\ row'[a].rev = row[a].rev + 1 /\ row'[a].gen = row[a].gen
      /\ row'[a].lease = "none" /\ row'[a].got = row[a].got /\ (row'[a].artifact <=> row[a].artifact)
      /\ (row'[a].pinned <=> row[a].pinned)
    BY <1>1, <1>2 DEF Row
<1>5. /\ chunks' \in [Ids -> SUBSET Chunk] /\ chunks'[a] = {}
      /\ \A b \in Ids \ {a} : chunks'[b] = chunks[b]
    BY <1>1, <1>2
<1>6. RowOK(a)'
    BY <1>1, <1>4, <1>5 DEF RowOK, Staged
<1>7. row'[a].rev >= row[a].rev /\ row'[a].rev # row[a].rev /\ row'[a].got <= Size[a]
    BY <1>2, <1>4 DEF TypeOK
<1>8. RowsStep
    BY <1>1, <1>3, <1>4, <1>5, <1>6, <1>7, OneRow
<1> QED  BY <1>1, <1>8, OutsideStep

-----------------------------------------------------------------------------
(* PUT content                                                               *)

LEMMA IdleFrame == Idle \in Frame /\ Idle.pc = "idle"
BY DEF Idle, Frame

LEMMA PlanUploadInv ==
  ASSUME AttachmentsInv, NEW c \in Calls, NEW r \in Uploads, PlanUpload(c, r)
  PROVE  AttachmentsInv'
<1> USE DEF AttachmentsInv
<1>0. r \in Requests /\ r # Nobody /\ r \notin Finals
    BY AttachmentsAssumption DEF Requests
<1>1. PICK a \in Ids : a = Of[r]
    BY <1>0, OfTypes
<1> DEFINE f == [Idle EXCEPT !.pc = "upload", !.req = r, !.rev = plan'[r].rev]
<1>2. call' = [call EXCEPT ![c] = f] /\ UNCHANGED <<result, cas, sent>> /\ result[r] = NoResult
    BY DEF PlanUpload
<1>3. plan \in [Requests -> Plan] /\ result' \in [Requests -> Receipt]
    BY <1>2 DEF TypeOK, Plan
<1>4. CASE plan[r] = NoPlan /\ BeginUpload(a)
           /\ plan' = [plan EXCEPT ![r] = [kind |-> "lease", gen |-> row[a].gen + 1, rev |-> row[a].rev + 1]]
  <2>1. /\ Staged(a) /\ row' = [row EXCEPT ![a].state = "reserved", ![a].rev = @ + 1, ![a].gen = @ + 1,
                                           ![a].got = 0, ![a].lease = "live"]
        /\ chunks' = [chunks EXCEPT ![a] = {}]
      BY <1>4 DEF BeginUpload
  <2>2. /\ row \in [Ids -> Row] /\ row[a] \in Row /\ row[a].rev \in Nat /\ row[a].gen \in Nat
        /\ chunks \in [Ids -> SUBSET Chunk]
      BY DEF TypeOK, Row
  <2>3. row' \in [Ids -> Row] /\ \A b \in Ids \ {a} : row'[b] = row[b]
    <3>1. row'[a] \in Row
        BY <2>1, <2>2 DEF Row, States
    <3> QED  BY <2>1, <2>2, <3>1
  <2>4. /\ row'[a].state = "reserved" /\ row'[a].rev = row[a].rev + 1 /\ row'[a].gen = row[a].gen + 1
        /\ row'[a].lease = "live" /\ row'[a].got = 0 /\ (row'[a].artifact <=> row[a].artifact)
        /\ (row'[a].pinned <=> row[a].pinned)
      BY <2>1, <2>2 DEF Row
  <2>5. /\ chunks' \in [Ids -> SUBSET Chunk] /\ chunks'[a] = {}
        /\ \A b \in Ids \ {a} : chunks'[b] = chunks[b]
      BY <2>1, <2>2
  <2>6. ~row[a].artifact /\ ~row[a].pinned /\ row[a].state \notin {"rejected", "expired"}
      BY <2>1 DEF RowOK, Staged
  <2>7. RowOK(a)'
      BY <2>2, <2>4, <2>5, <2>6 DEF RowOK, Staged
  <2>8. row'[a].rev >= row[a].rev /\ row'[a].rev # row[a].rev /\ row'[a].got <= Size[a]
      BY <1>0, <1>1, <2>2, <2>4, OfTypes
  <2>9. RowsStep
      BY <1>2, <2>3, <2>4, <2>5, <2>6, <2>7, <2>8, OneRow
  <2>10. /\ plan' \in [Requests -> Plan] /\ \A q \in Requests \ {r} : plan'[q] = plan[q]
         /\ plan'[r] = [kind |-> "lease", gen |-> row'[a].gen, rev |-> row'[a].rev]
    <3>1. [kind |-> "lease", gen |-> row[a].gen + 1, rev |-> row[a].rev + 1] \in Plan
        BY <2>2 DEF Plan
    <3> QED  BY <1>0, <1>3, <1>4, <2>4, <3>1
  <2>11. row'[a].rev \in Nat /\ row'[a].gen \in Nat
      BY <2>2, <2>4
  <2>12. ReceiptOK(r)'
    <3>1. result'[r].out = "none" /\ result'[r].rev = 0
        BY <1>2 DEF NoResult
    <3> QED  BY <1>1, <2>10, <2>11, <3>1 DEF ReceiptOK, AtMost
  <2>13. f \in Frame /\ f.pc = "upload" /\ f.req = r /\ f.rev = row'[a].rev
    <3>1. plan'[r].rev = row'[a].rev /\ plan'[r].rev \in Nat
        BY <2>10, <2>11
    <3> QED  BY <1>0, <3>1, IdleFrame DEF Frame
  <2> HIDE DEF f
  <2>14. CallOK(c)'
    <3>1. call'[c] = f
        BY <1>2 DEF TypeOK
    <3> QED  BY <1>1, <2>10, <2>11, <2>13, <3>1 DEF CallOK, AtMost
  <2>15. plan[r].kind # "lease"
      BY <1>4 DEF NoPlan
  <2> QED  BY <1>0, <1>2, <1>3, <2>9, <2>10, <2>12, <2>13, <2>14, <2>15, CallStep
<1>5. CASE plan[r] # NoPlan /\ UNCHANGED <<row, chunks, plan>>
  <2>1. RowsStep
      BY <1>2, <1>5, NoRowMoves DEF TypeOK
  <2>2. plan[r] \in Plan /\ plan[r].rev \in Nat /\ plan[r].kind = "lease" /\ AtMost(a, plan[r].rev, plan[r].gen)
      BY <1>0, <1>1, <1>3, <1>5 DEF Plan, ReceiptOK
  <2>3. f \in Frame /\ f.pc = "upload" /\ f.req = r /\ f.rev = plan[r].rev
    <3>1. plan'[r].rev = plan[r].rev /\ plan'[r].rev \in Nat
        BY <1>5, <2>2
    <3> QED  BY <1>0, <3>1, IdleFrame DEF Frame
  <2> HIDE DEF f
  <2>4. CallOK(c)'
    <3>1. call'[c] = f
        BY <1>2 DEF TypeOK
    <3> QED  BY <1>1, <1>5, <2>2, <2>3, <3>1 DEF CallOK, AtMost
  <2>5. ReceiptOK(r)'
      BY <1>0, <1>2, <1>5 DEF ReceiptOK, AtMost
  <2> QED  BY <1>0, <1>2, <1>3, <1>5, <2>1, <2>3, <2>4, <2>5, CallStep
<1> QED  BY <1>1, <1>4, <1>5 DEF PlanUpload

(* What a call at work knows of its request.                                 *)
LEMMA AtWork ==
  ASSUME AttachmentsInv, NEW c \in Calls, call[c].pc # "idle"
  PROVE  /\ call[c] \in Frame /\ call[c].req \in Requests /\ Of[call[c].req] \in Ids
         /\ row[Of[call[c].req]] \in Row /\ row[Of[call[c].req]].rev \in Nat /\ row[Of[call[c].req]].gen \in Nat
         /\ row[Of[call[c].req]].got \in Nat
         /\ plan[call[c].req] \in Plan /\ result[call[c].req] \in Receipt
         /\ CallOK(c) /\ ReceiptOK(call[c].req) /\ RowOK(Of[call[c].req])
<1> USE DEF AttachmentsInv
<1>1. call[c] \in Frame /\ call[c].req \in Requests /\ Of[call[c].req] \in Ids
    BY OfTypes DEF TypeOK
<1>2. row[Of[call[c].req]] \in Row /\ plan[call[c].req] \in Plan /\ result[call[c].req] \in Receipt
    BY <1>1 DEF TypeOK, Plan
<1>3. /\ row[Of[call[c].req]].rev \in Nat /\ row[Of[call[c].req]].gen \in Nat
      /\ row[Of[call[c].req]].got \in Nat
    BY <1>2 DEF Row
<1> QED  BY <1>1, <1>2, <1>3

(* A call goes on without looking at the row again.                          *)
LEMMA GotoFrame ==
  ASSUME AttachmentsInv, NEW c \in Calls, call[c].pc # "idle",
         NEW pc \in {"check", "read", "put", "finish", "reject", "reconcile"}, Goto(c, pc)
  PROVE  \E f \in Frame : call' = [call EXCEPT ![c] = f] /\ f.pc = pc /\ f.req = call[c].req
<1>1. call[c] \in Frame /\ call \in [Calls -> Frame]
    BY DEF AttachmentsInv, TypeOK
<1>2. [call[c] EXCEPT !.pc = pc] \in Frame /\ [call[c] EXCEPT !.pc = pc].pc = pc
      /\ [call[c] EXCEPT !.pc = pc].req = call[c].req
    BY <1>1 DEF Frame
<1>3. call' = [call EXCEPT ![c] = [call[c] EXCEPT !.pc = pc]]
    BY <1>1 DEF Goto
<1> QED  BY <1>2, <1>3

(* A call that leaves rows and receipts alone.                               *)
LEMMA QuietCall ==
  ASSUME AttachmentsInv, NEW c \in Calls, call[c].pc # "idle", UNCHANGED <<plan, result, sent>>, RowsStep,
         NEW f \in Frame, call' = [call EXCEPT ![c] = f], f.pc # "idle" => f.req \in Requests, CallOK(c)'
  PROVE  AttachmentsInv'
<1>1. PICK r \in Requests : r = call[c].req
    BY AtWork
<1>2. ReceiptOK(r)'
    BY ReceiptKept DEF AttachmentsInv, RowsStep
<1>3. plan' \in [Requests -> Plan] /\ result' \in [Requests -> Receipt]
    BY DEF AttachmentsInv, TypeOK, Plan
<1> QED  BY <1>2, <1>3, CallStep

LEMMA CallEnds ==
  ASSUME AttachmentsInv, NEW c \in Calls, Ends(c)
  PROVE  Idle \in Frame /\ call' = [call EXCEPT ![c] = Idle] /\ Idle.pc = "idle" /\ CallOK(c)'
<1>1. call'[c] = Idle
    BY DEF Ends, AttachmentsInv, TypeOK
<1> QED  BY <1>1, IdleFrame DEF Ends, CallOK

LEMMA DropInv ==
  ASSUME AttachmentsInv, NEW c \in Calls, Drop(c)
  PROVE  AttachmentsInv'
<1>1. call[c].pc # "idle" /\ Ends(c) /\ UNCHANGED <<row, chunks, plan, result, cas, sent>>
    BY DEF Drop
<1>2. RowsStep
    BY <1>1, NoRowMoves DEF AttachmentsInv, TypeOK
<1> QED  BY <1>1, <1>2, CallEnds, QuietCall

(* A chunk is appended at the frontier.                                      *)
LEMMA Appended ==
  ASSUME AttachmentsInv, NEW a \in Ids, NEW d \in Data, row[a].state = "reserved",
         row[a].got < Size[a],
         row' = [row EXCEPT ![a].got = @ + 1, ![a].rev = @ + 1],
         chunks' = [chunks EXCEPT ![a] = @ \cup
                      {[gen |-> row[a].gen, off |-> row[a].got, data |-> d, rev |-> row[a].rev + 1]}],
         UNCHANGED cas
  PROVE  RowsStep /\ row'[a].rev = row[a].rev + 1 /\ row'[a].gen = row[a].gen
<1> USE DEF AttachmentsInv
<1> DEFINE n == [gen |-> row[a].gen, off |-> row[a].got, data |-> d, rev |-> row[a].rev + 1]
<1>1. /\ row \in [Ids -> Row] /\ row[a] \in Row /\ row[a].rev \in Nat /\ row[a].gen \in Nat /\ row[a].got \in Nat
      /\ chunks \in [Ids -> SUBSET Chunk] /\ Size[a] \in Nat
    BY AttachmentsAssumption DEF TypeOK, Row
<1>2. row' \in [Ids -> Row] /\ \A b \in Ids \ {a} : row'[b] = row[b]
  <2>1. row'[a] \in Row
      BY <1>1 DEF Row
  <2> QED  BY <1>1, <2>1
<1>3. /\ row'[a].state = "reserved" /\ row'[a].rev = row[a].rev + 1 /\ row'[a].gen = row[a].gen
      /\ row'[a].lease = row[a].lease /\ row'[a].got = row[a].got + 1
      /\ (row'[a].artifact <=> row[a].artifact) /\ (row'[a].pinned <=> row[a].pinned)
    BY <1>1 DEF Row
<1>4. n \in Chunk /\ n.off = row[a].got /\ n.gen = row[a].gen /\ n.rev = row[a].rev + 1
    BY <1>1 DEF Chunk
<1> HIDE DEF n
<1>5. /\ chunks' \in [Ids -> SUBSET Chunk] /\ chunks'[a] = chunks[a] \cup {n}
      /\ \A b \in Ids \ {a} : chunks'[b] = chunks[b]
    BY <1>1, <1>4 DEF n
<1>6. /\ {k.off : k \in chunks[a]} = 0..(row[a].got - 1)
      /\ \A k \in chunks[a] : k.gen = row[a].gen /\ k.rev <= row[a].rev
    BY DEF RowOK, Staged
<1>7. {k.off : k \in chunks'[a]} = 0..(row'[a].got - 1)
  <2>1. {k.off : k \in chunks'[a]} = {k.off : k \in chunks[a]} \cup {row[a].got}
      BY <1>4, <1>5
  <2>2. 0..(row[a].got - 1) \cup {row[a].got} = 0..(row[a].got + 1 - 1)
      BY <1>1
  <2> QED  BY <1>3, <1>6, <2>1, <2>2
<1>8. \A k \in chunks'[a] : k.gen = row'[a].gen /\ k.rev <= row'[a].rev
  <2>1. \A k \in chunks[a] : k.rev \in Nat
      BY <1>1 DEF Chunk
  <2> QED  BY <1>1, <1>3, <1>4, <1>5, <1>6, <2>1
<1>9. ~row[a].artifact /\ ~row[a].pinned
    BY DEF RowOK
<1>10. RowOK(a)'
    BY <1>3, <1>7, <1>8, <1>9 DEF RowOK, Staged
<1>11. row'[a].got <= Size[a] /\ row'[a].rev >= row[a].rev /\ row'[a].rev # row[a].rev
    BY <1>1, <1>3
<1> QED  BY <1>2, <1>3, <1>5, <1>9, <1>10, <1>11, OneRow

LEMMA AppendInv ==
  ASSUME AttachmentsInv, NEW c \in Calls, NEW d \in Data, Append(c, d)
  PROVE  AttachmentsInv'
<1> USE DEF AttachmentsInv
<1>0. call[c].pc = "upload" /\ UNCHANGED <<plan, result, cas, sent>>
    BY DEF Append
<1>1. PICK r \in Requests : r = call[c].req
    BY <1>0, AtWork
<1>2. PICK a \in Ids : a = Of[r]
    BY OfTypes
<1>3. /\ row[a] \in Row /\ row[a].rev \in Nat /\ row[a].got \in Nat
      /\ row[a].gen \in Nat /\ call[c] \in Frame /\ call[c].off \in Nat /\ RowOK(a)
    BY <1>0, <1>1, <1>2, AtWork DEF Frame
<1>4. r \in Uploads /\ plan[r].kind = "lease" /\ plan[r].gen = row[a].gen /\ Staged(a) /\ call[c].off < Size[a]
    BY <1>0, <1>1, <1>2 DEF Append, Fence, Expects, CallOK
<1> DEFINE ok == call[c].ok /\ d = "declared"
<1>b. ok \in BOOLEAN
    OBVIOUS
<1> HIDE DEF ok
<1>5. ASSUME NEW v \in Nat, call' = [call EXCEPT ![c].off = call[c].off + 1, ![c].ok = ok, ![c].rev = v],
             RowsStep, v <= row'[a].rev, row'[a].gen = row[a].gen
      PROVE  AttachmentsInv'
  <2>1. call'[c] \in Frame /\ call'[c].pc = "upload" /\ call'[c].req = r /\ call'[c].rev = v
    <3>1. call \in [Calls -> Frame]
        BY DEF TypeOK
    <3> HIDE DEF AttachmentsInv
    <3>2. call'[c] = [call[c] EXCEPT !.off = call[c].off + 1, !.ok = ok, !.rev = v]
        BY <1>5, <3>1
    <3>3. call[c].off + 1 \in Nat
        BY <1>3
    <3>4. call'[c] \in Frame
        BY <1>b, <1>3, <3>2, <3>3 DEF Frame
    <3>5. call'[c].pc = "upload" /\ call'[c].req = r /\ call'[c].rev = v
        BY <1>0, <1>1, <1>3, <3>2 DEF Frame
    <3> QED  BY <3>4, <3>5
  <2>2. call' = [call EXCEPT ![c] = call'[c]]
      BY <1>5 DEF TypeOK
  <2>3. CallOK(c)'
      BY <1>0, <1>2, <1>4, <1>5, <2>1 DEF CallOK, AtMost
  <2> QED  BY <1>0, <1>5, <2>1, <2>2, <2>3, QuietCall
<1>6. CASE /\ \E k \in chunks[a] :
                /\ k.gen = plan[r].gen /\ k.off = call[c].off /\ k.data = d
                /\ call' = [call EXCEPT ![c].off = call[c].off + 1, ![c].ok = ok, ![c].rev = k.rev]
           /\ UNCHANGED <<row, chunks>>
  <2>1. PICK k \in chunks[a] : call' = [call EXCEPT ![c].off = call[c].off + 1, ![c].ok = ok, ![c].rev = k.rev]
      BY <1>6
  <2>2. k.rev \in Nat /\ k.rev <= row[a].rev
      BY <1>3, <1>4 DEF TypeOK, Chunk, RowOK
  <2>3. RowsStep
      BY <1>0, <1>6, NoRowMoves DEF TypeOK
  <2> QED  BY <1>5, <1>6, <2>1, <2>2, <2>3
<1>7. CASE /\ call[c].off = row[a].got /\ row[a].state = "reserved"
           /\ row' = [row EXCEPT ![a].got = @ + 1, ![a].rev = @ + 1]
           /\ chunks' = [chunks EXCEPT ![a] = @ \cup
                           {[gen |-> plan[r].gen, off |-> call[c].off, data |-> d, rev |-> row[a].rev + 1]}]
           /\ call' = [call EXCEPT ![c].off = call[c].off + 1, ![c].ok = ok, ![c].rev = row[a].rev + 1]
  <2>1. chunks' = [chunks EXCEPT ![a] = @ \cup
                     {[gen |-> row[a].gen, off |-> row[a].got, data |-> d, rev |-> row[a].rev + 1]}]
      BY <1>4, <1>7
  <2>2. RowsStep /\ row'[a].rev = row[a].rev + 1 /\ row'[a].gen = row[a].gen
      BY <1>0, <1>4, <1>7, <2>1, Appended
  <2>3. row[a].rev + 1 \in Nat /\ row[a].rev + 1 <= row'[a].rev
      BY <1>3, <2>2
  <2> QED  BY <1>5, <1>7, <2>2, <2>3
<1> QED  BY <1>1, <1>2, <1>6, <1>7 DEF Append, ok

(* A call stores the result of its request and ends.                         *)
LEMMA AnsweredInv ==
  ASSUME AttachmentsInv, RowsStep, UNCHANGED <<plan, sent>>, NEW c \in Calls, Ends(c),
         NEW r \in Requests, NEW out \in {"uploaded", "rejected", "ready"}, NEW rev \in Nat,
         Answer(r, out, rev), rev <= row'[Of[r]].rev,
         out = "ready" => row'[Of[r]].artifact,
         out = "rejected" => row'[Of[r]].state \in {"rejected", "expired"} /\ ~row'[Of[r]].artifact
  PROVE  AttachmentsInv'
<1> DEFINE x == [out |-> out, rev |-> rev]
<1>1. x \in Receipt /\ x.out = out /\ x.rev = rev
    BY DEF Receipt
<1> HIDE DEF x
<1>2. result' = [result EXCEPT ![r] = x] /\ result \in [Requests -> Receipt] /\ plan \in [Requests -> Plan]
    BY DEF Answer, x, AttachmentsInv, TypeOK, Plan
<1>3. /\ result' \in [Requests -> Receipt] /\ result'[r] = x
      /\ \A q \in Requests \ {r} : result'[q] = result[q]
    BY <1>1, <1>2
<1>4. /\ Of[r] \in Ids /\ row[Of[r]].rev \in Nat /\ row'[Of[r]].rev \in Nat /\ plan[r].rev \in Nat
    BY <1>2, OfTypes DEF AttachmentsInv, RowsStep, TypeOK, Row, Plan
<1>5. /\ plan[r].rev <= row'[Of[r]].rev
      /\ plan[r].kind = "lease" /\ plan[r].rev = row'[Of[r]].rev => plan[r].gen = row'[Of[r]].gen
      /\ r \in Uploads => plan[r] = NoPlan \/ plan[r].kind = "lease"
    BY <1>4 DEF AttachmentsInv, RowsStep, ReceiptOK, Forward, AtMost
<1>6. ReceiptOK(r)'
    BY <1>1, <1>3, <1>5 DEF ReceiptOK, AtMost
<1> QED  BY <1>2, <1>3, <1>6, CallEnds, CallStep

LEMMA RejectedRow ==
  ASSUME AttachmentsInv, NEW a \in Ids, NEW rev, Reject(a, rev), UNCHANGED cas
  PROVE  /\ RowsStep /\ row[a].rev = rev /\ row'[a].rev \in Nat
         /\ row'[a].state = "rejected" /\ ~row'[a].artifact
<1> USE DEF AttachmentsInv
<1>1. /\ row[a].rev = rev /\ Staged(a) /\ chunks' = [chunks EXCEPT ![a] = {}]
      /\ row' = [row EXCEPT ![a].state = "rejected", ![a].got = 0, ![a].lease = "none", ![a].rev = @ + 1]
    BY DEF Reject
<1>2. row \in [Ids -> Row] /\ row[a] \in Row /\ row[a].rev \in Nat /\ chunks \in [Ids -> SUBSET Chunk]
    BY DEF TypeOK, Row
<1>3. row' \in [Ids -> Row] /\ \A b \in Ids \ {a} : row'[b] = row[b]
  <2>1. row'[a] \in Row
      BY <1>1, <1>2 DEF Row, States
  <2> QED  BY <1>1, <1>2, <2>1
<1>4. /\ row'[a].state = "rejected" /\ row'[a].rev = row[a].rev + 1 /\ row'[a].gen = row[a].gen
      /\ row'[a].lease = "none" /\ row'[a].got = 0 /\ (row'[a].artifact <=> row[a].artifact)
      /\ (row'[a].pinned <=> row[a].pinned)
    BY <1>1, <1>2 DEF Row
<1>5. /\ chunks' \in [Ids -> SUBSET Chunk] /\ chunks'[a] = {}
      /\ \A b \in Ids \ {a} : chunks'[b] = chunks[b]
    BY <1>1, <1>2
<1>6. ~row[a].artifact /\ ~row[a].pinned
    BY <1>1 DEF RowOK, Staged
<1>7. RowOK(a)'
    BY <1>4, <1>5, <1>6 DEF RowOK, Staged
<1>8. row'[a].rev >= row[a].rev /\ row'[a].rev # row[a].rev /\ row'[a].got <= Size[a]
    BY <1>2, <1>4, AttachmentsAssumption
<1>9. RowsStep
    BY <1>3, <1>4, <1>5, <1>6, <1>7, <1>8, OneRow
<1> QED  BY <1>1, <1>2, <1>4, <1>6, <1>9

LEMMA CompletedRow ==
  ASSUME AttachmentsInv, NEW a \in Ids, row[a].state = "reserved", Intact(a),
         row' = [row EXCEPT ![a].state = "uploaded", ![a].rev = @ + 1], UNCHANGED <<chunks, cas>>
  PROVE  RowsStep
<1> USE DEF AttachmentsInv
<1>2. row \in [Ids -> Row] /\ row[a] \in Row /\ row[a].rev \in Nat /\ row[a].got \in Nat
    BY DEF TypeOK, Row
<1>3. row' \in [Ids -> Row] /\ \A b \in Ids \ {a} : row'[b] = row[b]
  <2>1. row'[a] \in Row
      BY <1>2 DEF Row, States
  <2> QED  BY <1>2, <2>1
<1>4. /\ row'[a].state = "uploaded" /\ row'[a].rev = row[a].rev + 1 /\ row'[a].gen = row[a].gen
      /\ row'[a].lease = row[a].lease /\ row'[a].got = row[a].got /\ (row'[a].artifact <=> row[a].artifact)
      /\ (row'[a].pinned <=> row[a].pinned)
    BY <1>2 DEF Row
<1>5. Intact(a)'
    BY <1>4 DEF Intact
<1>6. ~row[a].artifact /\ ~row[a].pinned /\ row[a].got = Size[a]
    BY DEF RowOK, Intact
<1>7. \A k \in chunks[a] : k.gen = row'[a].gen /\ k.rev <= row'[a].rev
  <2>1. \A k \in chunks[a] : k.rev \in Nat /\ k.gen = row[a].gen /\ k.rev <= row[a].rev
      BY DEF TypeOK, Chunk, RowOK, Staged
  <2> QED  BY <1>2, <1>4, <2>1
<1>8. RowOK(a)'
    BY <1>4, <1>5, <1>6, <1>7 DEF RowOK, Staged
<1>9. row'[a].rev >= row[a].rev /\ row'[a].rev # row[a].rev /\ row'[a].got <= Size[a]
    BY <1>2, <1>4 DEF TypeOK
<1> QED  BY <1>3, <1>4, <1>6, <1>8, <1>9, OneRow DEF TypeOK

LEMMA CompleteInv ==
  ASSUME AttachmentsInv, NEW c \in Calls, Complete(c)
  PROVE  AttachmentsInv'
<1>0. call[c].pc = "upload" /\ Ends(c) /\ UNCHANGED <<plan, cas, sent>>
    BY DEF Complete
<1>1. PICK r \in Requests : r = call[c].req
    BY <1>0, AtWork
<1>2. PICK a \in Ids : a = Of[r]
    BY OfTypes
<1>3. CASE /\ Staged(a) /\ Intact(a) /\ UNCHANGED chunks /\ Answer(r, "uploaded", row'[a].rev)
           /\ row' = IF row[a].state = "uploaded" THEN row
                     ELSE [row EXCEPT ![a].state = "uploaded", ![a].rev = @ + 1]
  <2>1. RowsStep
    <3>1. CASE row[a].state = "uploaded"
        BY <1>0, <1>3, <3>1, NoRowMoves DEF AttachmentsInv, TypeOK
    <3>2. CASE row[a].state = "reserved"
        BY <1>0, <1>3, <3>2, CompletedRow
    <3> QED  BY <1>3, <3>1, <3>2 DEF Staged
  <2>2. row'[a].rev \in Nat
      BY <2>1 DEF RowsStep, Row
  <2>3. Answer(r, "uploaded", row'[a].rev) /\ row'[a].rev <= row'[Of[r]].rev
      BY <1>2, <1>3, <2>2
  <2> QED  BY <1>0, <2>1, <2>2, <2>3, AnsweredInv
<1>4. CASE Reject(a, call[c].rev) /\ Answer(r, "rejected", row'[a].rev)
    BY <1>0, <1>2, <1>4, RejectedRow, AnsweredInv
<1> QED  BY <1>1, <1>2, <1>3, <1>4 DEF Complete

-----------------------------------------------------------------------------
(* Finalize                                                                  *)

LEMMA PeekInv ==
  ASSUME AttachmentsInv, NEW c \in Calls, NEW r \in Finals, PeekFinal(c, r)
  PROVE  AttachmentsInv'
<1> USE DEF AttachmentsInv
<1>0. r \in Requests /\ r # Nobody /\ r \notin Uploads
    BY AttachmentsAssumption DEF Requests
<1>1. PICK a \in Ids : a = Of[r]
    BY <1>0, OfTypes
<1>2. UNCHANGED <<row, chunks, result, cas, sent>> /\ result \in [Requests -> Receipt] /\ plan \in [Requests -> Plan]
    BY DEF PeekFinal, TypeOK, Plan
<1>3. RowsStep
    BY <1>2, NoRowMoves DEF TypeOK
<1>4. row[a].rev \in Nat
    BY DEF TypeOK, Row
<1>5. \E f \in Frame : /\ call' = [call EXCEPT ![c] = f] /\ f.pc \in {"check", "peeked"} /\ f.req = r
                       /\ f.pc = "peeked" => f.rev = row[a].rev
  <2>1. CASE call' = [call EXCEPT ![c] = [Idle EXCEPT !.pc = "check", !.req = r]]
    <3> DEFINE f == [Idle EXCEPT !.pc = "check", !.req = r]
    <3>1. f \in Frame /\ f.pc = "check" /\ f.req = r
        BY <1>0, IdleFrame DEF Frame
    <3> QED  BY <2>1, <3>1
  <2>2. CASE call' = [call EXCEPT ![c] = [Idle EXCEPT !.pc = "peeked", !.req = r, !.rev = row[a].rev]]
    <3> DEFINE f == [Idle EXCEPT !.pc = "peeked", !.req = r, !.rev = row[a].rev]
    <3>1. f \in Frame /\ f.pc = "peeked" /\ f.req = r /\ f.rev = row[a].rev
        BY <1>0, <1>4, IdleFrame DEF Frame
    <3> QED  BY <2>2, <3>1
  <2> QED  BY <1>1, <2>1, <2>2 DEF PeekFinal
<1>6. PICK f \in Frame : /\ call' = [call EXCEPT ![c] = f] /\ f.pc \in {"check", "peeked"} /\ f.req = r
                         /\ f.pc = "peeked" => f.rev = row[a].rev
    BY <1>5
<1>7. call'[c] = f
    BY <1>6 DEF TypeOK
<1>8. CallOK(c)'
    BY <1>1, <1>2, <1>4, <1>6, <1>7 DEF CallOK
<1>9. /\ plan' \in [Requests -> Plan] /\ \A q \in Requests \ {r} : plan'[q] = plan[q]
      /\ plan'[r] = plan[r] \/ (plan[r] = NoPlan /\ plan'[r].rev = 0 /\ plan'[r].kind = "ready")
  <2>1. CASE UNCHANGED plan
      BY <1>2, <2>1
  <2>2. CASE plan[r] = NoPlan /\ plan' = [plan EXCEPT ![r].kind = "ready"]
    <3>1. plan'[r] \in Plan /\ plan'[r].rev = plan[r].rev /\ plan'[r].kind = "ready"
        BY <1>0, <1>2, <2>2 DEF Plan
    <3>2. plan[r].rev = 0
        BY <2>2 DEF NoPlan
    <3> QED  BY <1>0, <1>2, <2>2, <3>1, <3>2
  <2> QED  BY <2>1, <2>2 DEF PeekFinal
<1>10. ReceiptOK(r)'
  <2>1. CASE plan'[r] = plan[r]
      BY <1>0, <1>2, <2>1 DEF ReceiptOK, AtMost
  <2>2. CASE plan'[r].rev = 0 /\ plan'[r].kind = "ready"
      BY <1>0, <1>1, <1>2, <1>4, <2>2 DEF ReceiptOK
  <2> QED  BY <1>9, <2>1, <2>2
<1> QED  BY <1>0, <1>2, <1>3, <1>6, <1>8, <1>9, <1>10, CallStep

LEMMA PlanFinalInv ==
  ASSUME AttachmentsInv, NEW c \in Calls, PlanFinal(c)
  PROVE  AttachmentsInv'
<1> USE DEF AttachmentsInv
<1>0. call[c].pc = "peeked" /\ UNCHANGED <<row, chunks, result, cas, sent>>
    BY DEF PlanFinal
<1>1. PICK r \in Requests : r = call[c].req
    BY <1>0, AtWork
<1>2. PICK a \in Ids : a = Of[r]
    BY OfTypes
<1>3. call[c] \in Frame /\ call[c].rev \in Nat /\ row[a].rev \in Nat /\ row[a].gen \in Nat
    BY <1>0, <1>1, <1>2, AtWork DEF Frame
<1>4. r \in Finals /\ r \notin Uploads /\ call[c].rev <= row[a].rev
    BY <1>0, <1>1, <1>2, AttachmentsAssumption DEF CallOK
<1> DEFINE p == [kind |-> "lease", gen |-> row[a].gen, rev |-> call[c].rev]
<1>5. /\ plan' = [plan EXCEPT ![r] = p] /\ call' = [call EXCEPT ![c].pc = "check", ![c].rev = 0]
    BY <1>1, <1>2 DEF PlanFinal
<1>6. p \in Plan /\ p.kind = "lease" /\ p.gen = row[a].gen /\ p.rev = call[c].rev
    BY <1>3 DEF Plan
<1> HIDE DEF p
<1>7. /\ plan' \in [Requests -> Plan] /\ plan'[r] = p /\ \A q \in Requests \ {r} : plan'[q] = plan[q]
  <2>1. plan \in [Requests -> Plan]
      BY DEF TypeOK, Plan
  <2> QED  BY <1>5, <1>6, <2>1
<1>8. ReceiptOK(r)'
    BY <1>0, <1>2, <1>4, <1>6, <1>7 DEF ReceiptOK, AtMost
<1>9. call'[c] \in Frame /\ call'[c].pc = "check" /\ call'[c].req = r /\ call' = [call EXCEPT ![c] = call'[c]]
  <2>1. call \in [Calls -> Frame]
      BY DEF TypeOK
  <2> HIDE DEF AttachmentsInv
  <2>2. call'[c] = [call[c] EXCEPT !.pc = "check", !.rev = 0]
      BY <1>5, <2>1
  <2>3. call'[c] \in Frame
      BY <1>3, <1>5, <2>1 DEF Frame
  <2>4. call'[c].pc = "check" /\ call'[c].req = r
      BY <1>1, <1>3, <2>2 DEF Frame
  <2>5. call' = [call EXCEPT ![c] = call'[c]]
      BY <1>5, <2>1
  <2> QED  BY <2>3, <2>4, <2>5
<1>10. CallOK(c)'
    BY <1>4, <1>9 DEF CallOK
<1>11. RowsStep
    BY <1>0, NoRowMoves DEF TypeOK
<1>12. result' \in [Requests -> Receipt] /\ \A q \in Requests \ {r} : result'[q] = result[q]
    BY <1>0 DEF TypeOK
<1> QED  BY <1>0, <1>4, <1>7, <1>8, <1>9, <1>10, <1>11, <1>12, CallStep

(* A finalizer goes on.                                                      *)
LEMMA GoesOn ==
  ASSUME AttachmentsInv, NEW c \in Calls, call[c].pc \notin {"idle", "upload", "peeked"},
         NEW pc \in {"check", "read", "put", "finish", "reject", "reconcile"}, Goto(c, pc),
         UNCHANGED <<row, chunks, plan, result, sent>>, cas \subseteq cas', cas' \subseteq Ids,
         pc = "finish" => Of[call[c].req] \in cas'
  PROVE  AttachmentsInv'
<1>1. PICK f \in Frame : call' = [call EXCEPT ![c] = f] /\ f.pc = pc /\ f.req = call[c].req
    BY GotoFrame
<1>2. call'[c] = f
    BY <1>1 DEF AttachmentsInv, TypeOK
<1>3. call[c].req \in Finals /\ call[c].req \in Requests
    BY DEF AttachmentsInv, CallOK, Requests
<1>4. CallOK(c)'
    BY <1>1, <1>2, <1>3 DEF CallOK
<1>5. RowsStep
    BY NoRowMoves
<1> QED  BY <1>1, <1>3, <1>4, <1>5, QuietCall

LEMMA CheckReadyInv ==
  ASSUME AttachmentsInv, NEW c \in Calls, CheckReady(c)
  PROVE  AttachmentsInv'
<1>0. call[c].pc \in {"check", "reconcile"} /\ UNCHANGED <<row, chunks, plan, cas, sent>>
    BY DEF CheckReady
<1>1. PICK r \in Requests : r = call[c].req
    BY <1>0, AtWork
<1>2. RowsStep
    BY <1>0, NoRowMoves DEF AttachmentsInv, TypeOK
<1>3. CASE ReadyResult(c) /\ Ends(c)
  <2>1. CASE UNCHANGED result
      BY <1>0, <1>2, <1>3, <2>1, CallEnds, QuietCall
  <2>2. CASE ShowsReady(Of[r]) /\ Answer(r, "ready", row[Of[r]].rev)
    <3>1. row[Of[r]].artifact /\ row[Of[r]].rev \in Nat
        BY <1>0, <1>1, <2>2, AtWork DEF ShowsReady, RowOK
    <3>2. row'[Of[r]].artifact /\ row[Of[r]].rev <= row'[Of[r]].rev
        BY <1>0, <3>1
    <3> QED  BY <1>0, <1>2, <1>3, <2>2, <3>1, <3>2, AnsweredInv
  <2> QED  BY <1>1, <1>3, <2>1, <2>2 DEF ReadyResult
<1>4. CASE Goto(c, "read") /\ UNCHANGED result
    BY <1>0, <1>4, GoesOn DEF AttachmentsInv, TypeOK
<1> QED  BY <1>3, <1>4 DEF CheckReady

LEMMA ReadUploadInv ==
  ASSUME AttachmentsInv, NEW c \in Calls, ReadUpload(c)
  PROVE  AttachmentsInv'
<1>1. /\ call[c].pc = "read" /\ UNCHANGED <<row, chunks, plan, result, cas, sent>>
      /\ Goto(c, "put") \/ Goto(c, "reconcile")
    BY DEF ReadUpload
<1> QED  BY <1>1, GoesOn DEF AttachmentsInv, TypeOK

LEMMA PutInv ==
  ASSUME AttachmentsInv, NEW c \in Calls, Put(c)
  PROVE  AttachmentsInv'
<1>1. call[c].pc = "put" /\ UNCHANGED <<row, chunks, plan, result, sent>>
    BY DEF Put
<1>2. Of[call[c].req] \in Ids /\ cas \subseteq Ids
    BY <1>1, AtWork DEF AttachmentsInv, TypeOK
<1>3. \/ Goto(c, "reject") /\ UNCHANGED cas
      \/ Goto(c, "finish") /\ cas' = cas \cup {Of[call[c].req]}
    BY DEF Put
<1> QED  BY <1>1, <1>2, <1>3, GoesOn

LEMMA ReadyRow ==
  ASSUME AttachmentsInv, NEW a \in Ids, row[a].state = "uploaded", a \in cas,
         row' = [row EXCEPT ![a].state = "ready", ![a].rev = @ + 1, ![a].artifact = TRUE, ![a].lease = "none"],
         chunks' = [chunks EXCEPT ![a] = {}], UNCHANGED cas
  PROVE  RowsStep /\ row'[a].artifact
<1> USE DEF AttachmentsInv
<1>2. row \in [Ids -> Row] /\ row[a] \in Row /\ row[a].rev \in Nat /\ chunks \in [Ids -> SUBSET Chunk]
    BY DEF TypeOK, Row
<1>3. row' \in [Ids -> Row] /\ \A b \in Ids \ {a} : row'[b] = row[b]
  <2>1. row'[a] \in Row
      BY <1>2 DEF Row, States
  <2> QED  BY <1>2, <2>1
<1>4. /\ row'[a].state = "ready" /\ row'[a].rev = row[a].rev + 1 /\ row'[a].gen = row[a].gen
      /\ row'[a].lease = "none" /\ row'[a].got = row[a].got /\ row'[a].artifact
      /\ (row'[a].pinned <=> row[a].pinned)
    BY <1>2 DEF Row
<1>5. /\ chunks' \in [Ids -> SUBSET Chunk] /\ chunks'[a] = {}
      /\ \A b \in Ids \ {a} : chunks'[b] = chunks[b]
    BY <1>2
<1>6. row[a].got = Size[a]
    BY DEF RowOK
<1>7. RowOK(a)'
    BY <1>4, <1>5, <1>6 DEF RowOK, Staged
<1>8. row'[a].rev >= row[a].rev /\ row'[a].rev # row[a].rev /\ row'[a].got <= Size[a]
    BY <1>2, <1>4 DEF TypeOK
<1> QED  BY <1>3, <1>4, <1>5, <1>7, <1>8, OneRow

LEMMA FinishInv ==
  ASSUME AttachmentsInv, NEW c \in Calls, Finish(c)
  PROVE  AttachmentsInv'
<1>0. call[c].pc = "finish" /\ UNCHANGED <<plan, cas, sent>>
    BY DEF Finish
<1>1. PICK r \in Requests : r = call[c].req
    BY <1>0, AtWork
<1>2. PICK a \in Ids : a = Of[r]
    BY OfTypes
<1>3. CASE /\ row[a].state = "uploaded" /\ chunks' = [chunks EXCEPT ![a] = {}]
           /\ row' = [row EXCEPT ![a].state = "ready", ![a].rev = @ + 1, ![a].artifact = TRUE, ![a].lease = "none"]
           /\ Answer(r, "ready", row'[a].rev) /\ Ends(c)
  <2>1. a \in cas
      BY <1>0, <1>1, <1>2 DEF AttachmentsInv, CallOK
  <2>2. RowsStep /\ row'[a].artifact
      BY <1>0, <1>3, <2>1, ReadyRow
  <2>3. row'[a].rev \in Nat
      BY <2>2 DEF RowsStep, Row
  <2>4. Answer(r, "ready", row'[a].rev) /\ Ends(c) /\ row'[a].rev <= row'[Of[r]].rev /\ row'[Of[r]].artifact
      BY <1>2, <1>3, <2>2, <2>3
  <2> QED  BY <1>0, <2>2, <2>3, <2>4, AnsweredInv
<1>4. CASE Goto(c, "reconcile") /\ UNCHANGED <<row, chunks, result>>
    BY <1>0, <1>4, GoesOn DEF AttachmentsInv, TypeOK
<1> QED  BY <1>1, <1>2, <1>3, <1>4 DEF Finish

LEMMA RejectContentInv ==
  ASSUME AttachmentsInv, NEW c \in Calls, RejectContent(c)
  PROVE  AttachmentsInv'
<1>0. call[c].pc = "reject" /\ UNCHANGED <<plan, cas, sent>>
    BY DEF RejectContent
<1>1. PICK r \in Requests : r = call[c].req
    BY <1>0, AtWork
<1>2. PICK a \in Ids : a = Of[r]
    BY OfTypes
<1>3. CASE Reject(a, plan[r].rev) /\ Answer(r, "rejected", row'[a].rev) /\ Ends(c)
    BY <1>0, <1>2, <1>3, RejectedRow, AnsweredInv
<1>4. CASE Goto(c, "reconcile") /\ UNCHANGED <<row, chunks, result>>
    BY <1>0, <1>4, GoesOn DEF AttachmentsInv, TypeOK
<1> QED  BY <1>1, <1>2, <1>3, <1>4 DEF RejectContent

-----------------------------------------------------------------------------
(* Messages pin attachments that are ready.                                  *)
LEMMA SendInv ==
  ASSUME AttachmentsInv, NEW m \in Messages, NEW S \in SUBSET Ids, Send(m, S)
  PROVE  AttachmentsInv'
<1> USE DEF AttachmentsInv
<1>1. /\ \A a \in S : ShowsReady(a)
      /\ row' = [a \in Ids |-> IF a \in S /\ ~row[a].pinned
                               THEN [row[a] EXCEPT !.pinned = TRUE, !.aged = FALSE, !.rev = @ + 1]
                               ELSE row[a]]
      /\ sent' = [sent EXCEPT ![m] = S] /\ UNCHANGED <<chunks, plan, result, call, cas>>
    BY DEF Send
<1>2. ASSUME NEW a \in Ids
      PROVE  /\ row'[a] \in Row /\ row'[a].state = row[a].state /\ row'[a].gen = row[a].gen
             /\ row'[a].lease = row[a].lease /\ row'[a].got = row[a].got
             /\ (row'[a].artifact <=> row[a].artifact)
             /\ (row'[a].pinned <=> row[a].pinned \/ a \in S)
             /\ row'[a].rev >= row[a].rev /\ (row[a].state # "ready" => row'[a].rev = row[a].rev)
  <2>1. row[a] \in Row /\ row[a].rev \in Nat
      BY DEF TypeOK, Row
  <2>2. CASE a \in S /\ ~row[a].pinned
    <3>1. row'[a] = [row[a] EXCEPT !.pinned = TRUE, !.aged = FALSE, !.rev = @ + 1]
        BY <1>1, <2>2
    <3>2. row[a].state = "ready"
        BY <1>1, <2>2 DEF ShowsReady
    <3> HIDE DEF AttachmentsInv
    <3>3. row'[a] \in Row
      <4>1. row[a].rev + 1 \in Nat
          BY <2>1
      <4> QED  BY <2>1, <3>1, <4>1 DEF Row
    <3>4. /\ row'[a].state = row[a].state /\ row'[a].gen = row[a].gen
          /\ row'[a].lease = row[a].lease /\ row'[a].got = row[a].got
          /\ (row'[a].artifact <=> row[a].artifact) /\ row'[a].pinned /\ row'[a].rev = row[a].rev + 1
        BY <2>1, <3>1 DEF Row
    <3> QED  BY <2>1, <2>2, <3>2, <3>3, <3>4
  <2>3. CASE ~(a \in S /\ ~row[a].pinned)
    <3>1. row'[a] = row[a]
        BY <1>1, <2>3
    <3> QED  BY <2>1, <2>3, <3>1
  <2> QED  BY <2>2, <2>3
<1>3. row' \in [Ids -> Row]
    BY <1>1, <1>2
<1>4. ASSUME NEW a \in Ids PROVE RowOK(a)'
  <2>1. (Staged(a)' <=> Staged(a)) /\ (Intact(a)' <=> Intact(a))
    <3>1. row'[a].state = row[a].state /\ row'[a].gen = row[a].gen /\ row'[a].got = row[a].got /\ chunks' = chunks
        BY <1>1, <1>2
    <3> QED  BY <3>1 DEF Staged, Intact
  <2>2. a \in S => row[a].state = "ready"
      BY <1>1 DEF ShowsReady
  <2>3. Staged(a) => row'[a].rev = row[a].rev
      BY <1>2 DEF Staged
  <2>4. row[a].state = "none" => row'[a].rev = row[a].rev
      BY <1>2
  <2>5. RowOK(a)
      OBVIOUS
  <2> HIDE DEF AttachmentsInv
  <2> QED  BY <1>1, <1>2, <2>1, <2>2, <2>3, <2>4, <2>5 DEF RowOK
<1>5. Forward
    BY <1>2 DEF Forward
<1>6. \A a \in Ids : row'[a].got <= Size[a]
    BY <1>2 DEF TypeOK
<1>7. RowsStep
    BY <1>1, <1>3, <1>4, <1>5, <1>6 DEF RowsStep, TypeOK
<1>8. TypeOK'
    BY <1>1, <1>3, <1>6 DEF TypeOK
<1>9. \A r \in Requests : ReceiptOK(r)'
    BY <1>1, <1>3, <1>5, ReceiptKept
<1>10. \A c \in Calls : CallOK(c)'
    BY <1>1, <1>3, <1>5, CallKept
<1>11. \A n \in Messages : \A a \in sent'[n] : row'[a].pinned
    BY <1>1, <1>2 DEF TypeOK
<1> QED  BY <1>4, <1>8, <1>9, <1>10, <1>11

-----------------------------------------------------------------------------
LEMMA StepInv ==
  ASSUME AttachmentsInv, [Next]_vars
  PROVE  AttachmentsInv'
<1>1. ASSUME NEW a \in Ids, NEW v \in BOOLEAN, Reserve(a, v) PROVE AttachmentsInv'
    BY <1>1, ReserveInv
<1>2. ASSUME NEW a \in Ids, Age(a) \/ LeaseExpires(a) \/ Expire(a) PROVE AttachmentsInv'
    BY <1>2, AgeInv, LeaseExpiresInv, ExpireInv
<1>3. ASSUME NEW c \in Calls, NEW r \in Uploads, PlanUpload(c, r) PROVE AttachmentsInv'
    BY <1>3, PlanUploadInv
<1>4. ASSUME NEW c \in Calls, NEW d \in Data, Append(c, d) PROVE AttachmentsInv'
    BY <1>4, AppendInv
<1>5. ASSUME NEW c \in Calls, NEW r \in Finals, PeekFinal(c, r) PROVE AttachmentsInv'
    BY <1>5, PeekInv
<1>6. ASSUME NEW c \in Calls, Complete(c) \/ PlanFinal(c) \/ CheckReady(c) \/ ReadUpload(c) PROVE AttachmentsInv'
    BY <1>6, CompleteInv, PlanFinalInv, CheckReadyInv, ReadUploadInv
<1>7. ASSUME NEW c \in Calls, Put(c) \/ Finish(c) \/ RejectContent(c) \/ Drop(c) PROVE AttachmentsInv'
    BY <1>7, PutInv, FinishInv, RejectContentInv, DropInv
<1>8. ASSUME NEW m \in Messages, NEW S \in SUBSET Ids, Send(m, S) PROVE AttachmentsInv'
    BY <1>8, SendInv
<1>9. CASE UNCHANGED vars
  <2>1. RowsStep
      BY <1>9, NoRowMoves DEF vars, AttachmentsInv, TypeOK
  <2> QED  BY <1>9, <2>1, OutsideStep DEF vars
<1> QED  BY <1>1, <1>2, <1>3, <1>4, <1>5, <1>6, <1>7, <1>8, <1>9, Zenon DEF Next

(* AttachmentsInv holds of every reachable state: rows, chunks, receipts,    *)
(* calls and the content store agree.                                        *)
THEOREM AttachmentsInvariant == Spec => []AttachmentsInv
<1>1. AttachmentsInv /\ [Next]_vars => AttachmentsInv'
    BY StepInv
<1> QED  BY <1>1, InitInv, PTL DEF Spec

(* verify_attachment_storage accepts the storage whenever the service        *)
(* starts: it holds the chunks of the current generations up to the received *)
(* length, and no receipt is ahead of its row.                               *)
THEOREM StorageIsAccepted == Spec => []StagingFrontier
<1>1. AttachmentsInv => StagingFrontier
  <2> SUFFICES ASSUME AttachmentsInv, NEW a \in Ids
               PROVE  /\ RowOK(a)
                      /\ \A r \in Requests : Of[r] = a => plan[r].rev <= row[a].rev /\ result[r].rev <= row[a].rev
      BY DEF StagingFrontier, RowOK
  <2> QED  BY DEF AttachmentsInv, ReceiptOK
<1> QED  BY <1>1, AttachmentsInvariant, PTL

(* associate_attachments: what an accepted message pins stays ready and its  *)
(* content stays in the store.                                               *)
THEOREM MessagesKeepContent == Spec => []MessageKeepsContent
<1>1. AttachmentsInv => MessageKeepsContent
    BY DEF AttachmentsInv, MessageKeepsContent, RowOK, TypeOK
<1> QED  BY <1>1, AttachmentsInvariant, PTL

(* The receipts of communication_attachment_requests never call the same     *)
(* attachment both ready and rejected.                                       *)
THEOREM VerdictsAgree == Spec => []OneVerdict
<1>1. AttachmentsInv => OneVerdict
    BY DEF AttachmentsInv, OneVerdict, ReceiptOK
<1> QED  BY <1>1, AttachmentsInvariant, PTL

-----------------------------------------------------------------------------
(* Only the calls that act change their frames.                              *)
LEMMA OthersStay ==
  ASSUME AttachmentsInv, NEW d \in Calls,
         \/ \E r \in Uploads : PlanUpload(d, r)
         \/ \E r \in Finals : PeekFinal(d, r)
         \/ \E x \in Data : Append(d, x)
         \/ Complete(d) \/ PlanFinal(d) \/ CheckReady(d) \/ ReadUpload(d)
         \/ Put(d) \/ Finish(d) \/ RejectContent(d) \/ Drop(d)
  PROVE  \A c \in Calls \ {d} : call'[c] = call[c]
<1>1. call \in [Calls -> Frame]
    BY DEF AttachmentsInv, TypeOK
<1>2. CASE \E r \in Uploads : PlanUpload(d, r)
    BY <1>1, <1>2 DEF PlanUpload
<1>3. CASE \E r \in Finals : PeekFinal(d, r)
    BY <1>1, <1>3 DEF PeekFinal
<1>4. CASE \E x \in Data : Append(d, x)
    BY <1>1, <1>4 DEF Append
<1>5. CASE Complete(d) \/ Drop(d)
    BY <1>1, <1>5 DEF Complete, Drop, Ends
<1>6. CASE PlanFinal(d) \/ CheckReady(d) \/ ReadUpload(d)
    BY <1>1, <1>6 DEF PlanFinal, CheckReady, ReadUpload, Ends, Goto
<1>7. CASE Put(d) \/ Finish(d) \/ RejectContent(d)
    BY <1>1, <1>7 DEF Put, Finish, RejectContent, Ends, Goto
<1> QED  BY <1>2, <1>3, <1>4, <1>5, <1>6, <1>7

(* The execution of a request whose upload was restarted by another one, and *)
(* of a finalize request whose plan pairs an old revision with a new lease,  *)
(* changes neither the row nor the chunks: appending, completing and         *)
(* finishing check the lease, finishing and rejecting check the revision,    *)
(* which a restart moves.                                                    *)
THEOREM OvertakenStaysSilent == Spec => OvertakenIsSilent
<1> DEFINE Over(c) == call[c].pc \notin {"idle", "peeked"} /\ Overtaken(call[c].req)
<1>1. ASSUME AttachmentsInv, [Next]_vars, NEW c \in Calls, Over(c), call'[c] # call[c]
      PROVE  UNCHANGED <<row, chunks>>
  <2>1. /\ Of[call[c].req] \in Ids /\ CallOK(c) /\ ReceiptOK(call[c].req)
      BY <1>1, AtWork
  <2>2. call[c].pc = "upload" => plan[call[c].req].gen # row[Of[call[c].req]].gen
      BY <1>1, <2>1, AttachmentsAssumption DEF CallOK, Overtaken
  <2>3. row[Of[call[c].req]].rev # plan[call[c].req].rev
      BY <1>1, <2>1 DEF ReceiptOK, AtMost, Overtaken
  <2>4. call[c].pc = "upload" => /\ row[Of[call[c].req]].rev # call[c].rev
                                 /\ ~Fence(Of[call[c].req], plan[call[c].req].gen)
      BY <2>1, <2>2 DEF CallOK, AtMost, Fence
  <2>5. ASSUME NEW d \in Calls, NEW r \in Uploads, PlanUpload(d, r) PROVE UNCHANGED <<row, chunks>>
    <3>1. c = d
        BY <1>1, <2>5, OthersStay
    <3> QED  BY <1>1, <2>5, <3>1 DEF PlanUpload
  <2>6. ASSUME NEW d \in Calls, NEW x \in Data, Append(d, x) PROVE UNCHANGED <<row, chunks>>
    <3>1. c = d
        BY <1>1, <2>6, OthersStay
    <3> QED  BY <2>4, <2>6, <3>1 DEF Append
  <2>7. ASSUME NEW d \in Calls, Complete(d) PROVE UNCHANGED <<row, chunks>>
    <3>1. c = d
        BY <1>1, <2>7, OthersStay
    <3> QED  BY <2>4, <2>7, <3>1 DEF Complete, Reject
  <2>8. ASSUME NEW d \in Calls, Finish(d) PROVE UNCHANGED <<row, chunks>>
    <3>1. c = d
        BY <1>1, <2>8, OthersStay
    <3> QED  BY <2>3, <2>8, <3>1 DEF Finish, Planned
  <2>9. ASSUME NEW d \in Calls, RejectContent(d) PROVE UNCHANGED <<row, chunks>>
    <3>1. c = d
        BY <1>1, <2>9, OthersStay
    <3> QED  BY <2>3, <2>9, <3>1 DEF RejectContent, Reject
  <2>10. ASSUME NEW d \in Calls,
                \/ \E r \in Finals : PeekFinal(d, r)
                \/ PlanFinal(d) \/ CheckReady(d) \/ ReadUpload(d) \/ Put(d) \/ Drop(d)
         PROVE  UNCHANGED <<row, chunks>>
      BY <2>10 DEF PeekFinal, PlanFinal, CheckReady, ReadUpload, Put, Drop
  <2>11. ASSUME \/ UNCHANGED vars
                \/ \E a \in Ids, v \in BOOLEAN : Reserve(a, v)
                \/ \E a \in Ids : Age(a) \/ LeaseExpires(a) \/ Expire(a)
                \/ \E m \in Messages, S \in SUBSET Ids : Send(m, S)
         PROVE  UNCHANGED <<row, chunks>>
    <3>1. UNCHANGED call
        BY <2>11 DEF vars, Reserve, Age, LeaseExpires, Expire, Send
    <3> QED  BY <1>1, <3>1
  <2> QED  BY <1>1, <2>5, <2>6, <2>7, <2>8, <2>9, <2>10, <2>11, Zenon DEF Next
<1>2. AttachmentsInv /\ [Next]_vars =>
        [\A c \in Calls :
           /\ call[c].pc \notin {"idle", "peeked"}
           /\ Overtaken(call[c].req)
           /\ call'[c] # call[c]
           => row' = row /\ chunks' = chunks]_vars
    BY <1>1
<1> QED  BY <1>2, AttachmentsInvariant, PTL DEF Spec, OvertakenIsSilent

-----------------------------------------------------------------------------
(* The budgets                                                               *)

(* The chunks that the attachments of S declare.                             *)
Units(S) == UNION {{a} \X (1..Size[a]) : a \in S}

(* They are the pairs of an attachment of S and one of its chunks.           *)
LEMMA UnitsAre ==
  ASSUME NEW S, NEW u
  PROVE  u \in Units(S) <=> \E a \in S : \E i \in 1..Size[a] : u = <<a, i>>
BY DEF Units

LEMMA UpTo ==
  ASSUME NEW n \in Nat
  PROVE  IsFiniteSet(1..n) /\ Cardinality(1..n) = n
<1>1. /\ IsFiniteSet(1..n)
      /\ Cardinality(1..n) = IF 1 > n THEN 0 ELSE n - 1 + 1
    BY FS_Interval
<1> QED  BY <1>1

(* Finitely many attachments declare finitely many chunks.                   *)
LEMMA UnitsFinite ==
  ASSUME NEW S \in SUBSET Ids
  PROVE  IsFiniteSet(Units(S))
<1> DEFINE F == {{a} \X (1..Size[a]) : a \in S}
           f == [a \in S |-> {a} \X (1..Size[a])]
<1>1. IsFiniteSet(S)
    BY AttachmentsAssumption, FS_Subset
<1>2. f \in Surjection(S, F)
    BY DEF Surjection
<1>3. IsFiniteSet(F)
  <2> HIDE DEF f, F
  <2> QED  BY <1>1, <1>2, FS_Surjection
<1>4. \A T \in F : IsFiniteSet(T)
  <2> SUFFICES ASSUME NEW a \in S PROVE IsFiniteSet({a} \X (1..Size[a]))
      OBVIOUS
  <2>1. Size[a] \in Nat
      BY AttachmentsAssumption
  <2>2. IsFiniteSet(1..Size[a])
      BY <2>1, UpTo
  <2>3. IsFiniteSet({a})
      BY FS_Singleton
  <2> QED  BY <2>2, <2>3, FS_Product
<1>5. IsFiniteSet(UNION F)
  <2> HIDE DEF F
  <2> QED  BY <1>3, <1>4, FS_UNION
<1> QED  BY <1>5 DEF Units

(* One attachment declares as many chunks as its size.                       *)
LEMMA UnitsOfOne ==
  ASSUME NEW a \in Ids
  PROVE  Cardinality(Units({a})) = Size[a]
<1>1. Units({a}) = {a} \X (1..Size[a])
    BY DEF Units
<1>2. Size[a] \in Nat /\ Size[a] # 0
    BY AttachmentsAssumption
<1>3. IsFiniteSet({a}) /\ Cardinality({a}) = 1
    BY FS_Singleton, Zenon
<1>4. IsFiniteSet(1..Size[a]) /\ Cardinality(1..Size[a]) = Size[a]
    BY <1>2, UpTo
<1>5. Cardinality({a} \X (1..Size[a])) = Cardinality({a}) * Cardinality(1..Size[a])
    BY <1>3, <1>4, FS_Product
<1>6. Cardinality({a} \X (1..Size[a])) = 1 * Size[a]
    BY <1>3, <1>4, <1>5, Zenon
<1>7. 1 * Size[a] = Size[a]
    BY <1>2
<1> QED  BY <1>1, <1>6, <1>7, Zenon

LEMMA TotalType ==
  ASSUME NEW S \in SUBSET Ids
  PROVE  Total(S) \in Nat
BY UnitsFinite, FS_CardinalityType DEF Total, Units

LEMMA TotalEmpty == Total({}) = 0
<1>1. Units({}) = {}
    BY DEF Units
<1> QED  BY <1>1, FS_EmptySet DEF Total, Units

(* One more attachment adds its own declared size.                           *)
LEMMA TotalAdd ==
  ASSUME NEW S \in SUBSET Ids, NEW a \in Ids \ S
  PROVE  Total(S \cup {a}) = Total(S) + Size[a]
<1>1. Units(S \cup {a}) = Units(S) \cup Units({a})
    BY DEF Units
<1>2. Units(S) \cap Units({a}) = {}
    BY UnitsAre
<1>3. IsFiniteSet(Units(S)) /\ IsFiniteSet(Units({a}))
    BY UnitsFinite
<1>4. Cardinality(Units(S) \cup Units({a})) =
        Cardinality(Units(S)) + Cardinality(Units({a})) - Cardinality(Units(S) \cap Units({a}))
    BY <1>3, FS_Union
<1>5. Cardinality(Units(S)) \in Nat /\ Size[a] \in Nat
    BY <1>3, FS_CardinalityType, AttachmentsAssumption
<1>6. Cardinality(Units({a})) = Size[a] /\ Cardinality(Units(S) \cap Units({a})) = 0
    BY <1>2, UnitsOfOne, FS_EmptySet, Zenon
<1>7. Cardinality(Units(S \cup {a})) = Cardinality(Units(S)) + Size[a] - 0
    BY <1>1, <1>4, <1>6, Zenon
<1>8. Cardinality(Units(S \cup {a})) = Cardinality(Units(S)) + Size[a]
    BY <1>5, <1>7
<1> QED  BY <1>8 DEF Total, Units

(* Fewer attachments declare no more.                                        *)
LEMMA TotalMonotone ==
  ASSUME NEW S \in SUBSET Ids, NEW T \in SUBSET S
  PROVE  Total(T) <= Total(S)
<1>1. Units(T) \in SUBSET Units(S)
    BY DEF Units
<1>2. Cardinality(Units(T)) <= Cardinality(Units(S))
    BY <1>1, UnitsFinite, FS_Subset
<1> QED  BY <1>2 DEF Total, Units

(* Taking attachments away keeps a total within a budget.                    *)
LEMMA StaysWithin ==
  ASSUME NEW S \in SUBSET Ids, NEW T \in SUBSET S, NEW q \in Nat, Total(S) <= q
  PROVE  Total(T) <= q
<1>1. Total(S) \in Nat /\ Total(T) \in Nat
    BY TotalType
<1>2. Total(T) <= Total(S)
    BY TotalMonotone
<1> QED  BY <1>1, <1>2

(* The guard of a reservation is enough for one more attachment.             *)
LEMMA FitsOneMore ==
  ASSUME NEW S \in SUBSET Ids, NEW a \in Ids \ S, NEW T \in SUBSET Ids, T \subseteq S \cup {a},
         NEW q \in Nat, Total(S) + Size[a] <= q
  PROVE  Total(T) <= q
<1>1. Total(S \cup {a}) <= q
    BY TotalAdd
<1> QED  BY <1>1, StaysWithin

(* A row that counts against the budgets.                                    *)
Counts(x) == ~x.pinned /\ x.state \notin {"none", "expired", "rejected"}

(* The steps that may move a row without reserving it.                       *)
LEMMA OneRowHeld ==
  ASSUME NEW a \in Ids, row \in [Ids -> Row], NEW x, row' = [row EXCEPT ![a] = x],
         Counts(x) => Counts(row[a])
  PROVE  Held' \subseteq Held
<1>1. \A b \in Ids : Counts(row'[b]) => Counts(row[b])
    OBVIOUS
<1> QED  BY <1>1 DEF Held, Counts

(* Only a reservation adds to what counts against the budgets: an upload     *)
(* that restarts its reservation, completes or becomes ready is counted      *)
(* already, and a rejection, an expiry or a message gives its bytes back.    *)
LEMMA HeldShrinks ==
  ASSUME AttachmentsInv, [Next]_vars, ~\E a \in Ids, v \in BOOLEAN : Reserve(a, v)
  PROVE  Held' \subseteq Held
<1>0. row \in [Ids -> Row]
    BY DEF AttachmentsInv, TypeOK
<1>1. ASSUME UNCHANGED row PROVE Held' \subseteq Held
    BY <1>1 DEF Held
<1>2. ASSUME NEW a \in Ids, Age(a) PROVE Held' \subseteq Held
  <2> DEFINE x == [row[a] EXCEPT !.aged = TRUE, !.lease = IF @ = "live" THEN "expired" ELSE @]
  <2>1. row' = [row EXCEPT ![a] = x]
      BY <1>0, <1>2 DEF Age
  <2>2. row[a] \in Row
      BY <1>0
  <2>3. x.pinned = row[a].pinned /\ x.state = row[a].state
      BY <2>2 DEF Row
  <2>4. Counts(x) => Counts(row[a])
      BY <2>3 DEF Counts
  <2> HIDE DEF x
  <2> QED  BY <1>0, <2>1, <2>4, OneRowHeld
<1>3. ASSUME NEW a \in Ids, LeaseExpires(a) PROVE Held' \subseteq Held
  <2> DEFINE x == [row[a] EXCEPT !.lease = "expired"]
  <2>1. row' = [row EXCEPT ![a] = x]
      BY <1>0, <1>3 DEF LeaseExpires
  <2>2. row[a] \in Row
      BY <1>0
  <2>3. x.pinned = row[a].pinned /\ x.state = row[a].state
      BY <2>2 DEF Row
  <2>4. Counts(x) => Counts(row[a])
      BY <2>3 DEF Counts
  <2> HIDE DEF x
  <2> QED  BY <1>0, <2>1, <2>4, OneRowHeld
<1>4. ASSUME NEW a \in Ids, Expire(a) PROVE Held' \subseteq Held
  <2> DEFINE x == [row[a] EXCEPT !.state = "expired", !.rev = @ + 1, !.lease = "none"]
  <2>1. row' = [row EXCEPT ![a] = x]
      BY <1>0, <1>4 DEF Expire
  <2>2. row[a] \in Row
      BY <1>0
  <2>3. x.state = "expired"
      BY <2>2 DEF Row
  <2>4. Counts(x) => Counts(row[a])
      BY <2>3 DEF Counts
  <2> HIDE DEF x
  <2> QED  BY <1>0, <2>1, <2>4, OneRowHeld
<1>5. ASSUME NEW a \in Ids, BeginUpload(a) PROVE Held' \subseteq Held
  <2> DEFINE x == [row[a] EXCEPT !.state = "reserved", !.rev = @ + 1, !.gen = @ + 1,
                                 !.got = 0, !.lease = "live"]
  <2>1. row' = [row EXCEPT ![a] = x] /\ Staged(a)
      BY <1>0, <1>5 DEF BeginUpload
  <2>2. row[a] \in Row
      BY <1>0
  <2>3. x.pinned = row[a].pinned
      BY <2>2 DEF Row
  <2>4. Counts(x) => Counts(row[a])
      BY <2>1, <2>3 DEF Counts, Staged
  <2> HIDE DEF x
  <2> QED  BY <1>0, <2>1, <2>4, OneRowHeld
<1>6. ASSUME NEW a \in Ids, row' = [row EXCEPT ![a].got = @ + 1, ![a].rev = @ + 1]
      PROVE  Held' \subseteq Held
  <2> DEFINE x == [row[a] EXCEPT !.got = @ + 1, !.rev = @ + 1]
  <2>1. row' = [row EXCEPT ![a] = x]
      BY <1>0, <1>6
  <2>2. row[a] \in Row
      BY <1>0
  <2>3. x.pinned = row[a].pinned /\ x.state = row[a].state
      BY <2>2 DEF Row
  <2>4. Counts(x) => Counts(row[a])
      BY <2>3 DEF Counts
  <2> HIDE DEF x
  <2> QED  BY <1>0, <2>1, <2>4, OneRowHeld
<1>7. ASSUME NEW a \in Ids, NEW rev, Reject(a, rev) PROVE Held' \subseteq Held
  <2> DEFINE x == [row[a] EXCEPT !.state = "rejected", !.got = 0, !.lease = "none", !.rev = @ + 1]
  <2>1. row' = [row EXCEPT ![a] = x]
      BY <1>0, <1>7 DEF Reject
  <2>2. row[a] \in Row
      BY <1>0
  <2>3. x.state = "rejected"
      BY <2>2 DEF Row
  <2>4. Counts(x) => Counts(row[a])
      BY <2>3 DEF Counts
  <2> HIDE DEF x
  <2> QED  BY <1>0, <2>1, <2>4, OneRowHeld
<1>8. ASSUME NEW a \in Ids, Staged(a), row' = [row EXCEPT ![a].state = "uploaded", ![a].rev = @ + 1]
      PROVE  Held' \subseteq Held
  <2> DEFINE x == [row[a] EXCEPT !.state = "uploaded", !.rev = @ + 1]
  <2>1. row' = [row EXCEPT ![a] = x]
      BY <1>0, <1>8
  <2>2. row[a] \in Row
      BY <1>0
  <2>3. x.pinned = row[a].pinned
      BY <2>2 DEF Row
  <2>4. Counts(x) => Counts(row[a])
      BY <1>8, <2>3 DEF Counts, Staged
  <2> HIDE DEF x
  <2> QED  BY <1>0, <2>1, <2>4, OneRowHeld
<1>9. ASSUME NEW a \in Ids, row[a].state = "uploaded",
             row' = [row EXCEPT ![a].state = "ready", ![a].rev = @ + 1, ![a].artifact = TRUE, ![a].lease = "none"]
      PROVE  Held' \subseteq Held
  <2> DEFINE x == [row[a] EXCEPT !.state = "ready", !.rev = @ + 1, !.artifact = TRUE, !.lease = "none"]
  <2>1. row' = [row EXCEPT ![a] = x]
      BY <1>0, <1>9
  <2>2. row[a] \in Row
      BY <1>0
  <2>3. x.pinned = row[a].pinned
      BY <2>2 DEF Row
  <2>4. Counts(x) => Counts(row[a])
      BY <1>9, <2>3 DEF Counts
  <2> HIDE DEF x
  <2> QED  BY <1>0, <2>1, <2>4, OneRowHeld
<1>10. ASSUME NEW c \in Calls, NEW r \in Uploads, PlanUpload(c, r) PROVE Held' \subseteq Held
    BY <1>1, <1>5, <1>10, OfTypes DEF PlanUpload, Requests
<1>11. ASSUME NEW c \in Calls, NEW d \in Data, Append(c, d) PROVE Held' \subseteq Held
  <2>1. Of[call[c].req] \in Ids
      BY <1>11, AtWork DEF Append
  <2> QED  BY <1>1, <1>6, <1>11, <2>1 DEF Append
<1>12. ASSUME NEW c \in Calls, Complete(c) PROVE Held' \subseteq Held
  <2>1. Of[call[c].req] \in Ids
      BY <1>12, AtWork DEF Complete
  <2> QED  BY <1>1, <1>7, <1>8, <1>12, <2>1 DEF Complete
<1>13. ASSUME NEW c \in Calls, Finish(c) PROVE Held' \subseteq Held
  <2>1. Of[call[c].req] \in Ids
      BY <1>13, AtWork DEF Finish
  <2> QED  BY <1>1, <1>9, <1>13, <2>1 DEF Finish
<1>14. ASSUME NEW c \in Calls, RejectContent(c) PROVE Held' \subseteq Held
  <2>1. Of[call[c].req] \in Ids
      BY <1>14, AtWork DEF RejectContent
  <2> QED  BY <1>1, <1>7, <1>14, <2>1 DEF RejectContent
<1>15. ASSUME NEW m \in Messages, NEW S \in SUBSET Ids, Send(m, S) PROVE Held' \subseteq Held
  <2>0. row' = [a \in Ids |-> IF a \in S /\ ~row[a].pinned
                             THEN [row[a] EXCEPT !.pinned = TRUE, !.aged = FALSE, !.rev = @ + 1]
                             ELSE row[a]]
      BY <1>15 DEF Send
  <2>1. ASSUME NEW a \in Ids, Counts(row'[a]) PROVE Counts(row[a])
    <3>1. row[a] \in Row
        BY <1>0
    <3>2. CASE a \in S /\ ~row[a].pinned
      <4>1. row'[a] = [row[a] EXCEPT !.pinned = TRUE, !.aged = FALSE, !.rev = @ + 1]
          BY <2>0, <3>2
      <4>2. row'[a].pinned
          BY <3>1, <4>1 DEF Row
      <4> QED  BY <2>1, <4>2 DEF Counts
    <3>3. CASE ~(a \in S /\ ~row[a].pinned)
      <4>1. row'[a] = row[a]
          BY <2>0, <3>3
      <4> QED  BY <2>1, <4>1
    <3> QED  BY <3>2, <3>3
  <2> QED  BY <2>1 DEF Held, Counts
<1>16. ASSUME NEW c \in Calls,
              \/ \E r \in Finals : PeekFinal(c, r)
              \/ PlanFinal(c) \/ CheckReady(c) \/ ReadUpload(c) \/ Put(c) \/ Drop(c)
       PROVE  UNCHANGED row
    BY <1>16 DEF PeekFinal, PlanFinal, CheckReady, ReadUpload, Put, Drop
<1>17. UNCHANGED vars => UNCHANGED row
    BY DEF vars
<1> QED  BY <1>1, <1>2, <1>3, <1>4, <1>10, <1>11, <1>12, <1>13, <1>14, <1>15, <1>16, <1>17, Zenon DEF Next

(* A reservation adds one attachment, which did not count before.            *)
LEMMA ReserveHeld ==
  ASSUME AttachmentsInv, NEW a \in Ids, NEW v \in BOOLEAN, Reserve(a, v)
  PROVE  a \notin Held /\ Held' \subseteq Held \cup {a} /\ Fits(a)
<1>1. a \notin Held /\ Fits(a)
    BY DEF Reserve, Held
<1>2. \A b \in Ids \ {a} : row'[b] = row[b]
    BY DEF Reserve, AttachmentsInv, TypeOK
<1> QED  BY <1>1, <1>2 DEF Held

(* reserve_attachment admits a declaration only within the budgets, and no   *)
(* other step takes from them, so the unassociated content of the project    *)
(* and of every viewer stays within them.                                    *)
THEOREM BudgetsHold == Spec => []QuotaHeld
<1> DEFINE Mine(a) == {b \in Held : Viewer[b] = Viewer[a]}
<1>Q. ProjectQuota \in Nat /\ ViewerQuota \in Nat
    BY AttachmentsAssumption
<1>1. Held \in SUBSET Ids /\ Held' \in SUBSET Ids
    BY DEF Held
<1>2. Init => QuotaHeld
  <2> SUFFICES ASSUME Init PROVE QuotaHeld
      OBVIOUS
  <2>1. Held = {}
      BY DEF Init, Held, NoRow
  <2>2. \A a \in Ids : {b \in Held : Viewer[b] = Viewer[a]} = {}
      BY <2>1
  <2>3. 0 <= ProjectQuota /\ 0 <= ViewerQuota
      BY AttachmentsAssumption
  <2> QED  BY <2>1, <2>2, <2>3, TotalEmpty DEF QuotaHeld
<1>3. ASSUME QuotaHeld, Held' \subseteq Held PROVE QuotaHeld'
  <2>1. Total(Held') <= ProjectQuota
      BY <1>1, <1>3, <1>Q, StaysWithin DEF QuotaHeld
  <2>2. ASSUME NEW b \in Ids PROVE Total({x \in Held' : Viewer[x] = Viewer[b]}) <= ViewerQuota
    <3>1. Total(Mine(b)) <= ViewerQuota
        BY <1>3 DEF QuotaHeld
    <3> QED  BY <1>1, <1>3, <1>Q, <3>1, StaysWithin
  <2> QED  BY <2>1, <2>2 DEF QuotaHeld
<1>4. ASSUME AttachmentsInv, QuotaHeld, NEW a \in Ids, NEW v \in BOOLEAN, Reserve(a, v)
      PROVE  QuotaHeld'
  <2>0. a \notin Held /\ Held' \subseteq Held \cup {a}
      BY <1>4, ReserveHeld
  <2>1. Total(Held) + Size[a] <= ProjectQuota /\ Total(Mine(a)) + Size[a] <= ViewerQuota
      BY <1>4, ReserveHeld DEF Fits
  <2>2. Total(Held') <= ProjectQuota
      BY <1>1, <1>Q, <2>0, <2>1, FitsOneMore
  <2>3. ASSUME NEW b \in Ids PROVE Total({x \in Held' : Viewer[x] = Viewer[b]}) <= ViewerQuota
    <3> DEFINE After == {x \in Held' : Viewer[x] = Viewer[b]}
    <3>1. CASE Viewer[b] = Viewer[a]
      <4>1. Mine(a) \in SUBSET Ids /\ After \in SUBSET Ids /\ a \in Ids \ Mine(a)
            /\ After \subseteq Mine(a) \cup {a}
          BY <1>1, <2>0, <3>1
      <4> HIDE DEF Mine, After
      <4> QED  BY <1>Q, <2>1, <4>1, FitsOneMore DEF After
    <3>2. CASE Viewer[b] # Viewer[a]
      <4>1. Mine(b) \in SUBSET Ids /\ After \in SUBSET Mine(b)
          BY <1>1, <2>0, <3>2
      <4>2. Total(Mine(b)) <= ViewerQuota
          BY <1>4 DEF QuotaHeld
      <4> HIDE DEF Mine, After
      <4> QED  BY <1>Q, <4>1, <4>2, StaysWithin DEF After
    <3> QED  BY <3>1, <3>2
  <2> QED  BY <2>2, <2>3 DEF QuotaHeld
<1>5. AttachmentsInv /\ QuotaHeld /\ [Next]_vars => QuotaHeld'
    BY <1>3, <1>4, HeldShrinks
<1> QED  BY <1>2, <1>5, AttachmentsInvariant, PTL DEF Spec

===========================================================================
