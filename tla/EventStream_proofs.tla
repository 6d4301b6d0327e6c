-------------------------- MODULE EventStream_proofs --------------------------
(* Proofs about EventStream for every set of facts, clients and publishers   *)
(* and every limit.  StoreInv says what the clock lock protects; ClientInv   *)
(* what a response still owes its client: every visible record between the   *)
(* saved cursor and the producer's position is buffered or in hand.          *)
EXTENDS EventStream, TLAPS

(* A publisher that holds the clock row's lock is alone, still has the       *)
(* current high water, and its intents are committed, unpublished, distinct. *)
BatchOK ==
  \A p \in Publishers : batch[p] # <<>> =>
    /\ base[p] = high
    /\ \A q \in Publishers : q # p => batch[q] = <<>>
    /\ \A i \in 1..Len(batch[p]) :
         src[batch[p][i]] = "committed" /\ pubseq[batch[p][i]] = 0
    /\ \A i, j \in 1..Len(batch[p]) : batch[p][i] = batch[p][j] => i = j

StoreInv ==
  /\ retained <= high
  /\ StreamContiguous
  /\ PublishedOnce
  /\ BatchOK

Buffered(k) == k.queue \cup k.hand

(* The client was told what it may see up to its cursor.                     *)
Told(c, k) ==
  \A f \in Visible[c][k.rev] : 0 < pubseq[f] /\ pubseq[f] <= k.pos => f \in k.view

(* What is between the cursor and the producer's position is on its way.     *)
OnItsWay(c, k) ==
  \A f \in Visible[c][k.rev] :
    0 < pubseq[f] /\ pubseq[f] <= k.next =>
      f \in k.view \/ \E r \in Buffered(k) : r.fact = f

ResponseOK(c, k) ==
  /\ k.pos <= k.next /\ k.next <= high
  /\ \A r \in Buffered(k) :
       r.seq = pubseq[r.fact] /\ k.pos < r.seq /\ r.seq <= k.next
  /\ \A r \in k.hand, q \in k.queue : r.seq < q.seq
  /\ ~k.closed => OnItsWay(c, k)

LateOK(k, a) ==
  /\ k.rev <= a
  /\ k.late = 0 \/ (k.late = 1 /\ k.rev < a /\ ~k.checked)

ClientOK(c, k) ==
  /\ k.pos <= high
  /\ k.st # "none" => Told(c, k)
  /\ k.st = "open" => ResponseOK(c, k)
  /\ k.st # "open" => k.queue = {} /\ k.hand = {} /\ ~k.closed /\ k.late = 0 /\ ~k.checked
  /\ LateOK(k, auth[c])

ClientInv == \A c \in Clients : ClientOK(c, client[c])

EventInv == TypeOK /\ StoreInv /\ ClientInv

-----------------------------------------------------------------------------
LEMMA InitInv == Init => EventInv
<1> SUFFICES ASSUME Init PROVE EventInv
    OBVIOUS
<1> USE LimitsAssumption, BoundsAssumption, VisibleAssumption DEF Init
<1>1. TypeOK
    BY DEF TypeOK, SrcStates, Row, ClientRec, NoHand
<1>2. StoreInv
    BY DEF StoreInv, StreamContiguous, PublishedOnce, BatchOK, Seqs, Recorded
<1>3. ClientInv
    BY DEF ClientInv, ClientOK, Told, LateOK, NoHand
<1> QED  BY <1>1, <1>2, <1>3 DEF EventInv

-----------------------------------------------------------------------------
(* The source transactions.                                                  *)
LEMMA SourceType ==
  ASSUME NEW f \in Facts, TypeOK, Source(f)
  PROVE  TypeOK'
<1> USE BoundsAssumption DEF TypeOK, SrcStates, clockVars, pubVars
<1>1. CASE Record(f)        BY <1>1 DEF Record
<1>2. CASE CommitFact(f)    BY <1>2 DEF CommitFact
<1>3. CASE RollbackFact(f)  BY <1>3 DEF RollbackFact
<1>4. CASE Replay(f)        BY <1>4 DEF Replay
<1>5. CASE ReplayEnds(f)    BY <1>5 DEF ReplayEnds
<1> QED  BY <1>1, <1>2, <1>3, <1>4, <1>5 DEF Source

(* No source transaction takes a committed fact back, and none touches an    *)
(* intent that a publisher has selected.                                     *)
LEMMA SourceKeeps ==
  ASSUME NEW f \in Facts, TypeOK, StoreInv, Source(f)
  PROVE  /\ UNCHANGED <<pubseq, clockVars, pubVars, auth, client>>
         /\ \A g \in Facts : g \in Recorded => g \in Recorded'
         /\ \A g \in Facts : Selected(g) => src'[g] = src[g]
<1> USE DEF TypeOK, Recorded, Selected, clockVars, pubVars
<1>0. \A g \in Facts : Selected(g) => src[g] = "committed"
  <2> SUFFICES ASSUME NEW g \in Facts, NEW p \in Publishers,
                      NEW i \in 1..Len(batch[p]), batch[p][i] = g
               PROVE  src[g] = "committed"
      OBVIOUS
  <2>1. batch[p] # <<>>
      OBVIOUS
  <2> QED  BY <2>1 DEF StoreInv, BatchOK
<1>1. CASE Record(f)        BY <1>0, <1>1 DEF Record
<1>2. CASE CommitFact(f)    BY <1>0, <1>2 DEF CommitFact
<1>3. CASE RollbackFact(f)  BY <1>0, <1>3 DEF RollbackFact
<1>4. CASE Replay(f)        BY <1>0, <1>4 DEF Replay
<1>5. CASE ReplayEnds(f)    BY <1>0, <1>5 DEF ReplayEnds
<1> QED  BY <1>1, <1>2, <1>3, <1>4, <1>5 DEF Source

LEMMA SourceStore ==
  ASSUME NEW f \in Facts, TypeOK, StoreInv, Source(f)
  PROVE  StoreInv'
<1>1. /\ UNCHANGED <<pubseq, clockVars, pubVars, auth, client>>
      /\ \A g \in Facts : g \in Recorded => g \in Recorded'
      /\ \A g \in Facts : Selected(g) => src'[g] = src[g]
    BY SourceKeeps
<1>2. StreamContiguous' /\ (retained <= high)'
    BY <1>1 DEF StoreInv, StreamContiguous, Seqs, clockVars
<1>3. PublishedOnce'
    BY <1>1 DEF StoreInv, PublishedOnce, clockVars
<1>4. BatchOK'
  <2>1. \A p \in Publishers : \A i \in 1..Len(batch[p]) :
          src'[batch[p][i]] = src[batch[p][i]]
      BY <1>1 DEF Selected, TypeOK
  <2> QED  BY <1>1, <2>1 DEF StoreInv, BatchOK, pubVars, clockVars
<1> QED  BY <1>2, <1>3, <1>4 DEF StoreInv

-----------------------------------------------------------------------------
(* Publication.                                                              *)
LEMMA SelectInv ==
  ASSUME NEW p \in Publishers, TypeOK, StoreInv, PublishSelect(p)
  PROVE  /\ UNCHANGED <<sourceVars, pubseq, clockVars, auth, client, faults>>
         /\ TypeOK' /\ StoreInv'
<1>1. UNCHANGED <<sourceVars, pubseq, clockVars, auth, client, faults>>
    BY DEF PublishSelect
<1>2. PICK n \in 1..BatchLimit : \E b \in [1..n -> Pending] :
        FirstPending(b) /\ batch' = [batch EXCEPT ![p] = b]
    BY DEF PublishSelect
<1>3. PICK b \in [1..n -> Pending] :
        FirstPending(b) /\ batch' = [batch EXCEPT ![p] = b]
    BY <1>2
<1>4. n \in Nat /\ b \in Seq(Facts) /\ Len(b) = n
    BY <1>3, LimitsAssumption DEF Pending
<1>5. base' = [base EXCEPT ![p] = high] /\ ClockFree
    BY DEF PublishSelect
<1>6. TypeOK'
    BY <1>1, <1>3, <1>4, <1>5 DEF TypeOK, sourceVars, clockVars
<1>7. BatchOK'
  <2>1. \A q \in Publishers : q # p => batch'[q] = <<>>
      BY <1>3, <1>5 DEF ClockFree, TypeOK
  <2>2. batch'[p] = b /\ base'[p] = high
      BY <1>3, <1>5 DEF TypeOK
  <2>3. \A i \in 1..Len(b) : src[b[i]] = "committed" /\ pubseq[b[i]] = 0
      BY <1>3, <1>4 DEF Pending
  <2>4. \A i, j \in 1..Len(b) : b[i] = b[j] => i = j
    <3> SUFFICES ASSUME NEW i \in 1..Len(b), NEW j \in 1..Len(b), i < j, b[i] = b[j]
                 PROVE  FALSE
        BY <1>4
    <3>1. id[b[i]] < id[b[j]]
        BY <1>3 DEF FirstPending
    <3>2. id[b[i]] \in Nat
        BY <1>4 DEF TypeOK
    <3> QED  BY <3>1, <3>2
  <2> QED  BY <1>1, <2>1, <2>2, <2>3, <2>4 DEF BatchOK, sourceVars, clockVars
<1>8. StreamContiguous' /\ (retained <= high)' /\ PublishedOnce'
    BY <1>1 DEF StoreInv, StreamContiguous, PublishedOnce, Recorded, Seqs, sourceVars, clockVars
<1> QED  BY <1>1, <1>6, <1>7, <1>8 DEF StoreInv

(* A commit numbers its intents from high_water + 1 and changes no sequence  *)
(* that was already assigned.                                                *)
LEMMA CommitNumbers ==
  ASSUME NEW p \in Publishers, TypeOK, StoreInv, PublishCommit(p)
  PROVE  /\ Len(batch[p]) \in Nat \ {0}
         /\ high' = high + Len(batch[p])
         /\ \A i \in 1..Len(batch[p]) :
              /\ batch[p][i] \in Facts
              /\ pubseq'[batch[p][i]] = high + i
         /\ \A f \in Facts :
              \/ pubseq'[f] = pubseq[f]
              \/ /\ pubseq[f] = 0
                 /\ \E i \in 1..Len(batch[p]) : batch[p][i] = f
         /\ pubseq' \in [Facts -> Nat]
<1> DEFINE b == batch[p]
<1>1. b \in Seq(Facts) /\ b # <<>> /\ base[p] = high /\ high \in Nat
    BY DEF TypeOK, StoreInv, BatchOK, PublishCommit
<1>2. Len(b) \in Nat \ {0}
    BY <1>1
<1>3. \A i, j \in 1..Len(b) : b[i] = b[j] => i = j
    BY <1>1 DEF StoreInv, BatchOK
<1>4. pubseq' = [f \in Facts |->
         IF \E i \in 1..Len(b) : b[i] = f
         THEN high + (CHOOSE i \in 1..Len(b) : b[i] = f) ELSE pubseq[f]]
    BY <1>1 DEF PublishCommit
<1> HIDE DEF b
<1>5. \A i \in 1..Len(b) : b[i] \in Facts
    BY <1>1
<1>6. \A i \in 1..Len(b) : pubseq'[b[i]] = high + i
  <2> TAKE i \in 1..Len(b)
  <2>1. (CHOOSE j \in 1..Len(b) : b[j] = b[i]) \in 1..Len(b)
        /\ b[CHOOSE j \in 1..Len(b) : b[j] = b[i]] = b[i]
      OBVIOUS
  <2>2. (CHOOSE j \in 1..Len(b) : b[j] = b[i]) = i
      BY <2>1, <1>3
  <2> QED  BY <1>4, <1>5, <2>2
<1>7. ASSUME NEW f \in Facts
      PROVE  /\ \/ pubseq'[f] = pubseq[f]
                \/ \E i \in 1..Len(b) : b[i] = f
             /\ pubseq'[f] \in Nat
  <2>1. CASE \E i \in 1..Len(b) : b[i] = f
      BY <1>1, <1>6, <2>1
  <2>2. CASE ~\E i \in 1..Len(b) : b[i] = f
      BY <1>4, <2>2 DEF TypeOK
  <2> QED  BY <2>1, <2>2
<1>8. \A i \in 1..Len(b) : pubseq[b[i]] = 0
    BY <1>1 DEF StoreInv, BatchOK, b
<1>9. high' = high + Len(b)
    BY <1>1 DEF PublishCommit, b
<1>10. pubseq' \in [Facts -> Nat]
  <2>1. pubseq' = [f \in Facts |-> pubseq'[f]]
      BY <1>4
  <2> QED  BY <2>1, <1>7
<1> QED  BY <1>2, <1>5, <1>6, <1>7, <1>8, <1>9, <1>10 DEF b

LEMMA CommitInv ==
  ASSUME NEW p \in Publishers, TypeOK, StoreInv, PublishCommit(p)
  PROVE  TypeOK' /\ StoreInv'
<1> DEFINE b == batch[p]
           new == {[seq |-> high + i, fact |-> b[i]] : i \in 1..Len(b)}
<1>0. b # <<>> /\ base[p] = high /\ high \in Nat /\ retained \in Nat /\ retained <= high
    BY DEF TypeOK, StoreInv, BatchOK, PublishCommit
<1>1. stream' = stream \cup new
    BY <1>0 DEF PublishCommit
<1>2. /\ Len(b) \in Nat \ {0}
      /\ high' = high + Len(b)
      /\ \A i \in 1..Len(b) : b[i] \in Facts /\ pubseq'[b[i]] = high + i
      /\ \A f \in Facts :
           \/ pubseq'[f] = pubseq[f]
           \/ /\ pubseq[f] = 0
              /\ \E i \in 1..Len(b) : b[i] = f
      /\ pubseq' \in [Facts -> Nat]
    BY CommitNumbers
<1>3. UNCHANGED <<sourceVars, retained, aged, auth, client, faults>>
    BY DEF PublishCommit
<1>4. /\ batch' = [batch EXCEPT ![p] = <<>>]
      /\ base' = [base EXCEPT ![p] = 0]
    BY DEF PublishCommit
<1>b. \A i \in 1..Len(b) : b[i] \in Recorded
    BY <1>0, <1>2 DEF StoreInv, BatchOK, Recorded
<1> HIDE DEF b
<1>5. TypeOK'
  <2>1. new \subseteq Row
      BY <1>0, <1>2 DEF Row
  <2>2. high' \in Nat
      BY <1>0, <1>2
  <2> QED  BY <1>1, <1>2, <1>3, <1>4, <2>1, <2>2 DEF TypeOK, sourceVars
<1>6. StreamContiguous'
  <2>1. \A s : s \in Seqs' <=> s \in Seqs \/ \E i \in 1..Len(b) : s = high + i
    <3> TAKE s
    <3>1. ASSUME s \in Seqs' PROVE s \in Seqs \/ \E i \in 1..Len(b) : s = high + i
      <4> PICK r \in stream' : s = r.seq
          BY <3>1 DEF Seqs
      <4> QED  BY <1>1 DEF Seqs
    <3>2. ASSUME s \in Seqs PROVE s \in Seqs'
        BY <3>2, <1>1 DEF Seqs
    <3>3. ASSUME NEW i \in 1..Len(b), s = high + i PROVE s \in Seqs'
      <4>1. [seq |-> high + i, fact |-> b[i]] \in stream'
          BY <1>1
      <4>2. [seq |-> high + i, fact |-> b[i]].seq = s
          BY <3>3
      <4> QED  BY <4>1, <4>2 DEF Seqs
    <3> QED  BY <3>1, <3>2, <3>3
  <2>2. Seqs = (retained + 1)..high
      BY DEF StoreInv, StreamContiguous
  <2> HIDE DEF new
  <2>3. ASSUME NEW s PROVE s \in Seqs' <=> s \in (retained + 1)..(high + Len(b))
    <3>1. CASE s \in Int /\ s > high
      <4>1. s \in Seqs' <=> \E i \in 1..Len(b) : s = high + i
          BY <1>0, <2>1, <2>2, <3>1
      <4>2. s <= high + Len(b) => s - high \in 1..Len(b) /\ s = high + (s - high)
          BY <1>0, <1>2, <3>1
      <4> QED  BY <1>0, <1>2, <3>1, <4>1, <4>2
    <3>2. CASE ~(s \in Int /\ s > high)
      <4>1. ~\E i \in 1..Len(b) : s = high + i
          BY <1>0, <1>2, <3>2
      <4> QED  BY <1>0, <1>2, <2>1, <2>2, <3>2, <4>1
    <3> QED  BY <3>1, <3>2
  <2> QED  BY <1>2, <1>3, <2>3 DEF StreamContiguous
<1>7. PublishedOnce'
  <2> USE <1>0, <1>2 DEF StoreInv
  <2>1. ASSUME NEW f \in Facts
        PROVE  \/ pubseq'[f] = pubseq[f] /\ pubseq[f] \in Nat /\ pubseq[f] <= high
               \/ pubseq[f] = 0 /\ \E i \in 1..Len(b) : b[i] = f /\ pubseq'[f] = high + i
    <3>1. pubseq[f] \in Nat /\ pubseq[f] <= high
        BY DEF PublishedOnce, TypeOK
    <3>2. CASE pubseq'[f] = pubseq[f]
        BY <3>1, <3>2
    <3>3. CASE pubseq[f] = 0 /\ \E i \in 1..Len(b) : b[i] = f
        BY <3>3
    <3> QED  BY <3>2, <3>3
  <2>2. \A r \in stream' : r.seq = pubseq'[r.fact]
    <3> TAKE r \in stream'
    <3>1. CASE r \in stream
      <4>1. r.fact \in Facts /\ r.seq = pubseq[r.fact] /\ r.seq \in Nat
          BY <3>1 DEF TypeOK, PublishedOnce, Row
      <4>2. r.seq # 0
        <5>1. r.seq \in Seqs
            BY <3>1 DEF Seqs
        <5>2. Seqs = (retained + 1)..high
            BY DEF StreamContiguous
        <5> QED  BY <5>1, <5>2
      <4> QED  BY <4>1, <4>2, <2>1
    <3>2. CASE r \in new
        BY <3>2
    <3> QED  BY <1>1, <3>1, <3>2
  <2>3. ASSUME NEW f \in Facts
        PROVE  /\ pubseq'[f] <= high'
               /\ pubseq'[f] > retained' => [seq |-> pubseq'[f], fact |-> f] \in stream'
               /\ pubseq'[f] > 0 => f \in Recorded'
    <3>1. CASE pubseq'[f] = pubseq[f] /\ pubseq[f] \in Nat /\ pubseq[f] <= high
      <4>1. pubseq'[f] <= high'
          BY <3>1
      <4>2. pubseq'[f] > retained' => [seq |-> pubseq'[f], fact |-> f] \in stream'
          BY <1>1, <1>3, <3>1 DEF PublishedOnce
      <4>3. pubseq'[f] > 0 => f \in Recorded'
          BY <1>3, <3>1 DEF PublishedOnce, Recorded, sourceVars
      <4> QED  BY <4>1, <4>2, <4>3
    <3>2. CASE \E i \in 1..Len(b) : b[i] = f /\ pubseq'[f] = high + i
      <4> PICK i \in 1..Len(b) : b[i] = f /\ pubseq'[f] = high + i
          BY <3>2
      <4>1. f \in Recorded'
          BY <1>b, <1>3 DEF Recorded, sourceVars
      <4>2. [seq |-> pubseq'[f], fact |-> f] \in new
          OBVIOUS
      <4>3. pubseq'[f] <= high'
          OBVIOUS
      <4>4. [seq |-> pubseq'[f], fact |-> f] \in stream'
          BY <1>1, <4>2
      <4> QED  BY <4>1, <4>3, <4>4
    <3> QED  BY <2>1, <3>1, <3>2
  <2>4. ASSUME NEW f \in Facts, NEW g \in Facts, pubseq'[f] = pubseq'[g], pubseq'[f] > 0
        PROVE  f = g
    <3>1. CASE pubseq'[f] = pubseq[f] /\ pubseq[f] \in Nat /\ pubseq[f] <= high
      <4>1. pubseq'[g] = pubseq[g]
        <5>1. ~\E i \in 1..Len(b) : pubseq'[g] = high + i
            BY <2>4, <3>1
        <5> QED  BY <2>1, <5>1
      <4> QED  BY <2>4, <3>1, <4>1 DEF PublishedOnce
    <3>2. CASE \E i \in 1..Len(b) : b[i] = f /\ pubseq'[f] = high + i
      <4> PICK i \in 1..Len(b) : b[i] = f /\ pubseq'[f] = high + i
          BY <3>2
      <4>1. PICK j \in 1..Len(b) : b[j] = g /\ pubseq'[g] = high + j
        <5>1. pubseq'[g] > high
            BY <2>4
        <5> QED  BY <2>1, <5>1
      <4>2. i = j
          BY <2>4, <4>1
      <4> QED  BY <4>1, <4>2
    <3> QED  BY <2>1, <3>1, <3>2
  <2> QED  BY <2>2, <2>3, <2>4 DEF PublishedOnce
<1>8. BatchOK'
  <2>1. \A q \in Publishers : batch'[q] = <<>>
      BY <1>0, <1>4 DEF StoreInv, BatchOK, TypeOK, b
  <2> QED  BY <2>1 DEF BatchOK
<1>9. (retained <= high)'
    BY <1>0, <1>2, <1>3
<1> QED  BY <1>5, <1>6, <1>7, <1>8, <1>9 DEF StoreInv

LEMMA RollbackInv ==
  ASSUME NEW p \in Publishers, TypeOK, StoreInv, PublishRollback(p)
  PROVE  /\ UNCHANGED <<sourceVars, pubseq, clockVars, auth, client>>
         /\ TypeOK' /\ StoreInv'
<1>1. /\ UNCHANGED <<sourceVars, pubseq, clockVars, auth, client>>
      /\ batch' = [batch EXCEPT ![p] = <<>>] /\ base' = [base EXCEPT ![p] = 0]
      /\ faults' = faults + 1 /\ faults < MaxFaults
    BY DEF PublishRollback
<1>2. TypeOK'
    BY <1>1, BoundsAssumption DEF TypeOK, sourceVars, clockVars
<1>3. \A q \in Publishers : batch'[q] # <<>> => batch'[q] = batch[q] /\ base'[q] = base[q] /\ q # p
    BY <1>1 DEF TypeOK
<1>4. BatchOK'
    BY <1>1, <1>3 DEF StoreInv, BatchOK, TypeOK, sourceVars, clockVars
<1>5. StreamContiguous' /\ (retained <= high)' /\ PublishedOnce'
    BY <1>1 DEF StoreInv, StreamContiguous, PublishedOnce, Recorded, Seqs, sourceVars, clockVars
<1> QED  BY <1>1, <1>2, <1>4, <1>5 DEF StoreInv

-----------------------------------------------------------------------------
(* Retention.                                                                *)
LEMMA AgeInv ==
  ASSUME NEW s \in Seqs, TypeOK, StoreInv, Age(s)
  PROVE  TypeOK' /\ StoreInv' /\ UNCHANGED <<sourceVars, pubseq, stream, high, auth, client>>
<1>1. UNCHANGED <<sourceVars, pubseq, stream, high, retained, pubVars, auth, client, faults>>
      /\ aged' = aged \cup {s}
    BY DEF Age
<1>2. s \in Nat
    BY DEF TypeOK, Seqs, Row
<1>3. TypeOK'
    BY <1>1, <1>2 DEF TypeOK, sourceVars, pubVars
<1>4. StoreInv'
    BY <1>1 DEF StoreInv, StreamContiguous, PublishedOnce, BatchOK, Recorded, Seqs,
                sourceVars, pubVars
<1> QED  BY <1>1, <1>3, <1>4

LEMMA PurgeInv ==
  ASSUME TypeOK, StoreInv, Purge
  PROVE  /\ TypeOK' /\ StoreInv'
         /\ UNCHANGED <<sourceVars, pubseq, high, auth, client>>
         /\ Seqs \ Seqs' \subseteq aged
<1>1. /\ UNCHANGED <<sourceVars, pubseq, high, pubVars, auth, client, faults>>
      /\ \A p \in Publishers : batch[p] = <<>>
    BY DEF Purge, ClockFree
<1>2. PICK floor \in ExpiredPrefix :
        /\ stream' = {r \in stream : r.seq > floor}
        /\ retained' = floor
        /\ aged' = {s \in aged : s > floor}
    BY DEF Purge
<1>3. Seqs = (retained + 1)..high /\ retained \in Nat /\ high \in Nat
    BY DEF StoreInv, StreamContiguous, TypeOK
<1>4. /\ floor \in Nat /\ retained < floor /\ floor <= high
      /\ \A s \in Seqs : s <= floor => s \in aged
    BY <1>3 DEF ExpiredPrefix
<1>5. Seqs' = {s \in Seqs : s > floor}
    BY <1>2 DEF Seqs
<1>6. TypeOK'
    BY <1>1, <1>2, <1>4 DEF TypeOK, sourceVars, pubVars
<1>7. StreamContiguous'
  <2>1. Seqs' = (floor + 1)..high
      BY <1>3, <1>4, <1>5
  <2> QED  BY <1>1, <1>2, <2>1 DEF StreamContiguous
<1>8. PublishedOnce'
  <2>1. \A r \in stream' : r \in stream /\ r.seq = pubseq[r.fact]
      BY <1>2 DEF StoreInv, PublishedOnce
  <2>2. ASSUME NEW f \in Facts
        PROVE  /\ pubseq[f] <= high
               /\ pubseq[f] > floor => [seq |-> pubseq[f], fact |-> f] \in stream'
               /\ pubseq[f] > 0 => f \in Recorded
    <3>1. pubseq[f] \in Nat
        BY DEF TypeOK
    <3>2. pubseq[f] > floor => [seq |-> pubseq[f], fact |-> f] \in stream
        BY <1>3, <1>4, <3>1 DEF StoreInv, PublishedOnce
    <3> QED  BY <1>2, <3>2 DEF StoreInv, PublishedOnce
  <2>3. Recorded' = Recorded /\ pubseq' = pubseq /\ high' = high /\ retained' = floor
      BY <1>1, <1>2 DEF Recorded, sourceVars
  <2> QED  BY <2>1, <2>2, <2>3 DEF StoreInv, PublishedOnce
<1>9. BatchOK' /\ (retained <= high)'
    BY <1>1, <1>2, <1>4 DEF BatchOK, pubVars
<1>10. Seqs \ Seqs' \subseteq aged
    BY <1>3, <1>4, <1>5
<1> QED  BY <1>1, <1>6, <1>7, <1>8, <1>9, <1>10 DEF StoreInv

-----------------------------------------------------------------------------
(* The clients, while the store moves: later publications get sequences      *)
(* above every cursor and position, so nothing already told is disturbed.    *)
LEMMA StoreMoves ==
  ASSUME TypeOK, TypeOK', ClientInv, client' = client,
         high' >= high,
         \A c \in Clients : auth'[c] >= auth[c],
         \A f \in Facts :
           pubseq'[f] = pubseq[f] \/ (pubseq[f] = 0 /\ pubseq'[f] > high)
  PROVE  ClientInv'
<1> SUFFICES ASSUME NEW c \in Clients PROVE ClientOK(c, client[c])'
    BY DEF ClientInv
<1> DEFINE k == client[c]
<1>1. k \in ClientRec /\ k' = k /\ ClientOK(c, k)
    BY DEF TypeOK, ClientInv
<1>2. high \in Nat /\ high' \in Nat /\ pubseq \in [Facts -> Nat] /\ pubseq' \in [Facts -> Nat]
      /\ auth[c] \in Nat /\ auth'[c] \in Nat
    BY BoundsAssumption DEF TypeOK
<1>3. k.pos \in Nat /\ k.next \in Nat /\ k.rev \in 0..MaxAuth /\ k.pos <= high
      /\ k.queue \subseteq Row /\ k.hand \subseteq Row /\ k.late \in Nat
    BY <1>1 DEF ClientRec, ClientOK
<1>4. Visible[c][k.rev] \subseteq Facts
    BY <1>3, VisibleAssumption
<1> HIDE DEF k
<1>5. ASSUME k.st # "none" PROVE Told(c, k)'
  <2> SUFFICES ASSUME NEW f \in Visible[c][k.rev], 0 < pubseq'[f], pubseq'[f] <= k.pos
               PROVE  f \in k.view
      BY <1>1 DEF Told
  <2>1. pubseq'[f] = pubseq[f]
      BY <1>2, <1>3, <1>4
  <2> QED  BY <1>1, <1>5, <2>1 DEF ClientOK, Told
<1>6. ASSUME k.st = "open" PROVE ResponseOK(c, k)'
  <2>1. ResponseOK(c, k)
      BY <1>1, <1>6 DEF ClientOK
  <2>2. \A r \in Buffered(k) : r.seq = pubseq'[r.fact] /\ k.pos < r.seq /\ r.seq <= k.next
    <3> TAKE r \in Buffered(k)
    <3>1. r.fact \in Facts /\ r.seq = pubseq[r.fact] /\ r.seq > 0 /\ k.pos < r.seq /\ r.seq <= k.next
        BY <1>3, <2>1 DEF ResponseOK, Buffered, Row
    <3> QED  BY <1>2, <3>1
  <2>3. ASSUME ~k.closed, NEW f \in Visible[c][k.rev], 0 < pubseq'[f], pubseq'[f] <= k.next
        PROVE  f \in k.view \/ \E r \in Buffered(k) : r.fact = f
    <3>1. pubseq'[f] = pubseq[f]
        BY <1>2, <1>3, <1>4, <2>1, <2>3 DEF ResponseOK
    <3> QED  BY <2>1, <2>3, <3>1 DEF ResponseOK, OnItsWay
  <2>4. k.pos <= k.next /\ k.next <= high' /\ \A r \in k.hand, q \in k.queue : r.seq < q.seq
      BY <1>2, <1>3, <2>1 DEF ResponseOK
  <2> QED  BY <1>1, <2>2, <2>3, <2>4 DEF ResponseOK, OnItsWay, Buffered
<1>7. LateOK(k, auth[c])'
    BY <1>1, <1>2, <1>3 DEF ClientOK, LateOK
<1>8. k.pos <= high'
    BY <1>2, <1>3
<1>9. k.st # "open" => k.queue = {} /\ k.hand = {} /\ ~k.closed /\ k.late = 0 /\ ~k.checked
    BY <1>1 DEF ClientOK
<1>10. ClientOK(c, k)'
    BY <1>1, <1>5, <1>6, <1>7, <1>8, <1>9 DEF ClientOK
<1> QED  BY <1>10 DEF k

-----------------------------------------------------------------------------
(* A client's own steps.                                                     *)
LEMMA SetInv ==
  ASSUME EventInv, NEW c \in Clients, NEW k \in ClientRec, Set(c, k),
         \A r, q \in k.hand : r = q,
         ClientOK(c, k)
  PROVE  EventInv'
<1>1. /\ client' = [client EXCEPT ![c] = k]
      /\ UNCHANGED <<sourceVars, pubseq, clockVars, pubVars, auth, faults>>
    BY DEF Set
<1>2. TypeOK'
    BY <1>1 DEF EventInv, TypeOK, sourceVars, clockVars, pubVars
<1>3. StoreInv'
    BY <1>1 DEF EventInv, StoreInv, StreamContiguous, PublishedOnce, BatchOK, Recorded, Seqs,
                sourceVars, clockVars, pubVars
<1>4. ASSUME NEW d \in Clients PROVE ClientOK(d, client[d])'
  <2>1. PICK j : j = client'[d] /\ ClientOK(d, j)
      BY <1>1 DEF EventInv, TypeOK, ClientInv
  <2> QED  BY <1>1, <2>1 DEF ClientOK, Told, ResponseOK, OnItsWay, Buffered, LateOK,
                             sourceVars, clockVars
<1> QED  BY <1>2, <1>3, <1>4 DEF EventInv, ClientInv

(* The parts of a client's record that the steps below need.                 *)
LEMMA ClientTypes ==
  ASSUME EventInv, NEW c \in Clients
  PROVE  LET k == client[c] IN
         /\ k \in ClientRec
         /\ ClientOK(c, k)
         /\ \A r, q \in k.hand : r = q
         /\ auth[c] \in 0..MaxAuth /\ MaxAuth \in Nat
         /\ high \in Nat /\ pubseq \in [Facts -> Nat] /\ stream \subseteq Row
         /\ \A a \in 0..MaxAuth : Visible[c][a] \subseteq Facts
BY VisibleAssumption, BoundsAssumption DEF EventInv, TypeOK, ClientInv

LEMMA SnapshotInv ==
  ASSUME EventInv, NEW c \in Clients, Snapshots(c)
  PROVE  EventInv' /\ client'[c].pos >= client[c].pos
<1> DEFINE k == client[c]
<1>0. /\ k \in ClientRec /\ ClientOK(c, k) /\ \A r, q \in k.hand : r = q
      /\ auth[c] \in 0..MaxAuth /\ MaxAuth \in Nat
      /\ high \in Nat /\ pubseq \in [Facts -> Nat]
      /\ \A a \in 0..MaxAuth : Visible[c][a] \subseteq Facts
      /\ k.pos \in Nat
    BY ClientTypes DEF ClientRec
<1>c. client \in [Clients -> ClientRec]
    BY DEF EventInv, TypeOK
<1> HIDE DEF k
<1>1. CASE SnapshotCut(c)
  <2> DEFINE j == [k EXCEPT !.st = "cut", !.rev = auth[c], !.pos = high,
                     !.view = Recorded \cap Visible[c][auth[c]]]
  <2>1. k.st \in {"none", "ready"} /\ Set(c, j)
      BY <1>1 DEF SnapshotCut, k
  <2>2. j \in ClientRec /\ j.pos = high /\ j.rev = auth[c] /\ j.st = "cut" /\ j.hand = k.hand
        /\ j.view = Recorded \cap Visible[c][auth[c]]
        /\ j.queue = k.queue /\ j.closed = k.closed /\ j.late = k.late /\ j.checked = k.checked
      BY <1>0 DEF ClientRec
  <2> HIDE DEF j
  <2>3. Told(c, j)
    <3> SUFFICES ASSUME NEW f \in Visible[c][auth[c]], 0 < pubseq[f] PROVE f \in Recorded
        BY <2>2 DEF Told
    <3> QED  BY <1>0 DEF EventInv, StoreInv, PublishedOnce
  <2>4. ClientOK(c, j)
      BY <1>0, <2>1, <2>2, <2>3 DEF ClientOK, LateOK
  <2>5. client'[c] = j /\ k.pos <= high
      BY <1>0, <1>c, <2>1 DEF Set, ClientOK
  <2> QED  BY <1>0, <2>1, <2>2, <2>4, <2>5, SetInv DEF k
<1>2. CASE SnapshotReturns(c)
  <2> DEFINE j == [k EXCEPT !.st = "ready"]
  <2>1. k.st = "cut" /\ Set(c, j)
      BY <1>2 DEF SnapshotReturns, k
  <2>2. j \in ClientRec /\ j.hand = k.hand /\ j.pos = k.pos
      BY <1>0 DEF ClientRec
  <2>3. ClientOK(c, j)
      BY <1>0, <2>1 DEF ClientOK, Told, LateOK, ClientRec
  <2>4. client'[c] = j
      BY <1>c, <2>1 DEF Set
  <2> HIDE DEF j
  <2> QED  BY <1>0, <2>1, <2>2, <2>3, <2>4, SetInv DEF k
<1>3. CASE SnapshotFails(c)
  <2> DEFINE j == [k EXCEPT !.st = "none"]
  <2>1. k.st = "cut" /\ Set(c, j)
      BY <1>3 DEF SnapshotFails, k
  <2>2. j \in ClientRec /\ j.hand = k.hand /\ j.pos = k.pos
      BY <1>0 DEF ClientRec
  <2>3. ClientOK(c, j)
      BY <1>0, <2>1 DEF ClientOK, Told, LateOK, ClientRec
  <2>4. client'[c] = j
      BY <1>c, <2>1 DEF Set
  <2> HIDE DEF j
  <2> QED  BY <1>0, <2>1, <2>2, <2>3, <2>4, SetInv DEF k
<1> QED  BY <1>1, <1>2, <1>3 DEF Snapshots

(* A read above the replay boundary misses nothing: every visible fact       *)
(* published after the position and up to the last record is in the batch.   *)
LEMMA BatchComplete ==
  ASSUME EventInv, NEW c \in Clients, NEW position \in Nat, NEW last \in Nat,
         position >= retained, client[c].rev \in 0..MaxAuth
  PROVE  /\ Batch(c, position, last) \subseteq Row
         /\ \A r \in Batch(c, position, last) :
              r.seq = pubseq[r.fact] /\ position < r.seq /\ r.seq <= last
         /\ \A f \in Visible[c][client[c].rev] :
              position < pubseq[f] /\ pubseq[f] <= last =>
                \E r \in Batch(c, position, last) : r.fact = f
<1>1. /\ Batch(c, position, last) \subseteq stream /\ stream \subseteq Row
      /\ \A r \in Batch(c, position, last) : position < r.seq /\ r.seq <= last
    BY DEF Batch, EventInv, TypeOK
<1>2. \A r \in stream : r.seq = pubseq[r.fact]
    BY DEF EventInv, StoreInv, PublishedOnce
<1>3. ASSUME NEW f \in Visible[c][client[c].rev], position < pubseq[f], pubseq[f] <= last
      PROVE  \E r \in Batch(c, position, last) : r.fact = f
  <2>1. f \in Facts
      BY VisibleAssumption
  <2>2. pubseq[f] \in Nat /\ retained \in Nat
      BY <2>1 DEF EventInv, TypeOK
  <2>3. [seq |-> pubseq[f], fact |-> f] \in stream
      BY <1>3, <2>1, <2>2 DEF EventInv, StoreInv, PublishedOnce
  <2>4. [seq |-> pubseq[f], fact |-> f] \in Batch(c, position, last)
      BY <1>3, <2>3 DEF Batch
  <2> QED  BY <2>4
<1> QED  BY <1>1, <1>2, <1>3

LEMMA ConnectInv ==
  ASSUME EventInv, NEW c \in Clients, Connect(c)
  PROVE  EventInv' /\ client'[c].pos >= client[c].pos
<1> DEFINE k == client[c]
<1>0. /\ k \in ClientRec /\ ClientOK(c, k)
      /\ high \in Nat /\ pubseq \in [Facts -> Nat]
      /\ \A a \in 0..MaxAuth : Visible[c][a] \subseteq Facts
      /\ k.pos \in Nat /\ k.rev \in 0..MaxAuth /\ k.pos <= high
    BY ClientTypes DEF ClientRec, ClientOK
<1>c. client \in [Clients -> ClientRec]
    BY DEF EventInv, TypeOK
<1>1. k.st = "ready" /\ k.pos >= retained
    BY DEF Connect, CursorGood
<1>2. PICK last \in Seqs \cup {k.pos} :
        /\ IF \E s \in Seqs : s > k.pos THEN Reads(k.pos, QueueLimit, last) ELSE last = k.pos
        /\ Set(c, [k EXCEPT !.st = "open", !.next = last, !.queue = Batch(c, k.pos, last)])
    BY DEF Connect
<1> DEFINE B == Batch(c, k.pos, last)
           j == [k EXCEPT !.st = "open", !.next = last, !.queue = B]
<1>3. last \in Nat /\ k.pos <= last /\ last <= high
  <2>1. Seqs = (retained + 1)..high /\ retained \in Nat
      BY DEF EventInv, StoreInv, StreamContiguous, TypeOK
  <2>2. CASE last = k.pos
      BY <1>0, <2>2
  <2>3. CASE last # k.pos
      BY <1>0, <1>2, <2>1, <2>3 DEF Reads
  <2> QED  BY <2>2, <2>3
<1>4. /\ B \subseteq Row
      /\ \A r \in B : r.seq = pubseq[r.fact] /\ k.pos < r.seq /\ r.seq <= last
      /\ \A f \in Visible[c][k.rev] :
           k.pos < pubseq[f] /\ pubseq[f] <= last => \E r \in B : r.fact = f
    BY <1>0, <1>1, <1>3, BatchComplete
<1>5. Set(c, j)
    BY <1>2
<1> HIDE DEF k, B
<1>6. k.queue = {} /\ k.hand = {} /\ ~k.closed /\ k.late = 0 /\ ~k.checked /\ Told(c, k)
      /\ k.rev <= auth[c]
    BY <1>0, <1>1 DEF ClientOK, LateOK
<1>7. /\ j \in ClientRec /\ j.st = "open" /\ j.next = last /\ j.queue = B /\ j.hand = {}
      /\ j.pos = k.pos /\ j.rev = k.rev /\ j.view = k.view /\ ~j.closed /\ j.late = 0
      /\ ~j.checked
    BY <1>0, <1>3, <1>4, <1>6 DEF ClientRec
<1>8. client'[c] = j
    BY <1>c, <1>5 DEF Set
<1> HIDE DEF j
<1>9. OnItsWay(c, j)
  <2> SUFFICES ASSUME NEW f \in Visible[c][k.rev], 0 < pubseq[f], pubseq[f] <= last
               PROVE  f \in k.view \/ \E r \in B : r.fact = f
      BY <1>7 DEF OnItsWay, Buffered
  <2>1. f \in Facts /\ pubseq[f] \in Nat
      BY <1>0
  <2> QED  BY <1>0, <1>3, <1>4, <1>6, <2>1 DEF Told
<1>10. ResponseOK(c, j)
    BY <1>3, <1>4, <1>7, <1>9 DEF ResponseOK, Buffered
<1>11. ClientOK(c, j)
    BY <1>0, <1>6, <1>7, <1>10 DEF ClientOK, LateOK, Told
<1> QED  BY <1>0, <1>5, <1>7, <1>8, <1>11, SetInv DEF k

LEMMA FetchInv ==
  ASSUME EventInv, NEW c \in Clients, Fetch(c)
  PROVE  EventInv' /\ client'[c].pos >= client[c].pos
<1> DEFINE k == client[c]
<1>0. /\ k \in ClientRec /\ ClientOK(c, k) /\ \A r, q \in k.hand : r = q
      /\ high \in Nat /\ pubseq \in [Facts -> Nat]
      /\ \A a \in 0..MaxAuth : Visible[c][a] \subseteq Facts
      /\ k.pos \in Nat /\ k.next \in Nat /\ k.rev \in 0..MaxAuth
      /\ k.queue \subseteq Row /\ k.hand \subseteq Row
    BY ClientTypes DEF ClientRec
<1>c. client \in [Clients -> ClientRec]
    BY DEF EventInv, TypeOK
<1>1. k.st = "open" /\ ~k.closed /\ k.next >= retained
    BY DEF Fetch, CursorGood
<1>2. PICK last \in Seqs :
        /\ Reads(k.next, QueueLimit - Cardinality(k.queue), last)
        /\ Set(c, [k EXCEPT !.next = last, !.queue = @ \cup Batch(c, k.next, last)])
    BY DEF Fetch
<1> DEFINE B == Batch(c, k.next, last)
           j == [k EXCEPT !.next = last, !.queue = @ \cup B]
<1>3. last \in Nat /\ k.next < last /\ last <= high
  <2>1. Seqs = (retained + 1)..high /\ retained \in Nat
      BY DEF EventInv, StoreInv, StreamContiguous, TypeOK
  <2> QED  BY <1>0, <1>2, <2>1 DEF Reads
<1>4. /\ B \subseteq Row
      /\ \A r \in B : r.seq = pubseq[r.fact] /\ k.next < r.seq /\ r.seq <= last
      /\ \A f \in Visible[c][k.rev] :
           k.next < pubseq[f] /\ pubseq[f] <= last => \E r \in B : r.fact = f
    BY <1>0, <1>1, <1>3, BatchComplete
<1>5. Set(c, j)
    BY <1>2
<1> HIDE DEF k, B
<1>6. ResponseOK(c, k) /\ OnItsWay(c, k) /\ Told(c, k) /\ LateOK(k, auth[c])
    BY <1>0, <1>1 DEF ClientOK, ResponseOK
<1>7. /\ j \in ClientRec /\ j.st = "open" /\ j.next = last /\ j.queue = k.queue \cup B
      /\ j.hand = k.hand /\ j.pos = k.pos /\ j.rev = k.rev /\ j.view = k.view
      /\ j.late = k.late /\ j.checked = k.checked /\ j.closed = k.closed
    BY <1>0, <1>1, <1>3, <1>4 DEF ClientRec
<1>8. client'[c] = j
    BY <1>c, <1>5 DEF Set
<1> HIDE DEF j
<1>9. OnItsWay(c, j)
  <2> SUFFICES ASSUME NEW f \in Visible[c][k.rev], 0 < pubseq[f], pubseq[f] <= last
               PROVE  f \in k.view \/ \E r \in Buffered(j) : r.fact = f
      BY <1>7 DEF OnItsWay
  <2>1. f \in Facts /\ pubseq[f] \in Nat
      BY <1>0
  <2>2. Buffered(j) = Buffered(k) \cup B
      BY <1>7 DEF Buffered
  <2>3. CASE pubseq[f] <= k.next
      BY <1>6, <2>2, <2>3 DEF OnItsWay
  <2>4. CASE k.next < pubseq[f]
      BY <1>4, <2>2, <2>4
  <2> QED  BY <1>0, <2>1, <2>3, <2>4
<1>10. ResponseOK(c, j)
  <2>1. ASSUME NEW r \in Buffered(j)
        PROVE  r.seq = pubseq[r.fact] /\ j.pos < r.seq /\ r.seq <= j.next
    <3>1. CASE r \in B
        BY <1>0, <1>4, <1>6, <1>7, <3>1 DEF ResponseOK, Row
    <3>2. CASE r \in Buffered(k)
      <4>1. r.seq \in Nat /\ r.seq = pubseq[r.fact] /\ k.pos < r.seq /\ r.seq <= k.next
          BY <1>0, <1>6, <3>2 DEF ResponseOK, Buffered, Row
      <4> QED  BY <1>0, <1>3, <1>7, <4>1
    <3> QED  BY <1>7, <3>1, <3>2 DEF Buffered
  <2>2. ASSUME NEW r \in k.hand, NEW q \in k.queue \cup B PROVE r.seq < q.seq
    <3>1. r.seq \in Nat /\ q.seq \in Nat /\ r.seq <= k.next
        BY <1>0, <1>4, <1>6 DEF ResponseOK, Buffered, Row
    <3> QED  BY <1>0, <1>4, <1>6, <3>1 DEF ResponseOK
  <2>3. j.pos <= j.next /\ j.next <= high
      BY <1>0, <1>3, <1>6, <1>7 DEF ResponseOK
  <2> QED  BY <1>7, <1>9, <2>1, <2>2, <2>3 DEF ResponseOK
<1>11. ClientOK(c, j)
    BY <1>0, <1>6, <1>7, <1>10 DEF ClientOK, LateOK, Told
<1> QED  BY <1>0, <1>5, <1>7, <1>8, <1>11, SetInv DEF k

(* The steps that only end something: a refusal, the end of a response.      *)
LEMMA EndingInv ==
  ASSUME EventInv, NEW c \in Clients,
         \/ ConnectRefused(c) \/ FetchRefused(c) \/ ProducerEnds(c)
         \/ EndStream(c) \/ Disconnect(c)
  PROVE  EventInv' /\ client'[c].pos >= client[c].pos
<1> DEFINE k == client[c]
<1>0. /\ k \in ClientRec /\ ClientOK(c, k) /\ \A r, q \in k.hand : r = q
      /\ k.pos \in Nat
    BY ClientTypes DEF ClientRec
<1>c. client \in [Clients -> ClientRec]
    BY DEF EventInv, TypeOK
<1>1. CASE ConnectRefused(c)
  <2> DEFINE j == [k EXCEPT !.st = "none"]
  <2>1. k.st = "ready" /\ Set(c, j)
      BY <1>1 DEF ConnectRefused
  <2> HIDE DEF k
  <2>2. j \in ClientRec /\ j.hand = k.hand /\ j.pos = k.pos
      BY <1>0 DEF ClientRec
  <2>3. ClientOK(c, j)
      BY <1>0, <2>1 DEF ClientOK, Told, LateOK, ClientRec
  <2>4. client'[c] = j
      BY <1>c, <2>1 DEF Set
  <2> HIDE DEF j
  <2> QED  BY <1>0, <2>1, <2>2, <2>3, <2>4, SetInv DEF k
<1>2. CASE FetchRefused(c) \/ ProducerEnds(c)
  <2> DEFINE j == [k EXCEPT !.closed = TRUE, !.queue = {}]
  <2>1. k.st = "open" /\ Set(c, j)
      BY <1>2 DEF FetchRefused, ProducerEnds, Ending
  <2> HIDE DEF k
  <2>2. /\ j \in ClientRec /\ j.hand = k.hand /\ j.pos = k.pos /\ j.next = k.next
        /\ j.closed = TRUE /\ j.queue = {} /\ j.st = "open" /\ j.rev = k.rev
        /\ j.view = k.view /\ j.late = k.late /\ j.checked = k.checked
      BY <1>0, <2>1 DEF ClientRec
  <2>4. client'[c] = j
      BY <1>c, <2>1 DEF Set
  <2> HIDE DEF j
  <2>3. ClientOK(c, j)
    <3>1. ResponseOK(c, j)
        BY <1>0, <2>1, <2>2 DEF ClientOK, ResponseOK, Buffered
    <3> QED  BY <1>0, <2>1, <2>2, <3>1 DEF ClientOK, Told, LateOK
  <2> QED  BY <1>0, <2>1, <2>2, <2>3, <2>4, SetInv DEF k
<1>3. CASE EndStream(c) \/ Disconnect(c)
  <2> DEFINE j == Closed(k)
  <2>1. k.st = "open" /\ Set(c, j)
      BY <1>3 DEF EndStream, Disconnect
  <2> HIDE DEF k
  <2>2. /\ j \in ClientRec /\ j.hand = {} /\ j.pos = k.pos /\ j.rev = k.rev
        /\ ~j.closed /\ j.queue = {} /\ j.st = "ready" /\ j.view = k.view
        /\ j.late = 0 /\ ~j.checked
      BY <1>0, <2>1 DEF ClientRec, Closed, NoHand
  <2>4. client'[c] = j
      BY <1>c, <2>1 DEF Set
  <2> HIDE DEF j
  <2>3. ClientOK(c, j)
      BY <1>0, <2>1, <2>2 DEF ClientOK, Told, LateOK
  <2> QED  BY <1>0, <2>1, <2>2, <2>3, <2>4, SetInv DEF k
<1> QED  BY <1>1, <1>2, <1>3

(* The consumer.  Taking the least sequence keeps what is left above it, so  *)
(* that the cursor of an emitted event covers everything up to it.           *)
LEMMA ConsumerInv ==
  ASSUME EventInv, NEW c \in Clients, Take(c) \/ Check(c) \/ Emit(c)
  PROVE  EventInv' /\ client'[c].pos >= client[c].pos
<1> DEFINE k == client[c]
<1>0. /\ k \in ClientRec /\ ClientOK(c, k) /\ \A r, q \in k.hand : r = q
      /\ auth[c] \in Nat /\ high \in Nat /\ pubseq \in [Facts -> Nat]
      /\ \A a \in 0..MaxAuth : Visible[c][a] \subseteq Facts
      /\ k.pos \in Nat /\ k.next \in Nat /\ k.rev \in 0..MaxAuth /\ k.rev \in Nat
      /\ k.queue \subseteq Row /\ k.hand \subseteq Row /\ k.late \in Nat
      /\ k.view \subseteq Facts
    BY ClientTypes DEF ClientRec
<1>c. client \in [Clients -> ClientRec]
    BY DEF EventInv, TypeOK
<1>o. k.st = "open"
    BY DEF Take, Check, Emit
<1>r. ResponseOK(c, k) /\ Told(c, k) /\ LateOK(k, auth[c])
    BY <1>0, <1>o DEF ClientOK
<1>1. CASE Take(c)
  <2>1. PICK r \in k.queue :
          /\ \A q \in k.queue : r.seq <= q.seq
          /\ Set(c, [k EXCEPT !.hand = {r}, !.queue = @ \ {r}, !.checked = FALSE])
      BY <1>1 DEF Take
  <2>n. k.hand = {}
      BY <1>1 DEF Take, NoHand
  <2> DEFINE j == [k EXCEPT !.hand = {r}, !.queue = @ \ {r}, !.checked = FALSE]
  <2>2. Set(c, j)
      BY <2>1
  <2> HIDE DEF k
  <2>3. /\ j \in ClientRec /\ j.hand = {r} /\ j.queue = k.queue \ {r} /\ j.checked = FALSE
        /\ j.pos = k.pos /\ j.next = k.next /\ j.rev = k.rev /\ j.view = k.view
        /\ j.st = "open" /\ j.closed = k.closed /\ j.late = k.late
      BY <1>0, <1>o, <2>1 DEF ClientRec
  <2>4. client'[c] = j
      BY <1>c, <2>2 DEF Set
  <2> HIDE DEF j
  <2>5. Buffered(j) = Buffered(k)
      BY <2>1, <2>n, <2>3 DEF Buffered
  <2>6. ASSUME NEW q \in j.queue PROVE r.seq < q.seq
    <3>1. r \in Row /\ q \in Row /\ q # r /\ r.seq <= q.seq /\ r.seq = pubseq[r.fact]
          /\ q.seq = pubseq[q.fact] /\ r.seq > 0
        BY <1>0, <1>r, <2>1, <2>3 DEF ResponseOK, Buffered, Row
    <3>2. r.seq # q.seq
      <4>1. r.seq = q.seq => r.fact = q.fact
          BY <3>1 DEF EventInv, StoreInv, PublishedOnce, Row
      <4> QED  BY <3>1, <4>1 DEF Row
    <3> QED  BY <3>1, <3>2 DEF Row
  <2>7. ResponseOK(c, j)
      BY <1>r, <2>3, <2>5, <2>6 DEF ResponseOK, OnItsWay
  <2>8. ClientOK(c, j)
      BY <1>0, <1>r, <2>3, <2>7 DEF ClientOK, Told, LateOK
  <2> QED  BY <1>0, <2>2, <2>3, <2>4, <2>8, SetInv DEF k
<1>2. CASE Check(c)
  <2> DEFINE j == [k EXCEPT !.checked = TRUE]
  <2>1. Set(c, j) /\ auth[c] = k.rev
      BY <1>2 DEF Check
  <2> HIDE DEF k
  <2>2. /\ j \in ClientRec /\ j.hand = k.hand /\ j.queue = k.queue /\ j.st = "open"
        /\ j.pos = k.pos /\ j.next = k.next /\ j.rev = k.rev /\ j.view = k.view
        /\ j.closed = k.closed /\ j.late = k.late
      BY <1>0, <1>o DEF ClientRec
  <2>3. client'[c] = j
      BY <1>c, <2>1 DEF Set
  <2> HIDE DEF j
  <2>4. ResponseOK(c, j)
      BY <1>r, <2>2 DEF ResponseOK, OnItsWay, Buffered
  <2>5. ClientOK(c, j)
      BY <1>0, <1>r, <2>1, <2>2, <2>4 DEF ClientOK, Told, LateOK
  <2> QED  BY <1>0, <2>1, <2>2, <2>3, <2>5, SetInv DEF k
<1>3. CASE Emit(c)
  <2>1. PICK r \in k.hand :
          Set(c, [k EXCEPT !.view = @ \cup {r.fact}, !.pos = r.seq, !.hand = NoHand,
                    !.checked = FALSE, !.late = IF auth[c] = k.rev THEN @ ELSE @ + 1])
      BY <1>3 DEF Emit
  <2>2. k.checked /\ ~k.closed
      BY <1>3 DEF Emit
  <2> DEFINE j == [k EXCEPT !.view = @ \cup {r.fact}, !.pos = r.seq, !.hand = NoHand,
                     !.checked = FALSE, !.late = IF auth[c] = k.rev THEN @ ELSE @ + 1]
  <2>3. Set(c, j)
      BY <2>1
  <2> HIDE DEF k
  <2>4. r \in Row /\ r.seq \in Nat /\ r.fact \in Facts /\ k.hand = {r}
      BY <1>0, <2>1 DEF Row
  <2>5. k.pos < r.seq /\ r.seq <= k.next /\ k.next <= high /\ r.seq = pubseq[r.fact]
      BY <1>r, <2>1 DEF ResponseOK, Buffered
  <2>6. /\ j \in ClientRec /\ j.hand = {} /\ j.queue = k.queue /\ j.st = "open"
        /\ j.pos = r.seq /\ j.next = k.next /\ j.rev = k.rev /\ j.view = k.view \cup {r.fact}
        /\ ~j.closed /\ ~j.checked
        /\ j.late = IF auth[c] = k.rev THEN k.late ELSE k.late + 1
    <3>1. k.view \cup {r.fact} \in SUBSET Facts /\ {} \in SUBSET Row
        BY <1>0, <2>4
    <3>2. (IF auth[c] = k.rev THEN k.late ELSE k.late + 1) \in Nat
        BY <1>0
    <3> QED  BY <1>0, <1>o, <2>2, <2>4, <3>1, <3>2 DEF ClientRec, NoHand
  <2>7. client'[c] = j
      BY <1>c, <2>3 DEF Set
  <2> HIDE DEF j
  <2>8. OnItsWay(c, k)
      BY <1>r, <2>2 DEF ResponseOK
  <2>9. OnItsWay(c, j)
    <3>1. Buffered(k) = Buffered(j) \cup {r}
        BY <2>4, <2>6 DEF Buffered
    <3> QED  BY <2>6, <2>8, <3>1 DEF OnItsWay
  <2>10. \A q \in k.queue : r.seq < q.seq /\ q.seq = pubseq[q.fact] /\ q.seq <= k.next
      BY <1>r, <2>1 DEF ResponseOK, Buffered
  <2>11. Told(c, j)
    <3> SUFFICES ASSUME NEW f \in Visible[c][k.rev], 0 < pubseq[f], pubseq[f] <= r.seq
                 PROVE  f \in k.view \cup {r.fact}
        BY <2>6 DEF Told
    <3>1. f \in Facts /\ pubseq[f] \in Nat
        BY <1>0
    <3>2. f \in j.view \/ \E q \in j.queue : q.fact = f
        BY <1>0, <2>4, <2>5, <2>6, <2>9, <3>1 DEF OnItsWay, Buffered
    <3>3. ~\E q \in j.queue : q.fact = f
        BY <2>4, <2>6, <2>10, <3>1
    <3> QED  BY <2>6, <3>2, <3>3
  <2>12. ResponseOK(c, j)
      BY <2>4, <2>5, <2>6, <2>9, <2>10 DEF ResponseOK, Buffered
  <2>13. LateOK(j, auth[c])
      BY <1>0, <1>r, <2>2, <2>6 DEF LateOK
  <2>14. ClientOK(c, j)
      BY <1>0, <2>4, <2>5, <2>6, <2>11, <2>12, <2>13 DEF ClientOK
  <2>15. j.pos >= k.pos
      BY <1>0, <2>4, <2>5, <2>6
  <2> QED  BY <2>3, <2>6, <2>7, <2>14, <2>15, SetInv DEF k
<1> QED  BY <1>1, <1>2, <1>3

-----------------------------------------------------------------------------
(* What a step does to a client's cursor and to the stored rows.             *)
StepKeeps ==
  /\ \A c \in Clients : client'[c].pos >= client[c].pos
  /\ Seqs \ Seqs' \subseteq aged

LEMMA NextInv ==
  ASSUME EventInv, [Next]_vars
  PROVE  EventInv' /\ StepKeeps
<1> USE DEF EventInv
<1>0. \A c \in Clients : client[c].pos \in Nat
    BY DEF TypeOK, ClientRec
<1>a. \A c \in Clients : auth[c] \in Nat
    BY BoundsAssumption DEF TypeOK
<1>h. high \in Nat
    BY DEF TypeOK
<1>1. ASSUME NEW f \in Facts, Source(f) PROVE EventInv' /\ StepKeeps
  <2>1. TypeOK' /\ StoreInv' /\ UNCHANGED <<pubseq, clockVars, pubVars, auth, client>>
      BY <1>1, SourceType, SourceStore, SourceKeeps
  <2>2. ClientInv'
      BY <1>a, <1>h, <2>1, StoreMoves DEF clockVars
  <2> QED  BY <1>0, <2>1, <2>2 DEF StepKeeps, clockVars, Seqs
<1>2. ASSUME NEW p \in Publishers, Publisher(p) PROVE EventInv' /\ StepKeeps
  <2>1. CASE PublishSelect(p)
    <3>1. TypeOK' /\ StoreInv' /\ UNCHANGED <<sourceVars, pubseq, clockVars, auth, client, faults>>
        BY <2>1, SelectInv
    <3>2. ClientInv'
        BY <1>a, <1>h, <3>1, StoreMoves DEF clockVars
    <3> QED  BY <1>0, <3>1, <3>2 DEF StepKeeps, clockVars, Seqs
  <2>2. CASE PublishRollback(p)
    <3>1. TypeOK' /\ StoreInv' /\ UNCHANGED <<sourceVars, pubseq, clockVars, auth, client>>
        BY <2>2, RollbackInv
    <3>2. ClientInv'
        BY <1>a, <1>h, <3>1, StoreMoves DEF clockVars
    <3> QED  BY <1>0, <3>1, <3>2 DEF StepKeeps, clockVars, Seqs
  <2>3. CASE PublishCommit(p)
    <3>1. TypeOK' /\ StoreInv'
        BY <2>3, CommitInv
    <3>2. UNCHANGED <<auth, client>> /\ stream \subseteq stream'
        BY <2>3 DEF PublishCommit
    <3>3. /\ high' >= high
          /\ \A f \in Facts : pubseq'[f] = pubseq[f] \/ (pubseq[f] = 0 /\ pubseq'[f] > high)
        BY <1>h, <2>3, CommitNumbers
    <3>4. ClientInv'
        BY <1>a, <3>1, <3>2, <3>3, StoreMoves
    <3> QED  BY <1>0, <3>1, <3>2, <3>4 DEF StepKeeps, Seqs
  <2> QED  BY <1>2, <2>1, <2>2, <2>3 DEF Publisher
<1>3. ASSUME NEW s \in Seqs, Age(s) PROVE EventInv' /\ StepKeeps
  <2>1. TypeOK' /\ StoreInv' /\ UNCHANGED <<sourceVars, pubseq, stream, high, auth, client>>
      BY <1>3, AgeInv
  <2>2. ClientInv'
      BY <1>a, <1>h, <2>1, StoreMoves
  <2> QED  BY <1>0, <2>1, <2>2 DEF StepKeeps, Seqs
<1>4. ASSUME Purge PROVE EventInv' /\ StepKeeps
  <2>1. /\ TypeOK' /\ StoreInv' /\ UNCHANGED <<sourceVars, pubseq, high, auth, client>>
        /\ Seqs \ Seqs' \subseteq aged
      BY <1>4, PurgeInv
  <2>2. ClientInv'
      BY <1>a, <1>h, <2>1, StoreMoves
  <2> QED  BY <1>0, <2>1, <2>2 DEF StepKeeps
<1>5. ASSUME NEW c \in Clients, AuthChange(c) PROVE EventInv' /\ StepKeeps
  <2>1. /\ auth' = [auth EXCEPT ![c] = @ + 1] /\ auth[c] < MaxAuth
        /\ UNCHANGED <<sourceVars, pubseq, clockVars, pubVars, client, faults>>
      BY <1>5 DEF AuthChange
  <2>2. TypeOK'
      BY <2>1, BoundsAssumption DEF TypeOK, sourceVars, clockVars, pubVars
  <2>3. StoreInv'
      BY <2>1 DEF StoreInv, StreamContiguous, PublishedOnce, BatchOK, Recorded, Seqs,
                  sourceVars, clockVars, pubVars
  <2>4. \A d \in Clients : auth'[d] >= auth[d]
      BY <1>a, <2>1 DEF TypeOK
  <2>5. ClientInv'
      BY <1>h, <2>1, <2>2, <2>4, StoreMoves DEF clockVars
  <2> QED  BY <1>0, <2>1, <2>2, <2>3, <2>5 DEF StepKeeps, clockVars, Seqs
<1>6. ASSUME NEW c \in Clients, Snapshots(c) \/ Follow(c) PROVE EventInv' /\ StepKeeps
  <2>1. EventInv' /\ client'[c].pos >= client[c].pos
      BY <1>6, SnapshotInv, ConnectInv, FetchInv, EndingInv, ConsumerInv DEF Follow
  <2>2. PICK k : Set(c, k)
    <3>1. CASE Snapshots(c)
        BY <3>1 DEF Snapshots, SnapshotCut, SnapshotReturns, SnapshotFails
    <3>2. CASE Connect(c) \/ Fetch(c)
        BY <3>2 DEF Connect, Fetch
    <3>3. CASE \/ ConnectRefused(c) \/ FetchRefused(c) \/ ProducerEnds(c)
               \/ EndStream(c) \/ Disconnect(c)
        BY <3>3 DEF ConnectRefused, FetchRefused, ProducerEnds, EndStream, Disconnect
    <3>4. CASE Take(c) \/ Check(c) \/ Emit(c)
        BY <3>4 DEF Take, Check, Emit
    <3> QED  BY <1>6, <3>1, <3>2, <3>3, <3>4 DEF Follow
  <2>3. \A d \in Clients : d # c => client'[d] = client[d]
      BY <2>2 DEF Set, TypeOK
  <2>4. stream' = stream
      BY <2>2 DEF Set, clockVars
  <2> QED  BY <1>0, <2>1, <2>3, <2>4 DEF StepKeeps, Seqs
<1>7. ASSUME UNCHANGED vars PROVE EventInv' /\ StepKeeps
  <2>1. TypeOK'
      BY <1>7 DEF vars, TypeOK
  <2>2. StoreInv'
      BY <1>7 DEF vars, StoreInv, StreamContiguous, PublishedOnce, BatchOK, Recorded, Seqs
  <2>3. ClientInv'
      BY <1>a, <1>h, <1>7, <2>1, StoreMoves DEF vars
  <2> QED  BY <1>0, <1>7, <2>1, <2>2, <2>3 DEF StepKeeps, Seqs, vars
<1> QED  BY <1>1, <1>2, <1>3, <1>4, <1>5, <1>6, <1>7 DEF Next

-----------------------------------------------------------------------------
(* The inductive invariant holds in every reachable state.                   *)
THEOREM EventInvariant == Spec => []EventInv
<1>1. EventInv /\ [Next]_vars => EventInv'
    BY NextInv
<1> QED  BY <1>1, InitInv, PTL DEF Spec

(* The stream never has a hole and never holds a fact twice, for any number  *)
(* of publishers, source transactions and retention passes.                  *)
THEOREM Contiguous == Spec => []StreamConsistent
<1>1. EventInv => StreamConsistent
    BY DEF EventInv, StoreInv, StreamConsistent
<1> QED  BY <1>1, EventInvariant, PTL

(* A client that holds a cursor was told everything it may see up to it.     *)
THEOREM Complete == Spec => []NothingMissed
<1>1. EventInv => NothingMissed
    BY DEF EventInv, ClientInv, ClientOK, Told, NothingMissed
<1> QED  BY <1>1, EventInvariant, PTL

(* After a change of its authorization a response sends at most one event.   *)
THEOREM OneLate == Spec => []AtMostOneLate
<1>1. EventInv => AtMostOneLate
  <2> SUFFICES ASSUME EventInv, NEW c \in Clients PROVE client[c].late <= 1
      BY DEF AtMostOneLate
  <2>1. client[c].late = 0 \/ client[c].late = 1
      BY DEF EventInv, ClientInv, ClientOK, LateOK
  <2> QED  BY <2>1
<1> QED  BY <1>1, EventInvariant, PTL

(* A cursor never goes back, whatever the client does.                       *)
THEOREM CursorForward == Spec => CursorNeverGoesBack
<1>1. EventInv /\ [Next]_vars => [\A c \in Clients : client'[c].pos >= client[c].pos]_vars
    BY NextInv DEF StepKeeps
<1> QED  BY <1>1, EventInvariant, PTL DEF Spec, CursorNeverGoesBack

(* Retention removes expired records only.                                   *)
THEOREM ExpiredOnly == Spec => PurgesExpiredOnly
<1>1. EventInv /\ [Next]_vars => [Seqs \ Seqs' \subseteq aged]_vars
    BY NextInv DEF StepKeeps
<1> QED  BY <1>1, EventInvariant, PTL DEF Spec, PurgesExpiredOnly
=============================================================================
