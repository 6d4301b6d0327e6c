------------------------ MODULE LeasedEffects_proofs ------------------------
(* Proofs about LeasedEffects for any number of calls, operations, payloads  *)
(* and leases.  LockInv says who holds the two locks, LeaseInv that only the *)
(* newest lease can be current, StaleInv what a call may still store after   *)
(* its lease was superseded, and RecordInv how the stored records, the bytes *)
(* and the stage of the call that holds the file lock fit together.          *)
EXTENDS LeasedEffects, FiniteSetTheorems, TLAPS

LockInv ==
  \A t \in Threads :
    /\ thread[t].pc \in Stages <=> holder = t
    /\ thread[t].alive <=> lock = t
    /\ thread[t].alive => thread[t].pc # "idle"
    /\ thread[t].checked => thread[t].pc \in Stages

(* Generations are granted in order, and only the last one can be granted.   *)
LeaseInv ==
  /\ Newest \in 0..MaxLeases
  /\ \A g \in Generations : status[g] # "none" <=> g <= Newest
  /\ \A g \in Generations : status[g] = "granted" => g = Newest
  /\ \A t \in Threads : thread[t].pc # "idle" => thread[t].gen <= Newest
  /\ \A e \in execs : e[2] <= Newest

StaleInv ==
  /\ \/ stale = 0
     \/ stale = 1 /\ \A t \in Threads : thread[t].checked => thread[t].gen = Newest
  /\ \A t \in Threads : thread[t].checked => \A e \in execs : e[2] <= thread[t].gen

Executed(o) == \E g \in Generations : <<o, g>> \in execs

(* An intent names the pointer it was made for, and the bytes that pointer   *)
(* stands for: the ones of the operation it published, or no file.           *)
IntentOK(o) ==
  IF intent[o] = NoIntent
  THEN o \notin done /\ applied[o] = 0
  ELSE /\ payload[o] = intent[o].new
       /\ \/ intent[o].previous = NoPointer /\ intent[o].old = Nothing
          \/ \E p \in done : /\ intent[o].previous = Completed(p)
                             /\ intent[o].old = intent[p].new
       /\ o \notin done /\ pointer # Prepared(o) => applied[o] = 0

PointerOK ==
  \/ pointer = NoPointer /\ content = Nothing
  \/ \E p \in done : pointer = Completed(p) /\ content = intent[p].new
  \/ \E o \in Operations :
       /\ pointer = Prepared(o) /\ intent[o] # NoIntent
       /\ content \in {intent[o].old, intent[o].new}
       /\ o \in done => content = intent[o].new
       /\ content # intent[o].new => applied[o] = 0

(* What the call that holds the file lock has already stored.                *)
StageOK(t) ==
  LET c == thread[t]
      o == thread[t].op
  IN /\ c.pc \in {"payload", "intent"} => intent[o] = NoIntent /\ pointer.state # "prepared"
     /\ c.pc = "intent" => payload[o] = c.data
     /\ c.pc \in {"prepare", "execution", "apply", "complete"} =>
          intent[o] # NoIntent /\ c.data = intent[o].new /\ o \notin done
     /\ c.pc = "prepare" => pointer \in {intent[o].previous, Prepared(o)}
     /\ c.pc \in {"execution", "apply", "complete", "publish"} => pointer = Prepared(o)
     /\ c.pc \in {"apply", "complete"} => <<o, c.gen>> \in execs
     /\ c.pc = "apply" => content = intent[o].old /\ content # intent[o].new
     /\ c.pc = "complete" => content = intent[o].new
     /\ c.pc = "publish" => o \in done

RecordInv ==
  /\ \A o \in Operations : IntentOK(o)
  /\ PointerOK
  /\ \A t \in Threads : StageOK(t)
  /\ ExecutionIsRecorded

EffectsInv == TypeOK /\ LockInv /\ LeaseInv /\ StaleInv /\ RecordInv

-----------------------------------------------------------------------------
(* If the generations that were granted are those up to n, Newest is n.      *)
LEMMA NewestIs ==
  ASSUME NEW n \in 0..MaxLeases,
         \A g \in Generations : status[g] # "none" <=> g <= n
  PROVE  Newest = n
<1>1. {g \in Generations : status[g] # "none"} = 1..n
    BY LeaseBounds DEF Generations
<1>2. Cardinality(1..n) = n
    BY FS_Interval, LeaseBounds
<1> QED  BY <1>1, <1>2 DEF Newest

LEMMA NewestPrime ==
  ASSUME NEW n \in 0..MaxLeases,
         \A g \in Generations : status'[g] # "none" <=> g <= n
  PROVE  Newest' = n
<1>1. {g \in Generations : status'[g] # "none"} = 1..n
    BY LeaseBounds DEF Generations
<1>2. Cardinality(1..n) = n
    BY FS_Interval, LeaseBounds
<1> QED  BY <1>1, <1>2 DEF Newest, Generations

LEMMA InitInv == Init => EffectsInv
<1> SUFFICES ASSUME Init PROVE EffectsInv
    OBVIOUS
<1> USE LeaseBounds, NothingElse DEF Init
<1>1. TypeOK
    BY DEF TypeOK, Calls, Intents, Idle, NoIntent, NoPointer, Stages, Generations
<1>2. LockInv
    BY DEF LockInv, Idle, Stages
<1>3. Newest = 0
    BY NewestIs DEF Generations
<1>4. LeaseInv /\ StaleInv
    BY <1>3 DEF LeaseInv, StaleInv, Idle, Generations
<1>5. RecordInv
    BY DEF RecordInv, IntentOK, PointerOK, StageOK, ExecutionIsRecorded, Idle, Stages
<1> QED  BY <1>1, <1>2, <1>4, <1>5 DEF EffectsInv

-----------------------------------------------------------------------------
(* The lease commands touch no call and no record.                           *)
LEMMA RecordsKept ==
  ASSUME RecordInv, UNCHANGED <<thread, files, effect, applied>>
  PROVE  RecordInv'
BY DEF RecordInv, IntentOK, PointerOK, StageOK, ExecutionIsRecorded, files, Prepared, Completed,
       NoIntent, NoPointer

LEMMA AcquireInv ==
  ASSUME EffectsInv, Acquire
  PROVE  EffectsInv'
<1> USE LeaseBounds DEF EffectsInv
<1>0. UNCHANGED <<lock, holder, thread, files, effect, applied>> /\ stale' = 0
    BY DEF Acquire
<1>1. Newest + 1 \in Generations /\ Newest \in Nat
    BY DEF Acquire, LeaseInv, Generations
<1>2. TypeOK'
    BY <1>0, <1>1 DEF TypeOK, Acquire, files, Calls, Intents, Generations, Completed, NoIntent, NoPointer
<1>3. LockInv'
    BY <1>0 DEF LockInv
<1>4. \A g \in Generations : status'[g] # "none" <=> g <= Newest + 1
    BY <1>1 DEF Acquire, LeaseInv, Generations
<1>5. Newest' = Newest + 1
    BY <1>1, <1>4, NewestPrime DEF Generations
<1>6. \A g \in Generations : status'[g] = "granted" => g = Newest + 1
    BY <1>1 DEF Acquire
<1>7. LeaseInv'
  <2>1. \A t \in Threads : thread[t].gen \in Nat
      BY DEF TypeOK, Calls
  <2>2. \A e \in execs : e[2] \in Nat
      BY DEF TypeOK, Generations
  <2> QED  BY <1>0, <1>1, <1>4, <1>5, <1>6, <2>1, <2>2 DEF LeaseInv, files, Generations
<1>8. StaleInv'
    BY <1>0 DEF StaleInv, files
<1>9. RecordInv'
    BY <1>0, RecordsKept
<1> QED  BY <1>2, <1>3, <1>7, <1>8, <1>9

(* Renewing, closing, expiring and ageing a lease grants none.               *)
LEMMA LeaseStepInv ==
  ASSUME EffectsInv, NEW g \in Generations, Renew(g) \/ Close(g) \/ Expire(g) \/ Tick(g)
  PROVE  EffectsInv'
<1> USE LeaseBounds DEF EffectsInv
<1>0. UNCHANGED <<lock, holder, thread, files, effect, history>>
    BY DEF Renew, Close, Expire, Tick
<1>1. \A h \in Generations : /\ status'[h] # "none" <=> status[h] # "none"
                             /\ status'[h] = "granted" => status[h] = "granted"
    BY DEF TypeOK, Renew, Close, Expire, Tick, Current
<1>2. Newest' = Newest
    BY <1>1, NewestPrime DEF LeaseInv
<1>3. TypeOK'
  <2>1. status' \in [Generations -> {"none", "granted", "expired", "closed"}]
      BY DEF TypeOK, Renew, Close, Expire, Tick
  <2>2. left' \in [Generations -> 0..Ttl]
      BY DEF TypeOK, Renew, Close, Expire, Tick, Current
  <2> QED  BY <1>0, <2>1, <2>2 DEF TypeOK, files, history
<1>4. LockInv' /\ StaleInv'
    BY <1>0, <1>2 DEF LockInv, StaleInv, files, history
<1>5. LeaseInv'
    BY <1>0, <1>1, <1>2 DEF LeaseInv, files
<1>6. RecordInv'
    BY <1>0, RecordsKept DEF history
<1> QED  BY <1>3, <1>4, <1>5, <1>6

-----------------------------------------------------------------------------
(* Calls that come, go and wait store nothing.                               *)
LEMMA NewestKept ==
  ASSUME UNCHANGED status
  PROVE  Newest' = Newest
BY DEF Newest, Generations

LEMMA EnterInv ==
  ASSUME EffectsInv, NEW t \in Threads, NEW o \in Operations, NEW g \in Generations, NEW d \in Data,
         NEW resumes \in BOOLEAN, Enter(t, o, g, d, resumes)
  PROVE  EffectsInv'
<1> USE LeaseBounds, NothingElse DEF EffectsInv
<1>0. UNCHANGED <<status, left, holder, files, effect, history>> /\ lock = Nothing /\ lock' = t
    BY DEF Enter
<1>1. /\ thread[t].pc = "idle" /\ Current(g)
      /\ thread' = [thread EXCEPT ![t] = [pc |-> "fenced", op |-> o, gen |-> g, data |-> d,
                                          resumes |-> resumes, alive |-> TRUE, checked |-> FALSE]]
    BY DEF Enter
<1>2. \A u \in Threads : thread'[u] = IF u = t THEN [pc |-> "fenced", op |-> o, gen |-> g, data |-> d,
                                          resumes |-> resumes, alive |-> TRUE, checked |-> FALSE] ELSE thread[u]
    BY <1>1 DEF TypeOK
<1>3. TypeOK'
  <2>1. thread' \in [Threads -> Calls]
      BY <1>1 DEF TypeOK, Calls, Generations
  <2>2. \A u \in Threads : thread'[u].pc # "idle" =>
       thread'[u].op \in Operations /\ thread'[u].gen \in Generations /\ thread'[u].data \in Data
      BY <1>2 DEF TypeOK
  <2> QED  BY <1>0, <2>1, <2>2 DEF TypeOK, files, history
<1>4. LockInv'
    BY <1>0, <1>1, <1>2 DEF LockInv, Stages
<1>5. Newest' = Newest
    BY <1>0, NewestKept
<1>6. LeaseInv'
    BY <1>0, <1>1, <1>2, <1>5 DEF LeaseInv, Current, files, Generations
<1>7. StaleInv'
    BY <1>0, <1>2, <1>5 DEF StaleInv, files, history
<1>8. RecordInv'
  <2>1. \A u \in Threads : StageOK(u)'
      BY <1>0, <1>2 DEF RecordInv, StageOK, files, NoIntent, Prepared
  <2> QED  BY <1>0, <2>1 DEF RecordInv, IntentOK, PointerOK, ExecutionIsRecorded, files, history,
                 Prepared, Completed, NoIntent, NoPointer
<1> QED  BY <1>3, <1>4, <1>6, <1>7, <1>8

LEMMA EndInv ==
  ASSUME EffectsInv, NEW t \in Threads, End(t), UNCHANGED <<status, left, files, effect, history>>
  PROVE  EffectsInv'
<1> USE LeaseBounds, NothingElse DEF EffectsInv
<1>1. \A u \in Threads : thread'[u] = IF u = t THEN Idle ELSE thread[u]
    BY DEF TypeOK, End
<1>2. TypeOK'
  <2>1. thread' \in [Threads -> Calls]
      BY DEF End, TypeOK, Calls, Idle
  <2>2. \A u \in Threads : thread'[u].pc # "idle" =>
       thread'[u].op \in Operations /\ thread'[u].gen \in Generations /\ thread'[u].data \in Data
      BY <1>1 DEF TypeOK, Idle
  <2> QED  BY <2>1, <2>2 DEF TypeOK, files, history, End
<1>3. LockInv'
    BY <1>1 DEF LockInv, End, Idle, Stages
<1>4. Newest' = Newest
    BY NewestKept
<1>5. LeaseInv' /\ StaleInv'
    BY <1>1, <1>4 DEF LeaseInv, StaleInv, Idle, files, history
<1>6. RecordInv'
  <2>1. \A u \in Threads : StageOK(u)'
      BY <1>1 DEF RecordInv, StageOK, files, NoIntent, Prepared, Idle
  <2> QED  BY <2>1 DEF RecordInv, IntentOK, PointerOK, ExecutionIsRecorded, files, history,
                 Prepared, Completed, NoIntent, NoPointer
<1> QED  BY <1>2, <1>3, <1>5, <1>6

LEMMA LoseTransactionInv ==
  ASSUME EffectsInv, NEW t \in Threads, LoseTransaction(t)
  PROVE  EffectsInv'
<1> USE LeaseBounds, NothingElse DEF EffectsInv
<1>0. UNCHANGED <<status, left, holder, files, effect, history>> /\ lock = t /\ lock' = Nothing
    BY DEF LoseTransaction
<1>1. \A u \in Threads : thread'[u] = IF u = t THEN [thread[t] EXCEPT !.alive = FALSE] ELSE thread[u]
    BY DEF TypeOK, LoseTransaction
<1>2. \A u \in Threads : /\ thread'[u].pc = thread[u].pc /\ thread'[u].op = thread[u].op
                         /\ thread'[u].gen = thread[u].gen /\ thread'[u].data = thread[u].data
                         /\ thread'[u].checked = thread[u].checked
                         /\ thread'[u].alive <=> thread[u].alive /\ u # t
    BY <1>1 DEF TypeOK, Calls
<1>3. TypeOK'
  <2>0. thread[t] \in Calls
      BY DEF TypeOK
  <2>1. [thread[t] EXCEPT !.alive = FALSE] \in Calls
      BY <2>0 DEF Calls
  <2>2. thread' \in [Threads -> Calls]
      BY <2>1 DEF LoseTransaction, TypeOK
  <2> QED  BY <1>0, <1>2, <2>2 DEF TypeOK, files, history
<1>4. LockInv'
    BY <1>0, <1>2 DEF LockInv
<1>5. Newest' = Newest
    BY <1>0, NewestKept
<1>6. LeaseInv' /\ StaleInv'
    BY <1>0, <1>2, <1>5 DEF LeaseInv, StaleInv, files, history
<1>7. RecordInv'
  <2>1. \A u \in Threads : StageOK(u)'
      BY <1>0, <1>2 DEF RecordInv, StageOK, files, NoIntent, Prepared
  <2> QED  BY <1>0, <2>1 DEF RecordInv, IntentOK, PointerOK, ExecutionIsRecorded, files, history,
                 Prepared, Completed, NoIntent, NoPointer
<1> QED  BY <1>3, <1>4, <1>6, <1>7

(* The check finds the newest lease, so no execution is recorded under a     *)
(* newer one; a call already superseded does not pass it.                    *)
LEMMA CheckInv ==
  ASSUME EffectsInv, NEW t \in Threads, Check(t)
  PROVE  EffectsInv'
<1> USE LeaseBounds, NothingElse DEF EffectsInv
<1>0. UNCHANGED <<status, left, lock, holder, files, effect, history>> /\ thread[t].pc \in Stages
      /\ Current(thread[t].gen)
    BY DEF Check
<1>1. \A u \in Threads : thread'[u] = IF u = t THEN [thread[t] EXCEPT !.checked = TRUE] ELSE thread[u]
    BY DEF TypeOK, Check
<1>2. \A u \in Threads : /\ thread'[u].pc = thread[u].pc /\ thread'[u].op = thread[u].op
                         /\ thread'[u].gen = thread[u].gen /\ thread'[u].data = thread[u].data
                         /\ thread'[u].checked <=> thread[u].checked \/ u = t
                         /\ thread'[u].alive = thread[u].alive
    BY <1>1 DEF TypeOK, Calls
<1>3. TypeOK'
  <2>0. thread[t] \in Calls
      BY DEF TypeOK
  <2>1. [thread[t] EXCEPT !.checked = TRUE] \in Calls
      BY <2>0 DEF Calls
  <2>2. thread' \in [Threads -> Calls]
      BY <2>1 DEF Check, TypeOK
  <2> QED  BY <1>0, <1>2, <2>2 DEF TypeOK, files, history
<1>4. LockInv'
    BY <1>0, <1>2 DEF LockInv
<1>5. Newest' = Newest
    BY <1>0, NewestKept
<1>6. thread[t].gen = Newest
    BY <1>0 DEF Current, LeaseInv, TypeOK, Stages
<1>7. LeaseInv' /\ StaleInv'
    BY <1>0, <1>2, <1>5, <1>6 DEF LeaseInv, StaleInv, files, history
<1>8. RecordInv'
  <2>1. \A u \in Threads : StageOK(u)'
      BY <1>0, <1>2 DEF RecordInv, StageOK, files, NoIntent, Prepared
  <2> QED  BY <1>0, <2>1 DEF RecordInv, IntentOK, PointerOK, ExecutionIsRecorded, files, history,
                 Prepared, Completed, NoIntent, NoPointer
<1> QED  BY <1>3, <1>4, <1>7, <1>8

(* Taking the file lock: the stored records decide where the call goes on.   *)
LEMMA LockStepInv ==
  ASSUME EffectsInv, NEW t \in Threads, Lock(t)
  PROVE  EffectsInv'
<1> USE LeaseBounds, NothingElse DEF EffectsInv
<1>0. UNCHANGED <<status, left, files, effect, history>> /\ holder = Nothing /\ thread[t].pc = "fenced"
    BY DEF Lock
<1>1. CASE Entry(t) \notin Stages
    BY <1>0, <1>1, EndInv DEF Lock
<1>2. CASE Entry(t) \in Stages
  <2>0. holder' = t /\ UNCHANGED lock /\ thread' = [thread EXCEPT ![t].pc = Entry(t)]
      BY <1>2 DEF Lock
  <2>1. \A u \in Threads : thread'[u] = IF u = t THEN [thread[t] EXCEPT !.pc = Entry(t)] ELSE thread[u]
      BY <2>0 DEF TypeOK
  <2>2. \A u \in Threads : /\ thread'[u].pc = (IF u = t THEN Entry(t) ELSE thread[u].pc)
                           /\ thread'[u].op = thread[u].op
                           /\ thread'[u].gen = thread[u].gen /\ thread'[u].data = thread[u].data
                           /\ thread'[u].checked = thread[u].checked
                           /\ thread'[u].alive = thread[u].alive
      BY <2>1 DEF TypeOK, Calls
  <2>3. TypeOK'
    <3>1. thread' \in [Threads -> Calls]
        BY <1>2, <2>0 DEF TypeOK, Calls
    <3> QED  BY <1>0, <2>0, <2>2, <3>1 DEF TypeOK, files, history
  <2>4. LockInv'
      BY <1>0, <1>2, <2>0, <2>2 DEF LockInv, Stages
  <2>5. Newest' = Newest
      BY <1>0, NewestKept
  <2>6. LeaseInv' /\ StaleInv'
      BY <1>0, <2>2, <2>5 DEF LeaseInv, StaleInv, files, history
  <2>7. RecordInv'
    <3>0. thread[t].op \in Operations
        BY <1>0 DEF TypeOK
    <3>1. \A u \in Threads : u # t => StageOK(u)'
        BY <1>0, <2>2 DEF RecordInv, StageOK, files, NoIntent, Prepared
    <3>2. StageOK(t)'
      <4> DEFINE o == thread[t].op
      <4>1. \/ Entry(t) = "payload" /\ intent[o] = NoIntent /\ pointer.state # "prepared"
            \/ Entry(t) = "publish" /\ o \in done /\ pointer = Prepared(o)
            \/ /\ Entry(t) = "prepare" /\ intent[o] # NoIntent /\ thread[t].data = intent[o].new
               /\ o \notin done /\ pointer \in {intent[o].previous, Prepared(o)}
          BY <1>2 DEF Entry, Stages, SameIdentity, Advanced
      <4>2. thread'[t].pc = Entry(t) /\ thread'[t].op = o /\ thread'[t].data = thread[t].data
          BY <2>2
      <4> QED  BY <1>0, <4>1, <4>2 DEF StageOK, files, NoIntent, Prepared
    <3> QED  BY <1>0, <3>1, <3>2 DEF RecordInv, IntentOK, PointerOK, ExecutionIsRecorded, files, history,
                 Prepared, Completed, NoIntent, NoPointer
  <2> QED  BY <2>3, <2>4, <2>6, <2>7
<1> QED  BY <1>1, <1>2

-----------------------------------------------------------------------------
(* Stores.  The call that stores a record holds the file lock and was        *)
(* checked; it alone is checked, and it has to check again afterwards.       *)
LEMMA StoreFacts ==
  ASSUME EffectsInv, NEW t \in Threads, NEW pc \in Stages, Store(t, pc)
  PROVE  /\ holder = t /\ thread[t].pc = pc
         /\ thread[t].op \in Operations /\ thread[t].gen \in Generations /\ thread[t].data \in Data
         /\ UNCHANGED <<status, left, effect>> /\ Newest' = Newest
         /\ \A u \in Threads : u # t => ~thread[u].checked /\ thread[u].pc \notin Stages
         /\ stale' \in {0, 1}
<1> USE DEF EffectsInv
<1>1. thread[t].pc = pc /\ thread[t].checked /\ UNCHANGED <<status, left, effect>>
    BY DEF Store
<1>2. holder = t /\ thread[t].pc # "idle"
    BY <1>1 DEF LockInv, Stages
<1>3. thread[t].op \in Operations /\ thread[t].gen \in Generations /\ thread[t].data \in Data
    BY <1>2 DEF TypeOK
<1>4. \A u \in Threads : u # t => ~thread[u].checked /\ thread[u].pc \notin Stages
    BY <1>2 DEF LockInv
<1>5. thread[t].gen \in Nat /\ Newest \in Nat
    BY <1>3, LeaseBounds DEF Generations, LeaseInv
<1>6. stale' \in {0, 1}
    BY <1>1, <1>5 DEF Store, StaleInv
<1> QED  BY <1>1, <1>2, <1>3, <1>4, <1>6, NewestKept

LEMMA StoreLocks ==
  ASSUME EffectsInv, NEW t \in Threads, NEW pc \in Stages, Store(t, pc),
         NEW next \in Stages, Goto(t, next) \/ End(t),
         execs' \subseteq execs \cup {<<thread[t].op, thread[t].gen>>}
  PROVE  /\ LockInv' /\ LeaseInv' /\ StaleInv'
         /\ thread' \in [Threads -> Calls]
         /\ lock' \in Threads \cup {Nothing} /\ holder' \in Threads \cup {Nothing}
         /\ \A u \in Threads : thread'[u].pc # "idle" =>
              thread'[u].op \in Operations /\ thread'[u].gen \in Generations /\ thread'[u].data \in Data
         /\ \A u \in Threads : u # t => thread'[u] = thread[u] /\ thread[u].pc \notin Stages
         /\ thread'[t].pc \in Stages =>
              /\ Goto(t, next) /\ thread'[t].pc = next /\ thread'[t].op = thread[t].op
              /\ thread'[t].gen = thread[t].gen /\ thread'[t].data = thread[t].data
<1> USE LeaseBounds, NothingElse DEF EffectsInv
<1>1. /\ holder = t /\ thread[t].pc = pc
      /\ thread[t].op \in Operations /\ thread[t].gen \in Generations /\ thread[t].data \in Data
      /\ UNCHANGED <<status, left, effect>> /\ Newest' = Newest
      /\ \A u \in Threads : u # t => ~thread[u].checked /\ thread[u].pc \notin Stages
      /\ stale' \in {0, 1}
    BY StoreFacts
<1>2. thread[t] \in Calls
    BY DEF TypeOK
<1> DEFINE c == [thread[t] EXCEPT !.pc = next, !.checked = FALSE]
<1>3. /\ c \in Calls /\ c.pc = next /\ c.op = thread[t].op /\ c.gen = thread[t].gen
      /\ c.data = thread[t].data /\ c.checked = FALSE /\ c.alive = thread[t].alive
    BY <1>2 DEF Calls
<1> HIDE DEF c
<1>4. Idle \in Calls /\ Idle.pc = "idle" /\ Idle.checked = FALSE /\ Idle.alive = FALSE
    BY DEF Idle, Calls
<1>5. CASE Goto(t, next)
  <2>1. thread' = [thread EXCEPT ![t] = c] /\ UNCHANGED <<lock, holder>>
      BY <1>5 DEF Goto, c
  <2>2. thread'[t] = c /\ \A u \in Threads : u # t => thread'[u] = thread[u]
      BY <2>1 DEF TypeOK
  <2>3. LockInv'
      BY <1>1, <1>3, <2>1, <2>2 DEF LockInv, Stages
  <2>4. LeaseInv'
      BY <1>1, <1>3, <2>2 DEF LeaseInv, Stages
  <2>5. StaleInv'
      BY <1>1, <1>3, <2>2 DEF StaleInv
  <2>6. thread' \in [Threads -> Calls]
      BY <1>3, <2>1 DEF TypeOK
  <2> QED  BY <1>1, <1>3, <1>5, <2>1, <2>2, <2>3, <2>4, <2>5, <2>6 DEF TypeOK
<1>6. CASE End(t)
  <2>1. thread' = [thread EXCEPT ![t] = Idle]
      BY <1>6 DEF End
  <2>2. thread'[t] = Idle /\ \A u \in Threads : u # t => thread'[u] = thread[u]
      BY <2>1 DEF TypeOK
  <2>3. LockInv'
      BY <1>1, <1>4, <1>6, <2>2 DEF LockInv, Stages, End
  <2>4. LeaseInv'
      BY <1>1, <1>4, <2>2 DEF LeaseInv, Stages
  <2>5. StaleInv'
      BY <1>1, <1>4, <2>2 DEF StaleInv
  <2>6. thread' \in [Threads -> Calls] /\ Idle.pc \notin Stages
      BY <1>4, <2>1 DEF TypeOK, Stages
  <2> QED  BY <1>1, <1>4, <1>6, <2>2, <2>3, <2>4, <2>5, <2>6 DEF TypeOK, End
<1> QED  BY <1>5, <1>6

LEMMA GotoFacts ==
  ASSUME TypeOK, NEW t \in Threads, NEW next \in Stages, Goto(t, next)
  PROVE  /\ thread'[t].pc = next /\ thread'[t].op = thread[t].op
         /\ thread'[t].gen = thread[t].gen /\ thread'[t].data = thread[t].data
<1>1. thread'[t] = [thread[t] EXCEPT !.pc = next, !.checked = FALSE]
    BY DEF TypeOK, Goto
<1>2. thread[t] \in Calls
    BY DEF TypeOK
<1> QED  BY <1>1, <1>2 DEF Calls

(* A store is right if the records it leaves are: only the storing call can  *)
(* be at a stage.                                                            *)
LEMMA StoreInv ==
  ASSUME EffectsInv, NEW t \in Threads, NEW pc \in Stages, Store(t, pc),
         NEW next \in Stages, Goto(t, next) \/ End(t),
         execs' \subseteq execs \cup {<<thread[t].op, thread[t].gen>>},
         content' \in Data \cup {Nothing}, payload' \in [Operations -> Data \cup {Nothing}],
         intent' \in [Operations -> {NoIntent} \cup Intents], done' \subseteq Operations,
         pointer' \in {NoPointer} \cup [op : Operations, state : {"prepared", "completed"}],
         applied' \in [Operations -> Nat],
         \A o \in Operations : IntentOK(o)',
         PointerOK', ExecutionIsRecorded', Goto(t, next) => StageOK(t)'
  PROVE  EffectsInv'
<1>1. /\ LockInv' /\ LeaseInv' /\ StaleInv'
      /\ thread' \in [Threads -> Calls]
      /\ lock' \in Threads \cup {Nothing} /\ holder' \in Threads \cup {Nothing}
      /\ \A u \in Threads : thread'[u].pc # "idle" =>
           thread'[u].op \in Operations /\ thread'[u].gen \in Generations /\ thread'[u].data \in Data
      /\ \A u \in Threads : u # t => thread'[u] = thread[u] /\ thread[u].pc \notin Stages
      /\ thread'[t].pc \in Stages => Goto(t, next)
    BY StoreLocks
<1>2. /\ UNCHANGED <<status, left, effect>> /\ stale' \in {0, 1}
      /\ thread[t].op \in Operations /\ thread[t].gen \in Generations
    BY StoreFacts
<1>3. TypeOK'
  <2>1. execs' \subseteq Operations \X Generations
      BY <1>2 DEF EffectsInv, TypeOK
  <2>2. stale' \in Nat
      BY <1>2
  <2>3. UNCHANGED <<status, left, effect>> /\ TypeOK
      BY <1>2 DEF EffectsInv
  <2> QED  BY <1>1, <2>1, <2>2, <2>3 DEF TypeOK
<1>4. \A u \in Threads : StageOK(u)'
  <2> SUFFICES ASSUME NEW u \in Threads, ~(u = t /\ Goto(t, next)) PROVE StageOK(u)'
      OBVIOUS
  <2>1. thread'[u].pc \notin Stages
      BY <1>1
  <2> QED  BY <2>1 DEF StageOK, Stages
<1> QED  BY <1>1, <1>3, <1>4 DEF EffectsInv, RecordInv

LEMMA StorePayloadInv ==
  ASSUME EffectsInv, NEW t \in Threads, StorePayload(t)
  PROVE  EffectsInv'
<1> DEFINE o == thread[t].op
<1>0. "payload" \in Stages /\ "intent" \in Stages
    BY DEF Stages
<1>1. Store(t, "payload") /\ UNCHANGED <<content, intent, execs, done, pointer, applied>>
    BY DEF StorePayload
<1>2. /\ o \in Operations /\ thread[t].data \in Data /\ thread[t].pc = "payload" /\ UNCHANGED effect
    BY <1>0, <1>1, StoreFacts
<1>3. intent[o] = NoIntent /\ pointer.state # "prepared"
    BY <1>2 DEF EffectsInv, RecordInv, StageOK
<1>4. /\ payload' \in [Operations -> Data \cup {Nothing}]
      /\ \A p \in Operations : p # o => payload'[p] = payload[p]
    BY <1>2 DEF StorePayload, EffectsInv, TypeOK
<1>5. (Goto(t, "intent") /\ payload'[o] = thread[t].data) \/ End(t)
    BY DEF StorePayload
<1>6. \A p \in Operations : IntentOK(p)'
    BY <1>1, <1>3, <1>4 DEF EffectsInv, RecordInv, IntentOK, NoIntent, NoPointer, Completed, Prepared
<1>7. PointerOK' /\ ExecutionIsRecorded'
    BY <1>1, <1>2 DEF EffectsInv, RecordInv, PointerOK, ExecutionIsRecorded, NoIntent, NoPointer, Completed, Prepared
<1>8. ASSUME Goto(t, "intent") PROVE StageOK(t)'
  <2>1. thread'[t].pc = "intent" /\ thread'[t].op = o /\ thread'[t].data = thread[t].data
      BY <1>0, <1>8, GotoFacts DEF EffectsInv
  <2>2. payload'[o] = thread[t].data
    <3>1. thread'[t] # Idle
        BY <2>1 DEF Idle
    <3>2. End(t) => thread'[t] = Idle
        BY DEF End, EffectsInv, TypeOK
    <3> QED  BY <1>5, <3>1, <3>2
  <2> QED  BY <1>1, <1>3, <2>1, <2>2 DEF StageOK, NoIntent
<1>9. content' \in Data \cup {Nothing} /\ TypeOK
    BY <1>1 DEF EffectsInv, TypeOK
<1> QED  BY <1>0, <1>1, <1>4, <1>5, <1>6, <1>7, <1>8, <1>9, StoreInv DEF TypeOK

(* The intent is made for the bytes and the pointer there are.               *)
LEMMA StoreIntentInv ==
  ASSUME EffectsInv, NEW t \in Threads, StoreIntent(t)
  PROVE  EffectsInv'
<1> DEFINE o == thread[t].op
           i == [gen |-> thread[t].gen, old |-> content, new |-> thread[t].data, previous |-> pointer]
<1>0. "prepare" \in Stages /\ "intent" \in Stages
    BY DEF Stages
<1>1. /\ Store(t, "intent") /\ Goto(t, "prepare")
      /\ UNCHANGED <<content, payload, execs, done, pointer, applied>>
      /\ intent' = [intent EXCEPT ![o] = i]
    BY DEF StoreIntent
<1>2. /\ o \in Operations /\ thread[t].data \in Data /\ thread[t].gen \in Generations
      /\ thread[t].pc = "intent" /\ UNCHANGED effect
    BY <1>0, <1>1, StoreFacts
<1>3. intent[o] = NoIntent /\ pointer.state # "prepared" /\ payload[o] = thread[t].data
    BY <1>2 DEF EffectsInv, RecordInv, StageOK
<1>4. o \notin done /\ applied[o] = 0
    BY <1>2, <1>3 DEF EffectsInv, RecordInv, IntentOK
<1>5. \/ pointer = NoPointer /\ content = Nothing
      \/ \E p \in done : pointer = Completed(p) /\ content = intent[p].new
    BY <1>3 DEF EffectsInv, RecordInv, PointerOK, Prepared
<1>6. done \subseteq Operations /\ intent \in [Operations -> {NoIntent} \cup Intents]
    BY DEF EffectsInv, TypeOK
<1>7. i \in Intents
  <2>1. pointer \in {NoPointer} \cup {Completed(p) : p \in Operations}
      BY <1>5, <1>6
  <2>2. content \in Data \cup {Nothing}
      BY DEF EffectsInv, TypeOK
  <2> QED  BY <1>2, <2>1, <2>2 DEF Intents
<1>8. /\ i.gen = thread[t].gen /\ i.old = content /\ i.new = thread[t].data /\ i.previous = pointer
      /\ i # NoIntent
  <2>1. i.new # NoIntent.new
      BY <1>2, NothingElse DEF NoIntent
  <2> QED  BY <2>1
<1> HIDE DEF i
<1>9. intent'[o] = i /\ \A p \in Operations : p # o => intent'[p] = intent[p]
    BY <1>1, <1>2, <1>6
<1>10. \A p \in Operations : IntentOK(p)'
  <2> SUFFICES ASSUME NEW p \in Operations PROVE IntentOK(p)'
      OBVIOUS
  <2>1. CASE p = o
    <3>1. \/ pointer = NoPointer /\ content = Nothing
          \/ \E q \in done : pointer = Completed(q) /\ content = intent'[q].new
        BY <1>4, <1>5, <1>6, <1>9
    <3> QED  BY <1>1, <1>2, <1>3, <1>4, <1>8, <1>9, <2>1, <3>1 DEF IntentOK, NoIntent, NoPointer, Completed, Prepared
  <2>2. CASE p # o
    <3>1. \A q \in done : intent'[q] = intent[q]
        BY <1>4, <1>6, <1>9
    <3>2. intent'[p] = intent[p] /\ IntentOK(p) /\ UNCHANGED <<payload, done, pointer, applied>>
        BY <1>1, <1>9, <2>2 DEF EffectsInv, RecordInv
    <3> QED  BY <3>1, <3>2 DEF IntentOK, NoIntent, NoPointer, Completed, Prepared
  <2> QED  BY <2>1, <2>2
<1>11. PointerOK'
    BY <1>1, <1>4, <1>5, <1>6, <1>9 DEF PointerOK, NoPointer, Completed
<1>12. ExecutionIsRecorded'
    BY <1>1, <1>2 DEF EffectsInv, RecordInv, ExecutionIsRecorded
<1>13. StageOK(t)'
  <2>1. thread'[t].pc = "prepare" /\ thread'[t].op = o /\ thread'[t].data = thread[t].data
      BY <1>0, <1>1, GotoFacts DEF EffectsInv
  <2> QED  BY <1>1, <1>4, <1>8, <1>9, <2>1 DEF StageOK, NoIntent
<1>14. TypeOK /\ intent' \in [Operations -> {NoIntent} \cup Intents]
    BY <1>1, <1>6, <1>7 DEF EffectsInv
<1> QED  BY <1>0, <1>1, <1>10, <1>11, <1>12, <1>13, <1>14, StoreInv DEF TypeOK

(* Pointers are told apart by their state and their operation.               *)
LEMMA Pointers ==
  ASSUME NEW o, NEW p
  PROVE  /\ Prepared(o).state = "prepared" /\ Prepared(o).op = o
         /\ Completed(o).state = "completed" /\ Completed(o).op = o
         /\ NoPointer.state = "none"
         /\ Prepared(o) # Completed(p) /\ Prepared(o) # NoPointer /\ Completed(o) # NoPointer
         /\ Prepared(o) = Prepared(p) => o = p
         /\ Completed(o) = Completed(p) => o = p
<1>1. /\ Prepared(o).state = "prepared" /\ Prepared(o).op = o
      /\ Completed(o).state = "completed" /\ Completed(o).op = o
      /\ Prepared(p).op = p /\ Completed(p).op = p /\ Completed(p).state = "completed"
      /\ NoPointer.state = "none"
    BY DEF Prepared, Completed, NoPointer
<1> QED  BY <1>1

(* A pointer that is the one an intent was made for still stands for the     *)
(* bytes the intent replaces.                                                *)
LEMMA PreviousBytes ==
  ASSUME EffectsInv, NEW o \in Operations, intent[o] # NoIntent, pointer = intent[o].previous
  PROVE  content = intent[o].old /\ pointer.state # "prepared"
<1>1. IntentOK(o) /\ PointerOK
    BY DEF EffectsInv, RecordInv
<1> QED  BY <1>1, Pointers DEF IntentOK, PointerOK

LEMMA StorePreparedInv ==
  ASSUME EffectsInv, NEW t \in Threads, StorePrepared(t)
  PROVE  EffectsInv'
<1> DEFINE o == thread[t].op
<1>0. "prepare" \in Stages /\ "execution" \in Stages
    BY DEF Stages
<1>1. /\ Store(t, "prepare") /\ Goto(t, "execution") /\ pointer' = Prepared(o)
      /\ UNCHANGED <<content, payload, intent, execs, done, applied>>
    BY DEF StorePrepared
<1>2. o \in Operations /\ thread[t].pc = "prepare" /\ UNCHANGED effect
    BY <1>0, <1>1, StoreFacts
<1>3. /\ intent[o] # NoIntent /\ thread[t].data = intent[o].new /\ o \notin done
      /\ pointer \in {intent[o].previous, Prepared(o)}
    BY <1>2 DEF EffectsInv, RecordInv, StageOK
<1>4. \A p \in Operations : IntentOK(p) /\ (pointer = Prepared(p) => p = o)
    BY <1>2, <1>3, PreviousBytes, Pointers DEF EffectsInv, RecordInv
<1>5. \A p \in Operations : IntentOK(p)'
  <2> SUFFICES ASSUME NEW p \in Operations PROVE IntentOK(p)'
      OBVIOUS
  <2>1. pointer' # Prepared(p) => pointer # Prepared(p)
      BY <1>1, <1>4
  <2>2. IntentOK(p) /\ UNCHANGED <<payload, intent, done, applied>>
      BY <1>1, <1>4
  <2> QED  BY <2>1, <2>2 DEF IntentOK, NoIntent, NoPointer, Completed, Prepared
<1>6. PointerOK'
  <2>1. CASE pointer = Prepared(o)
      BY <1>1, <2>1 DEF EffectsInv, RecordInv, PointerOK, NoPointer, Completed, NoIntent, Prepared
  <2>2. CASE pointer # Prepared(o)
    <3>1. content = intent[o].old
        BY <1>2, <1>3, <2>2, PreviousBytes
    <3>2. applied[o] = 0
        BY <1>2, <1>3, <1>4, <2>2 DEF IntentOK
    <3>3. \E p \in Operations :
            /\ pointer' = Prepared(p) /\ intent'[p] # NoIntent
            /\ content' \in {intent'[p].old, intent'[p].new}
            /\ p \in done' => content' = intent'[p].new
            /\ content' # intent'[p].new => applied'[p] = 0
        BY <1>1, <1>2, <1>3, <3>1, <3>2
    <3> QED  BY <3>3 DEF PointerOK, NoIntent, Prepared
  <2> QED  BY <2>1, <2>2
<1>7. ExecutionIsRecorded'
    BY <1>1, <1>2 DEF EffectsInv, RecordInv, ExecutionIsRecorded
<1>8. StageOK(t)'
  <2>1. thread'[t].pc = "execution" /\ thread'[t].op = o /\ thread'[t].data = thread[t].data
      BY <1>0, <1>1, GotoFacts DEF EffectsInv
  <2> QED  BY <1>1, <1>3, <2>1 DEF StageOK, NoIntent, Prepared
<1>9. TypeOK /\ pointer' \in [op : Operations, state : {"prepared", "completed"}]
    BY <1>1, <1>2 DEF EffectsInv, Prepared
<1> QED  BY <1>0, <1>1, <1>5, <1>6, <1>7, <1>8, <1>9, StoreInv DEF TypeOK

(* The bytes there are decide whether they are still to be replaced.         *)
LEMMA StoreExecutionInv ==
  ASSUME EffectsInv, NEW t \in Threads, StoreExecution(t)
  PROVE  EffectsInv'
<1> DEFINE o == thread[t].op
           next == IF content = intent[o].new THEN "complete" ELSE "apply"
<1>0. "execution" \in Stages /\ next \in Stages
    BY DEF Stages
<1>1. /\ Store(t, "execution") /\ execs' = execs \cup {<<o, thread[t].gen>>}
      /\ UNCHANGED <<content, payload, intent, done, pointer, applied>>
    BY DEF StoreExecution
<1>2. o \in Operations /\ thread[t].gen \in Generations /\ thread[t].pc = "execution" /\ UNCHANGED effect
    BY <1>0, <1>1, StoreFacts
<1>3. intent[o] # NoIntent /\ thread[t].data = intent[o].new /\ o \notin done /\ pointer = Prepared(o)
    BY <1>2 DEF EffectsInv, RecordInv, StageOK
<1>4. (Goto(t, next) /\ content \in {intent[o].new, intent[o].old}) \/ End(t)
    BY DEF StoreExecution, Observed, Stages
<1>5. \A p \in Operations : IntentOK(p)'
    BY <1>1 DEF EffectsInv, RecordInv, IntentOK, NoIntent, NoPointer, Completed, Prepared
<1>6. PointerOK'
    BY <1>1 DEF EffectsInv, RecordInv, PointerOK, NoPointer, Completed, NoIntent, Prepared
<1>7. ExecutionIsRecorded'
    BY <1>1, <1>2 DEF EffectsInv, RecordInv, ExecutionIsRecorded, Generations
<1>8. ASSUME Goto(t, next) PROVE StageOK(t)'
  <2>1. /\ thread'[t].pc = next /\ thread'[t].op = o /\ thread'[t].data = thread[t].data
        /\ thread'[t].gen = thread[t].gen
      BY <1>0, <1>8, GotoFacts DEF EffectsInv
  <2>2. content \in {intent[o].new, intent[o].old}
    <3>1. \E p \in Operations : pointer = Prepared(p) /\ content \in {intent[p].old, intent[p].new}
        BY <1>3, Pointers DEF EffectsInv, RecordInv, PointerOK
    <3> QED  BY <1>3, <3>1, Pointers
  <2> QED  BY <1>1, <1>3, <2>1, <2>2 DEF StageOK, NoIntent, Prepared
<1>9. TypeOK
    BY DEF EffectsInv
<1> QED  BY <1>0, <1>1, <1>4, <1>5, <1>6, <1>7, <1>8, <1>9, StoreInv DEF TypeOK

(* The bytes are replaced only if they are not the operation's yet, and      *)
(* then the operation has not replaced them before.                          *)
LEMMA ReplaceFacts ==
  ASSUME EffectsInv, NEW t \in Threads, ReplaceBytes(t)
  PROVE  /\ thread[t].op \in Operations /\ thread[t].data \in Data /\ holder = t /\ UNCHANGED effect
         /\ intent[thread[t].op] # NoIntent /\ thread[t].data = intent[thread[t].op].new
         /\ thread[t].op \notin done /\ pointer = Prepared(thread[t].op)
         /\ <<thread[t].op, thread[t].gen>> \in execs /\ thread[t].gen \in Generations
         /\ applied[thread[t].op] = 0 /\ content # thread[t].data
<1> DEFINE o == thread[t].op
<1>0. "apply" \in Stages /\ Store(t, "apply")
    BY DEF Stages, ReplaceBytes
<1>1. /\ o \in Operations /\ thread[t].pc = "apply" /\ thread[t].gen \in Generations
      /\ thread[t].data \in Data /\ holder = t /\ UNCHANGED effect
    BY <1>0, StoreFacts
<1>2. /\ intent[o] # NoIntent /\ thread[t].data = intent[o].new /\ o \notin done
      /\ pointer = Prepared(o) /\ <<o, thread[t].gen>> \in execs /\ content # intent[o].new
    BY <1>1 DEF EffectsInv, RecordInv, StageOK
<1>3. applied[o] = 0
  <2>1. \E p \in Operations : pointer = Prepared(p) /\ (content # intent[p].new => applied[p] = 0)
      BY <1>2, Pointers DEF EffectsInv, RecordInv, PointerOK
  <2> QED  BY <1>2, <2>1, Pointers
<1> QED  BY <1>1, <1>2, <1>3

LEMMA ReplaceBytesInv ==
  ASSUME EffectsInv, NEW t \in Threads, ReplaceBytes(t)
  PROVE  EffectsInv'
<1> DEFINE o == thread[t].op
<1>0. "apply" \in Stages /\ "complete" \in Stages
    BY DEF Stages
<1>1. /\ Store(t, "apply") /\ Goto(t, "complete") /\ content' = thread[t].data
      /\ applied' = [applied EXCEPT ![o] = @ + 1]
      /\ UNCHANGED <<payload, intent, execs, done, pointer>>
    BY DEF ReplaceBytes
<1>2. /\ o \in Operations /\ thread[t].data \in Data /\ thread[t].gen \in Generations /\ UNCHANGED effect
      /\ intent[o] # NoIntent /\ thread[t].data = intent[o].new
      /\ o \notin done /\ pointer = Prepared(o) /\ <<o, thread[t].gen>> \in execs
    BY ReplaceFacts
<1>3. /\ applied' \in [Operations -> Nat]
      /\ \A p \in Operations : p # o => applied'[p] = applied[p]
    BY <1>1, <1>2 DEF EffectsInv, TypeOK
<1>4. \A p \in Operations : IntentOK(p)'
  <2> SUFFICES ASSUME NEW p \in Operations PROVE IntentOK(p)'
      OBVIOUS
  <2>1. IntentOK(p) /\ UNCHANGED <<payload, intent, done, pointer>> /\ (p # o => applied'[p] = applied[p])
      BY <1>1, <1>3 DEF EffectsInv, RecordInv
  <2> QED  BY <1>2, <2>1 DEF IntentOK, NoIntent, NoPointer, Completed, Prepared
<1>5. PointerOK'
  <2>1. /\ pointer' = Prepared(o) /\ intent'[o] # NoIntent /\ content' = intent'[o].new
      BY <1>1, <1>2
  <2> QED  BY <1>2, <2>1 DEF PointerOK, NoIntent, Prepared
<1>6. ExecutionIsRecorded'
    BY <1>1, <1>2, <1>3 DEF EffectsInv, RecordInv, ExecutionIsRecorded, Generations
<1>7. StageOK(t)'
  <2>1. /\ thread'[t].pc = "complete" /\ thread'[t].op = o /\ thread'[t].data = thread[t].data
        /\ thread'[t].gen = thread[t].gen
      BY <1>0, <1>1, GotoFacts DEF EffectsInv
  <2> QED  BY <1>1, <1>2, <2>1 DEF StageOK, NoIntent, Prepared
<1>8. TypeOK
    BY DEF EffectsInv
<1> QED  BY <1>0, <1>1, <1>2, <1>3, <1>4, <1>5, <1>6, <1>7, <1>8, StoreInv DEF TypeOK

LEMMA StoreCompletedInv ==
  ASSUME EffectsInv, NEW t \in Threads, StoreCompleted(t)
  PROVE  EffectsInv'
<1> DEFINE o == thread[t].op
<1>0. "complete" \in Stages /\ "publish" \in Stages
    BY DEF Stages
<1>1. /\ Store(t, "complete") /\ Goto(t, "publish") /\ done' = done \cup {o}
      /\ UNCHANGED <<content, payload, intent, execs, pointer, applied>>
    BY DEF StoreCompleted
<1>2. o \in Operations /\ thread[t].gen \in Generations /\ thread[t].pc = "complete" /\ UNCHANGED effect
    BY <1>0, <1>1, StoreFacts
<1>3. /\ intent[o] # NoIntent /\ thread[t].data = intent[o].new /\ pointer = Prepared(o)
      /\ <<o, thread[t].gen>> \in execs /\ content = intent[o].new
    BY <1>2 DEF EffectsInv, RecordInv, StageOK
<1>4. \A p \in Operations : IntentOK(p)'
  <2> SUFFICES ASSUME NEW p \in Operations PROVE IntentOK(p)'
      OBVIOUS
  <2>1. IntentOK(p) /\ UNCHANGED <<payload, intent, pointer, applied>> /\ done \subseteq done'
        /\ (p \in done' => p \in done \/ p = o)
      BY <1>1 DEF EffectsInv, RecordInv
  <2> QED  BY <1>3, <2>1 DEF IntentOK, NoIntent, NoPointer, Completed, Prepared
<1>5. PointerOK'
  <2>1. /\ pointer' = Prepared(o) /\ intent'[o] # NoIntent /\ content' = intent'[o].new
      BY <1>1, <1>3
  <2> QED  BY <1>2, <2>1 DEF PointerOK, NoIntent, Prepared
<1>6. ExecutionIsRecorded'
    BY <1>1, <1>2, <1>3 DEF EffectsInv, RecordInv, ExecutionIsRecorded, Generations
<1>7. StageOK(t)'
  <2>1. thread'[t].pc = "publish" /\ thread'[t].op = o
      BY <1>0, <1>1, GotoFacts DEF EffectsInv
  <2> QED  BY <1>1, <1>3, <2>1 DEF StageOK, NoIntent, Prepared
<1>8. TypeOK /\ done' \subseteq Operations
    BY <1>1, <1>2 DEF EffectsInv, TypeOK
<1> QED  BY <1>0, <1>1, <1>4, <1>5, <1>6, <1>7, <1>8, StoreInv DEF TypeOK

LEMMA StorePublishedInv ==
  ASSUME EffectsInv, NEW t \in Threads, StorePublished(t)
  PROVE  EffectsInv'
<1> DEFINE o == thread[t].op
<1>0. "publish" \in Stages
    BY DEF Stages
<1>1. /\ Store(t, "publish") /\ End(t) /\ pointer' = Completed(o)
      /\ UNCHANGED <<content, payload, intent, execs, done, applied>>
    BY DEF StorePublished
<1>2. o \in Operations /\ thread[t].pc = "publish" /\ UNCHANGED effect
    BY <1>0, <1>1, StoreFacts
<1>3. pointer = Prepared(o) /\ o \in done
    BY <1>2 DEF EffectsInv, RecordInv, StageOK
<1>4. content = intent[o].new
  <2>1. \E p \in Operations : pointer = Prepared(p) /\ (p \in done => content = intent[p].new)
      BY <1>3, Pointers DEF EffectsInv, RecordInv, PointerOK
  <2> QED  BY <1>3, <2>1, Pointers
<1>5. \A p \in Operations : IntentOK(p)'
  <2> SUFFICES ASSUME NEW p \in Operations PROVE IntentOK(p)'
      OBVIOUS
  <2>1. IntentOK(p) /\ UNCHANGED <<payload, intent, done, applied>> /\ (p \notin done => pointer # Prepared(p))
      BY <1>1, <1>3, Pointers DEF EffectsInv, RecordInv
  <2> QED  BY <2>1 DEF IntentOK, NoIntent, NoPointer, Completed, Prepared
<1>6. PointerOK'
  <2>1. o \in done' /\ pointer' = Completed(o) /\ content' = intent'[o].new
      BY <1>1, <1>3, <1>4
  <2> QED  BY <2>1 DEF PointerOK, Completed
<1>7. ExecutionIsRecorded'
    BY <1>1, <1>2 DEF EffectsInv, RecordInv, ExecutionIsRecorded
<1>8. ~Goto(t, "publish")
  <2>1. thread'[t] = Idle
      BY <1>1 DEF End, EffectsInv, TypeOK
  <2> QED  BY <1>0, <2>1, GotoFacts DEF EffectsInv, Idle
<1>9. TypeOK /\ pointer' \in [op : Operations, state : {"prepared", "completed"}]
    BY <1>1, <1>2 DEF EffectsInv, Completed
<1> QED  BY <1>0, <1>1, <1>5, <1>6, <1>7, <1>8, <1>9, StoreInv DEF TypeOK

-----------------------------------------------------------------------------
LEMMA RegistrationInv ==
  ASSUME EffectsInv, NEW o \in Operations, RegisterEffect(o) \/ ReconcileEffect(o)
  PROVE  EffectsInv'
<1> USE DEF EffectsInv
<1>1. /\ UNCHANGED <<status, left, lock, holder, thread, files, history>>
      /\ effect' = [effect EXCEPT ![o] = Verified(o)]
    BY DEF RegisterEffect, ReconcileEffect
<1>2. /\ effect' \in [Operations -> {"none", "uncertain", "verified"}]
      /\ \A p \in Operations : effect'[p] = "verified" => effect[p] = "verified" \/ p \in done
    BY <1>1 DEF TypeOK, Verified
<1>3. TypeOK'
    BY <1>1, <1>2 DEF TypeOK, files, history
<1>4. Newest' = Newest
    BY <1>1, NewestKept
<1>5. LockInv' /\ LeaseInv' /\ StaleInv'
    BY <1>1, <1>4 DEF LockInv, LeaseInv, StaleInv, files, history
<1>6. ExecutionIsRecorded'
    BY <1>1, <1>2 DEF RecordInv, ExecutionIsRecorded, files, history
<1>7. RecordInv'
    BY <1>1, <1>6 DEF RecordInv, IntentOK, PointerOK, StageOK, files, history,
                      Prepared, Completed, NoIntent, NoPointer
<1> QED  BY <1>3, <1>5, <1>7

LEMMA NextInv ==
  ASSUME EffectsInv, [Next]_vars
  PROVE  EffectsInv'
<1>1. CASE Acquire
    BY <1>1, AcquireInv
<1>2. ASSUME NEW g \in Generations, Renew(g) \/ Close(g) \/ Expire(g) \/ Tick(g) PROVE EffectsInv'
    BY <1>2, LeaseStepInv
<1>3. ASSUME NEW t \in Threads, Step(t) PROVE EffectsInv'
  <2>1. CASE Abort(t)
      BY <2>1, EndInv DEF Abort
  <2> QED  BY <1>3, <2>1, LockStepInv, CheckInv, StorePayloadInv, StoreIntentInv, StorePreparedInv,
                StoreExecutionInv, ReplaceBytesInv, StoreCompletedInv, StorePublishedInv DEF Step
<1>4. ASSUME NEW t \in Threads, LoseTransaction(t) PROVE EffectsInv'
    BY <1>4, LoseTransactionInv
<1>5. ASSUME NEW t \in Threads, NEW o \in Operations, NEW g \in Generations, Resume(t, o, g)
      PROVE  EffectsInv'
  <2>1. payload[o] \in Data
    <3>1. intent[o] \in Intents /\ IntentOK(o)
        BY <1>5 DEF Resume, EffectsInv, TypeOK, RecordInv
    <3> QED  BY <1>5, <3>1 DEF IntentOK, Intents, Resume
  <2> QED  BY <1>5, <2>1, EnterInv DEF Resume
<1>6. ASSUME NEW t \in Threads, NEW o \in Operations, NEW g \in Generations, NEW d \in Data, Write(t, o, g, d)
      PROVE  EffectsInv'
    BY <1>6, EnterInv DEF Write
<1>7. ASSUME NEW o \in Operations, RegisterEffect(o) \/ ReconcileEffect(o) PROVE EffectsInv'
    BY <1>7, RegistrationInv
<1>8. CASE UNCHANGED vars
  <2>1. Newest' = Newest
      BY <1>8, NewestKept DEF vars
  <2>2. RecordInv'
      BY <1>8, RecordsKept DEF vars, history, EffectsInv
  <2>3. LockInv' /\ LeaseInv' /\ StaleInv'
      BY <1>8, <2>1 DEF EffectsInv, LockInv, LeaseInv, StaleInv, vars, files, history
  <2> QED  BY <1>8, <2>2, <2>3 DEF EffectsInv, TypeOK, vars, files, history
<1> QED  BY <1>1, <1>2, <1>3, <1>4, <1>5, <1>6, <1>7, <1>8 DEF Next

(* The inductive invariant of the gateway holds of every behaviour: locks,   *)
(* leases, calls and the records left by calls that died fit together.       *)
THEOREM EffectsInvariant == Spec => []EffectsInv
BY InitInv, NextInv, PTL DEF Spec

(* Whatever call died where, the current pointer tells the truth: of an      *)
(* unresolved operation everything resume needs is there, and a published    *)
(* one is the one whose bytes the file has (effects.py _write and resume).   *)
THEOREM PointerIsAlwaysTrue == Spec => []PointerIsTrue
<1>1. EffectsInv => PointerIsTrue
  <2> SUFFICES ASSUME EffectsInv PROVE PointerIsTrue
      OBVIOUS
  <2>1. PointerOK /\ \A o \in Operations : IntentOK(o)
      BY DEF EffectsInv, RecordInv
  <2>2. UnresolvedIsResumable
    <3> SUFFICES ASSUME pointer.state = "prepared" PROVE UnresolvedIsResumable
        BY DEF UnresolvedIsResumable
    <3>1. PICK o \in Operations :
            /\ pointer = Prepared(o) /\ intent[o] # NoIntent
            /\ content \in {intent[o].old, intent[o].new}
            /\ o \in done => content = intent[o].new
        BY <2>1, Pointers DEF PointerOK
    <3>2. pointer.op = o /\ payload[o] = intent[o].new
        BY <2>1, <3>1, Pointers DEF IntentOK
    <3> QED  BY <3>1, <3>2 DEF UnresolvedIsResumable
  <2>3. PublishedIsCurrent
      BY <2>1, Pointers DEF PublishedIsCurrent, PointerOK
  <2> QED  BY <2>2, <2>3 DEF PointerIsTrue
<1> QED  BY <1>1, EffectsInvariant, PTL

(* No effect without its execution record, and no verified publication       *)
(* without a completion (effects.py _write, effect_domain.py).               *)
THEOREM EffectsAreRecorded == Spec => []ExecutionIsRecorded
<1>1. EffectsInv => ExecutionIsRecorded
    BY DEF EffectsInv, RecordInv
<1> QED  BY <1>1, EffectsInvariant, PTL

(* A call whose lease was superseded stores at most the one record it had    *)
(* already been checked for, however many calls and leases there are         *)
(* (check_current before each _persist).                                     *)
THEOREM StaleStepsBounded == Spec => []OneStaleStep
<1>1. EffectsInv => OneStaleStep
    BY DEF EffectsInv, StaleInv, OneStaleStep
<1> QED  BY <1>1, EffectsInvariant, PTL

-----------------------------------------------------------------------------
(* A step that changes the bytes is a call's ReplaceBytes.                   *)
LEMMA OnlyReplaceWrites ==
  ASSUME [Next]_vars, content' # content
  PROVE  \E t \in Threads : ReplaceBytes(t)
BY DEF Next, Step, vars, files, Acquire, Renew, Close, Expire, Tick, Resume, Write, Enter, Lock, Check,
       StorePayload, StoreIntent, StorePrepared, StoreExecution, StoreCompleted, StorePublished,
       Abort, LoseTransaction, RegisterEffect, ReconcileEffect

(* Fencing: the bytes are never replaced under a lease older than one under  *)
(* which an execution is recorded, although a superseded call may still      *)
(* finish its step (effects.py _write, lease_authority.py).                  *)
THEOREM ReplacementsStayInOrder == Spec => ReplacementsInOrder
<1>1. ASSUME EffectsInv, [Next]_vars, content' # content
      PROVE  \A e \in execs : e[2] <= thread[holder].gen
  <2>1. PICK t \in Threads : ReplaceBytes(t)
      BY <1>1, OnlyReplaceWrites
  <2>2. holder = t /\ thread[t].checked
      BY <1>1, <2>1, ReplaceFacts DEF ReplaceBytes, Store
  <2> QED  BY <1>1, <2>2 DEF EffectsInv, StaleInv
<1>2. EffectsInv /\ [Next]_vars => [content' # content => \A e \in execs : e[2] <= thread[holder].gen]_vars
    BY <1>1
<1> QED  BY <1>2, EffectsInvariant, PTL DEF Spec, ReplacementsInOrder

(* A step of a call either leaves bytes, pointer and counts alone or is one  *)
(* of the three steps EffectRegister knows.                                  *)
LEMMA RegisterStep ==
  ASSUME [Next]_vars
  PROVE  \/ UNCHANGED <<content, pointer, applied>>
         \/ \E t \in Threads : StorePrepared(t) \/ ReplaceBytes(t) \/ StorePublished(t)
<1> USE DEF files, history
<1>1. ASSUME NEW t \in Threads, Step(t)
      PROVE  \/ UNCHANGED <<content, pointer, applied>>
             \/ StorePrepared(t) \/ ReplaceBytes(t) \/ StorePublished(t)
    BY <1>1 DEF Step, Lock, Check, StorePayload, StoreIntent, StoreExecution, StoreCompleted, Abort
<1>2. CASE Acquire \/ \E g \in Generations : Renew(g) \/ Close(g) \/ Expire(g) \/ Tick(g)
    BY <1>2 DEF Acquire, Renew, Close, Expire, Tick
<1>3. ASSUME NEW t \in Threads, LoseTransaction(t) PROVE UNCHANGED <<content, pointer, applied>>
    BY <1>3 DEF LoseTransaction
<1>4. ASSUME NEW t \in Threads, NEW o \in Operations, NEW g \in Generations,
             Resume(t, o, g) \/ \E d \in Data : Write(t, o, g, d)
      PROVE  UNCHANGED <<content, pointer, applied>>
    BY <1>4 DEF Resume, Write, Enter
<1>5. CASE \E o \in Operations : RegisterEffect(o) \/ ReconcileEffect(o)
    BY <1>5 DEF RegisterEffect, ReconcileEffect
<1>6. CASE UNCHANGED vars
    BY <1>6 DEF vars
<1> QED  BY <1>1, <1>2, <1>3, <1>4, <1>5, <1>6 DEF Next

(* The gateway with its leases, locks, crashes and resumptions implements    *)
(* EffectRegister: one operation at a time, each replacing the bytes at most *)
(* once, the next beginning only when the last is resolved.                  *)
THEOREM GatewayImplementsRegister == Spec => OneEffectAtATime
<1> DEFINE open == IF pointer.state = "prepared" THEN pointer.op ELSE Nothing
<1>1. Init => Register!Init
    BY DEF Init, Register!Init, NoPointer
<1>2. ASSUME EffectsInv, [Next]_vars PROVE [Register!Next]_<<content, open, applied>>
  <2>1. CASE UNCHANGED <<content, pointer, applied>>
      BY <2>1
  <2>2. ASSUME NEW t \in Threads, StorePrepared(t) PROVE [Register!Next]_<<content, open, applied>>
    <3> DEFINE o == thread[t].op
    <3>0. "prepare" \in Stages /\ Store(t, "prepare") /\ pointer' = Prepared(o) /\ UNCHANGED <<content, applied>>
        BY <2>2 DEF StorePrepared, Stages
    <3>1. o \in Operations /\ thread[t].pc = "prepare"
        BY <1>2, <3>0, StoreFacts
    <3>2. intent[o] # NoIntent /\ pointer \in {intent[o].previous, Prepared(o)}
        BY <1>2, <3>1 DEF EffectsInv, RecordInv, StageOK
    <3>3. open' = o
        BY <3>0, Pointers
    <3>4. open = o \/ open = Nothing
        BY <1>2, <3>1, <3>2, PreviousBytes, Pointers
    <3>5. CASE open = o
        BY <3>0, <3>3, <3>5
    <3>6. CASE open = Nothing
        BY <3>0, <3>1, <3>3, <3>6 DEF Register!Next, Register!Begin
    <3> QED  BY <3>4, <3>5, <3>6
  <2>3. ASSUME NEW t \in Threads, ReplaceBytes(t) PROVE [Register!Next]_<<content, open, applied>>
    <3> DEFINE o == thread[t].op
    <3>1. /\ o \in Operations /\ pointer = Prepared(o) /\ applied[o] = 0 /\ UNCHANGED pointer
          /\ applied' = [applied EXCEPT ![o] = @ + 1]
        BY <1>2, <2>3, ReplaceFacts DEF ReplaceBytes
    <3>2. open = o /\ UNCHANGED open
        BY <3>1, Pointers
    <3>3. applied' = [applied EXCEPT ![o] = 1]
        BY <1>2, <3>1 DEF EffectsInv, TypeOK
    <3> QED  BY <3>1, <3>2, <3>3 DEF Register!Next, Register!Replace
  <2>4. ASSUME NEW t \in Threads, StorePublished(t) PROVE [Register!Next]_<<content, open, applied>>
    <3> DEFINE o == thread[t].op
    <3>0. "publish" \in Stages /\ Store(t, "publish") /\ pointer' = Completed(o) /\ UNCHANGED <<content, applied>>
        BY <2>4 DEF StorePublished, Stages
    <3>1. o \in Operations /\ thread[t].pc = "publish"
        BY <1>2, <3>0, StoreFacts
    <3>2. pointer = Prepared(o)
        BY <1>2, <3>1 DEF EffectsInv, RecordInv, StageOK
    <3>3. open = o /\ open' = Nothing /\ o # Nothing
        BY <3>0, <3>1, <3>2, Pointers, NothingElse
    <3> QED  BY <3>0, <3>3 DEF Register!Next, Register!Resolve
  <2> QED  BY <1>2, <2>1, <2>2, <2>3, <2>4, RegisterStep
<1>3. Spec => Register!Init /\ [][Register!Next]_<<content, open, applied>>
    BY <1>1, <1>2, EffectsInvariant, PTL DEF Spec
<1> QED  BY <1>3 DEF OneEffectAtATime, Register!Spec

=============================================================================
