--------------------------- MODULE LeasedEffects ---------------------------
(***************************************************************************)
(* Protected writes of one file resource: the leases of LeaseAuthority     *)
(* (lease_authority.py), LocalFileEffectGateway with its durable records   *)
(* (effects.py) and the registration of publications (effect_domain.py).   *)
(*                                                                         *)
(* A write holds the resource lock of the Domain in one transaction and    *)
(* the gateway's file lock, and stores one record after the other: payload,*)
(* intent, current pointer, execution, bytes, completion, pointer.  Before *)
(* each it checks its lease.  A call can fail or its process can die at    *)
(* any step, which releases both locks and leaves the records; it can also *)
(* lose its Domain transaction, and the resource lock with it, and go on   *)
(* until its next check.  An owner of a later lease resumes the operation. *)
(*                                                                         *)
(* Lease identity, fencing token and owner go with the generation.  The    *)
(* calls in Threads may belong to any owner.                               *)
(***************************************************************************)
EXTENDS Naturals, FiniteSets

CONSTANTS
  Threads,      \* calls of the gateway that may be under way at a time
  Operations,   \* operation ids
  Data,         \* payloads
  Nothing,      \* no operation, no data, no file, no thread
  MaxLeases,    \* bound: leases granted for the resource
  MaxEffects,   \* bound: publications registered
  Ttl           \* clock ticks a lease lasts

ASSUME LeaseBounds == MaxLeases \in Nat \ {0} /\ Ttl \in Nat \ {0} /\ MaxEffects \in Nat

ASSUME NothingElse == Nothing \notin Threads \cup Operations \cup Data

VARIABLES
  status,    \* leases: status by generation
  left,      \* leases: ticks until expires_at, by generation
  lock,      \* thread whose transaction holds the resource lock
  holder,    \* thread that holds the file lock
  thread,    \* the calls under way
  content,   \* bytes of the resource
  payload,   \* operations/*.payload
  intent,    \* operations/*.intent
  execs,     \* operations/*.execution-*: operation and generation
  done,      \* operations with a .completed record
  pointer,   \* current/*.json
  effect,    \* effects.status of the operation's registered publication
  applied,   \* history: how often an operation replaced the bytes
  stale      \* history: records stored under an older lease since a newer one

files   == <<content, payload, intent, execs, done, pointer>>
history == <<applied, stale>>
vars == <<status, left, lock, holder, thread, files, effect, history>>

Generations == 1..MaxLeases
Idle        == [pc |-> "idle", op |-> Nothing, gen |-> 0, data |-> Nothing, resumes |-> FALSE,
                alive |-> FALSE, checked |-> FALSE]
NoIntent    == [gen |-> 0, old |-> Nothing, new |-> Nothing, previous |-> Nothing]
NoPointer   == [op |-> Nothing, state |-> "none"]

\* Stages of _write, each of which stores one record.
Stages == {"payload", "intent", "prepare", "execution", "apply", "complete", "publish"}

Init ==
  /\ status = [g \in Generations |-> "none"] /\ left = [g \in Generations |-> 0]
  /\ lock = Nothing /\ holder = Nothing /\ thread = [t \in Threads |-> Idle]
  /\ content = Nothing /\ payload = [o \in Operations |-> Nothing]
  /\ intent = [o \in Operations |-> NoIntent] /\ execs = {} /\ done = {}
  /\ pointer = NoPointer /\ effect = [o \in Operations |-> "none"]
  /\ applied = [o \in Operations |-> 0] /\ stale = 0

-----------------------------------------------------------------------------
(* Leases.  Every command runs in a transaction under the resource lock.   *)

Newest == Cardinality({g \in Generations : status[g] # "none"})

\* _verify_row: the lease is granted and has not reached expires_at.
Current(g) == status[g] = "granted" /\ left[g] > 0

\* Mutant: a lease that is still current is passed over.
AcquireGranted ==
  /\ lock = Nothing /\ Newest < MaxLeases
  /\ status' = [status EXCEPT ![Newest + 1] = "granted"]
  /\ left' = [left EXCEPT ![Newest + 1] = Ttl]
  /\ stale' = 0
  /\ UNCHANGED <<lock, holder, thread, files, effect, applied>>

\* acquire_lease: closes an expired predecessor and grants the next generation.
Acquire ==
  /\ lock = Nothing /\ Newest < MaxLeases
  /\ \A g \in Generations : ~Current(g)
  /\ status' = [g \in Generations |-> IF g = Newest + 1 THEN "granted"
                                      ELSE IF status[g] = "granted" THEN "expired" ELSE status[g]]
  /\ left' = [left EXCEPT ![Newest + 1] = Ttl]
  /\ stale' = 0
  /\ UNCHANGED <<lock, holder, thread, files, effect, applied>>

Renew(g) ==
  /\ lock = Nothing /\ Current(g)
  /\ left' = [left EXCEPT ![g] = Ttl]
  /\ UNCHANGED <<status, lock, holder, thread, files, effect, history>>

\* release_lease and revoke_lease, which differ in the permission they need.
Close(g) ==
  /\ lock = Nothing /\ Current(g)
  /\ status' = [status EXCEPT ![g] = "closed"]
  /\ UNCHANGED <<left, lock, holder, thread, files, effect, history>>

\* expire_leases, by maintenance.
Expire(g) ==
  /\ lock = Nothing /\ status[g] = "granted" /\ left[g] = 0
  /\ status' = [status EXCEPT ![g] = "expired"]
  /\ UNCHANGED <<left, lock, holder, thread, files, effect, history>>

\* Time passes for a granted lease; nothing looks at the expiry of another.
Tick(g) ==
  /\ Current(g)
  /\ left' = [left EXCEPT ![g] = @ - 1]
  /\ UNCHANGED <<status, lock, holder, thread, files, effect, history>>

-----------------------------------------------------------------------------
(* The gateway                                                             *)

Enter(t, o, g, d, resumes) ==
  /\ thread[t].pc = "idle"
  /\ lock = Nothing /\ Current(g)
  /\ lock' = t
  /\ thread' = [thread EXCEPT ![t] = [pc |-> "fenced", op |-> o, gen |-> g, data |-> d,
                                      resumes |-> resumes, alive |-> TRUE, checked |-> FALSE]]
  /\ UNCHANGED <<status, left, holder, files, effect, history>>

Write(t, o, g, d) == Enter(t, o, g, d, FALSE)

\* resume: the payload is the stored one.
Resume(t, o, g) == intent[o] # NoIntent /\ Enter(t, o, g, payload[o], TRUE)

\* Both locks of a call that ends are released.
End(t) ==
  /\ thread' = [thread EXCEPT ![t] = Idle]
  /\ lock' = IF lock = t THEN Nothing ELSE lock
  /\ holder' = IF holder = t THEN Nothing ELSE holder

\* Mutant: one check is enough for the rest of the call.
GotoChecked(t, pc) ==
  /\ thread' = [thread EXCEPT ![t].pc = pc]
  /\ UNCHANGED <<lock, holder>>

Goto(t, pc) ==
  /\ thread' = [thread EXCEPT ![t].pc = pc, ![t].checked = FALSE]
  /\ UNCHANGED <<lock, holder>>

\* Immutable identity: a write repeats its lease and bytes, a resumption only
\* the stored bytes.
SameIdentity(t) ==
  LET c == thread[t] IN c.data = intent[c.op].new /\ (c.resumes \/ c.gen = intent[c.op].gen)

Prepared(o)  == [op |-> o, state |-> "prepared"]
Completed(o) == [op |-> o, state |-> "completed"]

\* Mutant: the pointer is not compared with the one the intent was made for.
AdvancedNever(o) == FALSE

Advanced(o) == pointer \notin {intent[o].previous, Prepared(o)}

\* What a call finds once it has the file lock: the stage it goes on with,
\* "finish" for a recorded completion, or "refuse".
Entry(t) ==
  LET o == thread[t].op
  IN  IF intent[o] = NoIntent
      THEN IF pointer.state = "prepared" THEN "refuse" ELSE "payload"
      ELSE IF ~SameIdentity(t) THEN "refuse"
      ELSE IF o \in done THEN IF pointer = Prepared(o) THEN "publish" ELSE "finish"
      ELSE IF Advanced(o) THEN "refuse" ELSE "prepare"

Lock(t) ==
  /\ thread[t].pc = "fenced" /\ holder = Nothing
  /\ IF Entry(t) \in Stages
     THEN /\ thread' = [thread EXCEPT ![t].pc = Entry(t)]
          /\ holder' = t /\ UNCHANGED lock
     ELSE End(t)
  /\ UNCHANGED <<status, left, files, effect, history>>

\* check_current, just before a record is stored.
Check(t) ==
  /\ thread[t].pc \in Stages /\ ~thread[t].checked
  /\ thread[t].alive /\ Current(thread[t].gen)
  /\ thread' = [thread EXCEPT ![t].checked = TRUE]
  /\ UNCHANGED <<status, left, lock, holder, files, effect, history>>

\* _persist: the checked call links or replaces a file.
Store(t, pc) ==
  /\ thread[t].pc = pc /\ thread[t].checked
  /\ stale' = IF thread[t].gen < Newest THEN stale + 1 ELSE stale
  /\ UNCHANGED <<status, left, effect>>

\* A payload stored under this id by an earlier call must be the same.
StorePayload(t) ==
  LET c == thread[t]
  IN  /\ Store(t, "payload")
      /\ payload' = IF payload[c.op] = Nothing THEN [payload EXCEPT ![c.op] = c.data] ELSE payload
      /\ IF payload'[c.op] = c.data THEN Goto(t, "intent") ELSE End(t)
      /\ UNCHANGED <<content, intent, execs, done, pointer, applied>>

StoreIntent(t) ==
  LET c == thread[t]
  IN  /\ Store(t, "intent")
      /\ intent' = [intent EXCEPT ![c.op] = [gen |-> c.gen, old |-> content, new |-> c.data,
                                             previous |-> pointer]]
      /\ Goto(t, "prepare")
      /\ UNCHANGED <<content, payload, execs, done, pointer, applied>>

StorePrepared(t) ==
  LET c == thread[t]
  IN  /\ Store(t, "prepare")
      /\ pointer' = Prepared(c.op)
      /\ Goto(t, "execution")
      /\ UNCHANGED <<content, payload, intent, execs, done, applied>>

\* Mutant: a replacement whose outcome is unknown is repeated.
ObservedRepeats(o) == "apply"

\* Which stage the bytes on disk call for.
Observed(o) ==
  IF content = intent[o].new THEN "complete" ELSE IF content = intent[o].old THEN "apply" ELSE "refuse"

StoreExecution(t) ==
  LET c == thread[t]
  IN  /\ Store(t, "execution")
      /\ execs' = execs \cup {<<c.op, c.gen>>}
      /\ IF Observed(c.op) \in Stages THEN Goto(t, Observed(c.op)) ELSE End(t)
      /\ UNCHANGED <<content, payload, intent, done, pointer, applied>>

ReplaceBytes(t) ==
  LET c == thread[t]
  IN  /\ Store(t, "apply")
      /\ content' = c.data
      /\ applied' = [applied EXCEPT ![c.op] = @ + 1]
      /\ Goto(t, "complete")
      /\ UNCHANGED <<payload, intent, execs, done, pointer>>

StoreCompleted(t) ==
  LET c == thread[t]
  IN  /\ Store(t, "complete")
      /\ done' = done \cup {c.op}
      /\ Goto(t, "publish")
      /\ UNCHANGED <<content, payload, intent, execs, pointer, applied>>

StorePublished(t) ==
  LET c == thread[t]
  IN  /\ Store(t, "publish")
      /\ pointer' = Completed(c.op)
      /\ End(t)
      /\ UNCHANGED <<content, payload, intent, execs, done, applied>>

\* A check fails, a file operation raises or the process dies.
Abort(t) ==
  /\ thread[t].pc # "idle"
  /\ End(t)
  /\ UNCHANGED <<status, left, files, effect, history>>

\* The Domain transaction of a call is gone; the call does not know yet.
LoseTransaction(t) ==
  /\ thread[t].alive /\ lock = t
  /\ thread' = [thread EXCEPT ![t].alive = FALSE] /\ lock' = Nothing
  /\ UNCHANGED <<status, left, holder, files, effect, history>>

-----------------------------------------------------------------------------
(* Publication registration, with the row locks a write holds as well      *)

\* Mutant: matching bytes are proof enough.
VerifiedByBytes(o) == "verified"

Verified(o) == IF o \in done THEN "verified" ELSE "uncertain"

\* _observe: the current bytes are those of the intent.
Observable(o) ==
  /\ lock = Nothing /\ holder = Nothing
  /\ intent[o] # NoIntent /\ content = intent[o].new

RegisterEffect(o) ==
  /\ effect[o] = "none" /\ Observable(o)
  /\ Cardinality({p \in Operations : effect[p] # "none"}) < MaxEffects
  /\ effect' = [effect EXCEPT ![o] = Verified(o)]
  /\ UNCHANGED <<status, left, lock, holder, thread, files, history>>

ReconcileEffect(o) ==
  /\ effect[o] = "uncertain" /\ Observable(o)
  /\ effect' = [effect EXCEPT ![o] = Verified(o)]
  /\ UNCHANGED <<status, left, lock, holder, thread, files, history>>

Step(t) ==
  \/ Lock(t) \/ Check(t) \/ StorePayload(t) \/ StoreIntent(t) \/ StorePrepared(t)
  \/ StoreExecution(t) \/ ReplaceBytes(t) \/ StoreCompleted(t) \/ StorePublished(t) \/ Abort(t)

Next ==
  \/ Acquire
  \/ \E g \in Generations :
       Renew(g) \/ Close(g) \/ Expire(g) \/ Tick(g)
  \/ \E t \in Threads :
       \/ Step(t) \/ LoseTransaction(t)
       \/ \E o \in Operations, g \in Generations :
            Resume(t, o, g) \/ \E d \in Data : Write(t, o, g, d)
  \/ \E o \in Operations : RegisterEffect(o) \/ ReconcileEffect(o)

Spec == Init /\ [][Next]_vars

-----------------------------------------------------------------------------
(* Properties                                                              *)

Calls ==
  [pc : {"idle", "fenced"} \cup Stages, op : Operations \cup {Nothing}, gen : 0..MaxLeases,
   data : Data \cup {Nothing}, resumes : BOOLEAN, alive : BOOLEAN, checked : BOOLEAN]

Intents ==
  [gen : Generations, old : Data \cup {Nothing}, new : Data,
   previous : {NoPointer} \cup {Completed(p) : p \in Operations}]

\* Leases, locks, calls and stored records keep their shape.
TypeOK ==
  /\ status \in [Generations -> {"none", "granted", "expired", "closed"}]
  /\ left \in [Generations -> 0..Ttl]
  /\ lock \in Threads \cup {Nothing} /\ holder \in Threads \cup {Nothing}
  /\ thread \in [Threads -> Calls]
  /\ \A t \in Threads : thread[t].pc # "idle" =>
       thread[t].op \in Operations /\ thread[t].gen \in Generations /\ thread[t].data \in Data
  /\ content \in Data \cup {Nothing} /\ payload \in [Operations -> Data \cup {Nothing}]
  /\ intent \in [Operations -> {NoIntent} \cup Intents]
  /\ execs \subseteq Operations \X Generations /\ done \subseteq Operations
  /\ pointer \in {NoPointer} \cup [op : Operations, state : {"prepared", "completed"}]
  /\ effect \in [Operations -> {"none", "uncertain", "verified"}]
  /\ applied \in [Operations -> Nat] /\ stale \in Nat

\* The gateway implements the promise of EffectRegister.
Register == INSTANCE EffectRegister WITH
              bytes <- content,
              open <- IF pointer.state = "prepared" THEN pointer.op ELSE Nothing,
              count <- applied

\* Whatever fails and whoever resumes, the next operation begins only when the
\* last is resolved, and the bytes change at most once for each.
OneEffectAtATime == Register!Spec

\* An operation that was begun and not resolved can be resumed: its intent is
\* there and the bytes are the ones before it or the ones it stores.  Only the
\* latter once it is recorded as completed.
UnresolvedIsResumable ==
  pointer.state = "prepared" =>
    LET o == pointer.op
    IN  /\ intent[o] # NoIntent /\ payload[o] = intent[o].new
        /\ content \in {intent[o].old, intent[o].new}
        /\ o \in done => content = intent[o].new

\* A resolved pointer tells the truth about the bytes.
PublishedIsCurrent ==
  pointer.state = "completed" => pointer.op \in done /\ content = intent[pointer.op].new

\* The pointer, the one file a later call relies on, is true in both states.
PointerIsTrue == UnresolvedIsResumable /\ PublishedIsCurrent

\* Whoever replaced the bytes for an operation left its execution record, and
\* a registered publication is verified only if the operation completed.
ExecutionIsRecorded ==
  \A o \in Operations :
    /\ applied[o] > 0 \/ o \in done => \E g \in Generations : <<o, g>> \in execs
    /\ effect[o] = "verified" => o \in done

\* Fencing: the bytes are never replaced under a lease older than one under
\* which an execution is already recorded.
ReplacementsInOrder ==
  [][content' # content => \A e \in execs : e[2] <= thread[holder].gen]_vars

\* A call whose lease was superseded after its check finishes that one file
\* operation and stores nothing more.
OneStaleStep == stale <= 1

=============================================================================
