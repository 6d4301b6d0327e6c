--------------------------- MODULE SignedReceiver ---------------------------
(***************************************************************************)
(* One invoke message delivered through the signed receiver protocol.      *)
(*                                                                         *)
(* The Core side is a dispatcher call that uses RemoteNodeEndpointAdapter  *)
(* (deliver, reconcile_marked, recover_prepared: receiver_delivery.py) and *)
(* writes the Domain (delivery.py, receiver_domain.py); calls on one       *)
(* message exclude each other by its advisory lock, so there is one        *)
(* sender.  The receiver side is ReceiverService over its SQLite ledger    *)
(* (receiver.py), one process per boot, with one thread per HTTP request.  *)
(* A request can be lost, arrive after the sender stopped waiting, or be   *)
(* sent again; either side can crash; the endpoint can be registered for a *)
(* new boot, whose process may start while the old one is still running.   *)
(*                                                                         *)
(* Boots are numbered as registered, and the journal generation, the       *)
(* endpoint revision and the isolation reference go with them.             *)
(***************************************************************************)
EXTENDS Naturals

CONSTANTS
  MaxBoot,       \* bound: boots the endpoint is registered for
  MaxAttempts,   \* maximum_attempts of the message
  MaxFaults      \* bound: crashes of the Core and of receiver processes

ASSUME BoundsAssumption ==
  /\ MaxBoot \in Nat \ {0} /\ MaxAttempts \in Nat \ {0} /\ MaxFaults \in Nat

VARIABLES
  row,       \* delivery_messages.state
  ord,       \* delivery_messages.attempts, the ordinal of the last attempt
  attempt,   \* status of the last attempt
  sel,       \* boot in the selection of the last attempt
  marked,    \* the Domain has the runtime_dispatched receipt
  adm,       \* delivery_transport_admissions: boot and state per request
  reg,       \* boot of the active endpoint registration
  sender,    \* the dispatcher call under way and its open connection
  observer,  \* attempt whose acknowledgement an observer has read, or 0
  late,      \* requests in transit that nobody waits for
  boot,      \* receiver_meta: current_boot
  prep,      \* receiver_requests: boot of the stored preparation, or 0
  disp,      \* receiver_requests: dispatch and recover rows
  procs,     \* boots whose receiver process runs
  thread,    \* handler threads that execute a dispatch
  calls,     \* Native inputs of the message that really happened
  expired,   \* the deadline of the message has passed
  faults

message  == <<row, ord, attempt, sel, marked>>
ledger   == <<prep, disp>>
vars == <<message, adm, reg, sender, observer, late, boot, ledger, procs, thread,
          calls, expired, faults>>

Attempts   == 1..MaxAttempts
Executions == {"dispatch", "recover"}
Purposes   == {"prepare"} \cup Executions
Terminal   == {"delivered", "uncertain", "expired", "blocked", "budget_exhausted"}
Final      == {"runtime_acknowledged", "uncertain", "blocked"}

Idle == [pc |-> "idle", mode |-> "deliver", conn |-> "none", got |-> "none"]

Init ==
  /\ row = "queued" /\ ord = 0 /\ attempt = "none" /\ sel = 0 /\ marked = FALSE
  /\ adm = [n \in Attempts |-> [p \in Purposes |-> [boot |-> 0, state |-> "none"]]]
  /\ reg = 1 /\ boot = 1 /\ procs = {1}
  /\ sender = Idle /\ observer = 0 /\ late = {}
  /\ prep = [n \in Attempts |-> 0]
  /\ disp = [n \in Attempts |-> [p \in Executions |-> [boot |-> 0, state |-> "none"]]]
  /\ thread = [n \in Attempts |-> [p \in Executions |-> "none"]]
  /\ calls = 0 /\ expired = FALSE /\ faults = 0

-----------------------------------------------------------------------------
(* The dispatcher call                                                     *)

\* _finish: the message takes the state, an open attempt is closed with it.
Finish(state) ==
  /\ row' = state
  /\ attempt' = IF attempt \in {"prepared", "runtime_dispatched"} THEN state ELSE attempt
  /\ UNCHANGED <<ord, sel, marked>>

\* _failure on an error that is no rejection: the attempt may be repeated.
Retry == Finish(IF ord >= MaxAttempts THEN "budget_exhausted" ELSE "retry_wait")

\* What _selected_endpoint and _authorize say about a changed selection.
Denied == IF expired THEN "expired" ELSE "blocked"

Selected == sel = reg /\ ~expired

Claim == sender.pc = "idle" /\ row \notin Terminal

\* Mutant: an interrupted call leaves its marked attempt for a later one.
DispatchInterruptedDefers ==
  /\ Claim /\ attempt = "runtime_dispatched"
  /\ row' = "retry_wait" /\ UNCHANGED <<ord, attempt, sel, marked>>
  /\ UNCHANGED <<adm, reg, sender, observer, late, boot, ledger, procs, thread, calls, expired, faults>>

DispatchInterrupted ==
  /\ Claim /\ attempt = "runtime_dispatched"
  /\ Finish("uncertain")
  /\ UNCHANGED <<adm, reg, sender, observer, late, boot, ledger, procs, thread, calls, expired, faults>>

DispatchNew ==
  /\ Claim /\ attempt \notin {"prepared", "runtime_dispatched"}
  /\ ord < MaxAttempts /\ ~expired
  /\ ord' = ord + 1 /\ sel' = reg /\ attempt' = "prepared" /\ row' = "delivering"
  /\ sender' = [Idle EXCEPT !.pc = "begin"]
  /\ UNCHANGED <<marked, adm, reg, observer, late, boot, ledger, procs, thread, calls, expired, faults>>

DispatchPrepared ==
  /\ Claim /\ attempt = "prepared" /\ Selected
  /\ sender' = [Idle EXCEPT !.pc = "begin"]
  /\ UNCHANGED <<message, adm, reg, observer, late, boot, ledger, procs, thread, calls, expired, faults>>

DispatchDenied ==
  /\ Claim /\ attempt # "runtime_dispatched"
  /\ \/ attempt = "prepared" /\ ~Selected /\ Finish(Denied)
     \/ attempt # "prepared" /\ expired /\ Finish("expired")
  /\ UNCHANGED <<adm, reg, sender, observer, late, boot, ledger, procs, thread, calls, expired, faults>>

\* The request a waiting sender waits for: its connection carries this one.
Asked ==
  <<ord, IF sender.pc = "prepare" THEN "prepare"
         ELSE IF sender.mode = "recover" THEN "recover" ELSE "dispatch">>

\* _issue: a persisted admission is used again, byte for byte.
Issue(p, b) ==
  adm' = IF adm[ord][p].boot # 0 THEN adm
         ELSE [adm EXCEPT ![ord][p] = [boot |-> b, state |-> "issued"]]

\* A sender that stops waiting leaves its request in the network.
Abandoned == IF sender.conn = "net" THEN late \cup {Asked} ELSE late

BeginPrepare ==
  /\ sender.pc = "begin"
  /\ Selected
  /\ Issue("prepare", sel)
  /\ sender' = [sender EXCEPT !.pc = "prepare", !.conn = "net"]
  /\ UNCHANGED <<message, reg, observer, late, boot, ledger, procs, thread, calls, expired, faults>>

\* The selection is refused by authorize, or by persist_admission after it.
BeginRefused ==
  /\ sender.pc = "begin"
  /\ ~Selected
  /\ Finish(Denied) \/ Retry
  /\ sender' = Idle
  /\ UNCHANGED <<adm, reg, observer, late, boot, ledger, procs, thread, calls, expired, faults>>

\* No usable answer to the preparation: rejected before the marker.
PrepareFails ==
  /\ sender.pc = "prepare"
  /\ Finish("blocked")
  /\ late' = Abandoned /\ sender' = Idle
  /\ UNCHANGED <<adm, reg, observer, boot, ledger, procs, thread, calls, expired, faults>>

\* persist_receipt needs the registration the admission was issued under.
PrepareReplied ==
  /\ sender.pc = "prepare" /\ sender.conn = "reply"
  /\ IF reg = adm[ord]["prepare"].boot
     THEN /\ adm' = [adm EXCEPT ![ord]["prepare"].state = "prepared"]
          /\ sender' = [sender EXCEPT !.pc = "ready", !.conn = "none"]
          /\ UNCHANGED message
     ELSE /\ Retry /\ sender' = Idle /\ UNCHANGED adm
  /\ UNCHANGED <<reg, observer, late, boot, ledger, procs, thread, calls, expired, faults>>

\* queue_until_idle asks for readiness first; its admission may be refused.
Readiness ==
  /\ sender.pc = "ready"
  /\ \/ sender' = [sender EXCEPT !.pc = "mark"] /\ UNCHANGED message
     \/ /\ sender' = Idle /\ row' = "retry_wait" /\ UNCHANGED <<ord, attempt, sel, marked>>
     \/ ~Selected /\ Retry /\ sender' = Idle
  /\ UNCHANGED <<adm, reg, observer, late, boot, ledger, procs, thread, calls, expired, faults>>

\* mark_dispatched, under the row lock.
Mark ==
  /\ sender.pc = "mark"
  /\ IF Selected /\ attempt = "prepared"
     THEN /\ marked' = TRUE /\ attempt' = "runtime_dispatched"
          /\ sender' = [sender EXCEPT !.pc = "issue"]
          /\ UNCHANGED <<row, ord, sel>>
     ELSE Finish(Denied) /\ sender' = Idle
  /\ UNCHANGED <<adm, reg, observer, late, boot, ledger, procs, thread, calls, expired, faults>>

IssueDispatch ==
  /\ sender.pc = "issue"
  /\ IF Selected
     THEN /\ Issue("dispatch", sel)
          /\ sender' = [sender EXCEPT !.pc = "await", !.conn = "net"]
          /\ UNCHANGED message
     ELSE Finish("uncertain") /\ sender' = Idle /\ UNCHANGED adm
  /\ UNCHANGED <<reg, observer, late, boot, ledger, procs, thread, calls, expired, faults>>

\* Delivery status of a receiver state: a receipt stage is not a result.
Status(state) ==
  CASE state = "runtime_acknowledged" -> "delivered"
    [] state = "blocked" -> "blocked"
    [] OTHER -> "uncertain"

\* persist_receipt: state of the admission once its receipt is stored.
AdmissionState(state) == IF state = "runtime_acknowledged" THEN "completed" ELSE state

\* The receipt of the dispatch arrives.  One the Domain refuses ends the call
\* by an exception none of its handlers answers.
AwaitReplied ==
  /\ sender.pc = "await" /\ sender.conn = "reply"
  /\ LET p == Asked[2]
     IN  IF reg = adm[ord][p].boot
         THEN /\ adm' = [adm EXCEPT ![ord][p].state = AdmissionState(sender.got)]
              /\ sender' = [sender EXCEPT !.pc = "project", !.conn = "none", !.got = Status(@)]
         ELSE sender' = Idle /\ UNCHANGED adm
  /\ UNCHANGED <<message, reg, observer, late, boot, ledger, procs, thread, calls, expired, faults>>

AwaitFails ==
  /\ sender.pc = "await"
  /\ late' = Abandoned
  /\ sender' = [sender EXCEPT !.pc = "inspect", !.conn = "none", !.got = "none"]
  /\ UNCHANGED <<message, adm, reg, observer, boot, ledger, procs, thread, calls, expired, faults>>

\* inspect_delivery: a fresh readback of the row the request left, if any.
Readable(n, p) ==
  /\ adm[n][p].boot = reg /\ reg = boot /\ boot \in procs
  /\ disp[n][p].state # "none"

Inspect ==
  /\ sender.pc = "inspect"
  /\ LET p == Asked[2]
     IN  \/ /\ Readable(ord, p)
            /\ sender' = [sender EXCEPT !.pc = "project", !.got = Status(disp[ord][p].state)]
         \/ /\ reg = adm[ord][p].boot \/ sender.mode = "deliver"
            /\ sender' = [sender EXCEPT !.pc = "project", !.got = "uncertain"]
         \/ reg # adm[ord][p].boot /\ sender.mode # "deliver" /\ sender' = Idle
  /\ UNCHANGED <<message, adm, reg, observer, late, boot, ledger, procs, thread, calls, expired, faults>>

\* The final transaction.  Only reconciliation looks at the state again.
Project ==
  /\ sender.pc = "project"
  /\ IF sender.mode # "reconcile" THEN Finish(sender.got)
     ELSE IF row = "uncertain" /\ attempt = "uncertain" /\ Selected
     THEN row' = sender.got /\ attempt' = sender.got /\ UNCHANGED <<ord, sel, marked>>
     ELSE UNCHANGED message
  /\ sender' = Idle
  /\ UNCHANGED <<adm, reg, observer, late, boot, ledger, procs, thread, calls, expired, faults>>

\* reconcile_marked: the persisted dispatch is sent again as it is.
Reconcile ==
  /\ sender.pc = "idle" /\ row = "uncertain" /\ attempt = "uncertain" /\ marked
  /\ Selected
  /\ adm[ord]["dispatch"].boot = sel /\ adm[ord]["prepare"].state = "prepared"
  /\ sender' = [Idle EXCEPT !.pc = "await", !.mode = "reconcile", !.conn = "net"]
  /\ UNCHANGED <<message, adm, reg, observer, late, boot, ledger, procs, thread, calls, expired, faults>>

\* recover_prepared: an unmarked preparation of the boot the message was sent
\* under goes to the current boot; the admission is persisted before the mark.
Recoverable == attempt = "prepared" /\ sel = 1 /\ reg > sel /\ ~expired

Recover ==
  /\ Claim /\ Recoverable /\ ~marked
  /\ adm[ord]["prepare"].state = "prepared"
  /\ adm[ord]["recover"].boot \in {0, reg}
  /\ Issue("recover", reg)
  /\ sender' = [Idle EXCEPT !.pc = "recmark", !.mode = "recover"]
  /\ UNCHANGED <<message, reg, observer, late, boot, ledger, procs, thread, calls, expired, faults>>

RecoverMark ==
  /\ sender.pc = "recmark"
  /\ IF Recoverable /\ adm[ord]["recover"].boot = reg
     THEN /\ marked' = TRUE /\ attempt' = "runtime_dispatched"
          /\ sender' = [sender EXCEPT !.pc = "send"]
          /\ UNCHANGED <<row, ord, sel>>
     ELSE sender' = Idle /\ UNCHANGED message
  /\ UNCHANGED <<adm, reg, observer, late, boot, ledger, procs, thread, calls, expired, faults>>

SendRecover ==
  /\ sender.pc = "send"
  /\ sender' = [sender EXCEPT !.pc = "await", !.conn = "net"]
  /\ UNCHANGED <<message, adm, reg, observer, late, boot, ledger, procs, thread, calls, expired, faults>>

SenderCrash ==
  /\ sender.pc # "idle" /\ faults < MaxFaults
  /\ late' = Abandoned /\ sender' = Idle /\ faults' = faults + 1
  /\ UNCHANGED <<message, adm, reg, observer, boot, ledger, procs, thread, calls, expired>>

\* observe: a reader finds the acknowledgement by readback and records it.
ObserverReads ==
  /\ observer = 0 /\ ord # 0 /\ sel = reg
  /\ Readable(ord, "dispatch") /\ disp[ord]["dispatch"].state = "runtime_acknowledged"
  /\ row # "delivered"
  /\ observer' = ord
  /\ UNCHANGED <<message, adm, reg, sender, late, boot, ledger, procs, thread, calls, expired, faults>>

ObserverRecords ==
  /\ observer # 0
  /\ observer' = 0
  /\ IF observer = ord /\ sel = reg
     THEN row' = "delivered" /\ attempt' = "delivered" /\ UNCHANGED <<ord, sel, marked>>
     ELSE UNCHANGED message
  /\ UNCHANGED <<adm, reg, sender, late, boot, ledger, procs, thread, calls, expired, faults>>

-----------------------------------------------------------------------------
(* The receiver                                                            *)

\* A request reaches a process: the sender's own connection or a late copy.
Arrives(r, live) == IF live THEN sender.conn = "net" /\ Asked = r ELSE r \in late

Answer(r, live, conn, state) ==
  /\ sender' = IF live THEN [sender EXCEPT !.conn = conn, !.got = state] ELSE sender
  /\ late' = IF live THEN late ELSE late \ {r}

\* _verify and _check_current_boot.
Admitted(n, p) == adm[n][p].boot = boot /\ boot \in procs /\ ~expired

\* The unique index on local_dispatch_marker and the checks that go with it.
Unmarked(n) == \A p \in Executions : disp[n][p].state = "none"

HandlePrepare(n, live) ==
  /\ Arrives(<<n, "prepare">>, live) /\ Admitted(n, "prepare")
  /\ prep[n] # 0 \/ Unmarked(n)
  /\ prep' = IF prep[n] # 0 THEN prep ELSE [prep EXCEPT ![n] = boot]
  /\ Answer(<<n, "prepare">>, live, "reply", "prepared")
  /\ UNCHANGED <<message, adm, reg, observer, boot, disp, procs, thread, calls, expired, faults>>

\* A dispatch needs the preparation of its own boot.
MatchPrepare(n) == prep[n] = boot

\* A recovery needs the preparation of the boot just before.
MatchOldBoot(n) == prep[n] # 0 /\ prep[n] + 1 = boot

Prepared(n, p) == IF p = "recover" THEN MatchOldBoot(n) ELSE MatchPrepare(n)

\* The first copy of a dispatch writes the local marker and starts to execute.
HandleDispatch(n, p, live) ==
  /\ Arrives(<<n, p>>, live) /\ Admitted(n, p)
  /\ disp[n][p].state = "none"
  /\ Prepared(n, p) /\ Unmarked(n)
  /\ disp' = [disp EXCEPT ![n][p] = [boot |-> boot, state |-> "runtime_dispatched"]]
  /\ thread' = [thread EXCEPT ![n][p] = "marked"]
  /\ Answer(<<n, p>>, live, "thread", "none")
  /\ UNCHANGED <<message, adm, reg, observer, boot, prep, procs, calls, expired, faults>>

\* Mutant: a copy that finds the execution dead executes it again.
HandleDuplicateAgain(n, p, live) ==
  /\ Arrives(<<n, p>>, live) /\ Admitted(n, p)
  /\ disp[n][p].state = "runtime_dispatched" /\ thread[n][p] = "none"
  /\ thread' = [thread EXCEPT ![n][p] = "marked"]
  /\ Answer(<<n, p>>, live, "thread", "none")
  /\ UNCHANGED <<message, adm, reg, observer, boot, ledger, procs, calls, expired, faults>>

\* A further copy is answered from the row, and finds out by its lease that
\* the execution has died.
HandleDuplicate(n, p, live) ==
  /\ Arrives(<<n, p>>, live) /\ Admitted(n, p)
  /\ disp[n][p].state # "none"
  /\ LET died == disp[n][p].state = "runtime_dispatched" /\ thread[n][p] = "none"
     IN  /\ disp' = IF died THEN [disp EXCEPT ![n][p].state = "uncertain"] ELSE disp
         /\ Answer(<<n, p>>, live, "reply", disp'[n][p].state)
  /\ UNCHANGED <<message, adm, reg, observer, boot, prep, procs, thread, calls, expired, faults>>

\* The deadline passes between the verification of a copy and its look at the
\* lease, which is then no longer active although the execution goes on.
HandleAtDeadline(n, p, live) ==
  /\ Arrives(<<n, p>>, live) /\ Admitted(n, p)
  /\ disp[n][p].state = "runtime_dispatched" /\ thread[n][p] # "none"
  /\ expired' = TRUE
  /\ disp' = [disp EXCEPT ![n][p].state = "uncertain"]
  /\ Answer(<<n, p>>, live, "reply", "uncertain")
  /\ UNCHANGED <<message, adm, reg, observer, boot, prep, procs, thread, calls, faults>>

\* A thread ends.  It reports a result only for a row that is still its own:
\* otherwise, and where the code raises, its connection ends without a receipt.
Leave(n, p, state, answered) ==
  LET own == disp[n][p].state = "runtime_dispatched"
  IN  /\ disp' = IF own THEN [disp EXCEPT ![n][p].state = state] ELSE disp
      /\ thread' = [thread EXCEPT ![n][p] = "none"]
      /\ sender' = IF sender.conn # "thread" \/ Asked # <<n, p>> THEN sender
                   ELSE IF own /\ answered THEN [sender EXCEPT !.conn = "reply", !.got = state]
                   ELSE [sender EXCEPT !.conn = "none"]

\* _invoke_with_fence, first transaction: boot, deadline and authority are
\* current, else the execution is blocked without a call.
Admit(n, p) ==
  /\ thread[n][p] = "marked"
  /\ disp[n][p].boot = boot /\ reg = boot /\ ~expired
  /\ disp[n][p].state = "runtime_dispatched"
  /\ thread' = [thread EXCEPT ![n][p] = "calling"]
  /\ UNCHANGED <<message, adm, reg, sender, observer, late, boot, ledger, procs, calls, expired, faults>>

AdmitRefused(n, p) ==
  /\ thread[n][p] = "marked"
  /\ Leave(n, p, "blocked", TRUE)
  /\ UNCHANGED <<message, adm, reg, observer, late, boot, prep, procs, calls, expired, faults>>

\* The bridge enters the Native once it has read the Domain marker back.
CallNative(n, p) ==
  /\ thread[n][p] = "calling" /\ marked
  /\ calls' = calls + 1
  /\ thread' = [thread EXCEPT ![n][p] = "called"]
  /\ UNCHANGED <<message, adm, reg, sender, observer, late, boot, ledger, procs, expired, faults>>

\* The Native, the bridge or the connection to it fails, before or after.
NativeFails(n, p) ==
  /\ thread[n][p] \in {"calling", "called"}
  /\ Leave(n, p, "uncertain", TRUE)
  /\ UNCHANGED <<message, adm, reg, observer, late, boot, prep, procs, calls, expired, faults>>

\* Mutant: a boot replaced during the call is reported like one before it.
CompleteBlocked(n, p) ==
  /\ thread[n][p] = "called"
  /\ Leave(n, p, IF disp[n][p].boot = boot /\ ~expired
                 THEN "runtime_acknowledged" ELSE "blocked", ~expired)
  /\ UNCHANGED <<message, adm, reg, observer, late, boot, prep, procs, calls, expired, faults>>

\* Last transaction: only the execution that still owns its row acknowledges.
Complete(n, p) ==
  /\ thread[n][p] = "called"
  /\ Leave(n, p, IF disp[n][p].boot = boot /\ ~expired
                 THEN "runtime_acknowledged" ELSE "uncertain", ~expired)
  /\ UNCHANGED <<message, adm, reg, observer, late, boot, prep, procs, calls, expired, faults>>

\* claim_boot: the process of a newly registered boot takes the ledger over,
\* a restarted process of the current boot finds its own claim.
ClaimBoot ==
  /\ reg \notin procs /\ reg \in {boot, boot + 1}
  /\ boot' = reg /\ procs' = procs \cup {reg}
  /\ UNCHANGED <<message, adm, reg, sender, observer, late, ledger, thread, calls, expired, faults>>

ProcessCrash(b) ==
  /\ b \in procs /\ faults < MaxFaults
  /\ procs' = procs \ {b} /\ faults' = faults + 1
  /\ thread' = [n \in Attempts |-> [p \in Executions |->
                  IF disp[n][p].boot = b THEN "none" ELSE thread[n][p]]]
  /\ UNCHANGED <<message, adm, reg, sender, observer, late, boot, ledger, calls, expired>>

-----------------------------------------------------------------------------
(* Surroundings                                                            *)

RegisterBoot ==
  /\ reg < MaxBoot
  /\ reg' = reg + 1
  /\ UNCHANGED <<message, adm, sender, observer, late, boot, ledger, procs, thread, calls, expired, faults>>

DeadlinePasses ==
  /\ ~expired /\ expired' = TRUE
  /\ UNCHANGED <<message, adm, reg, sender, observer, late, boot, ledger, procs, thread, calls, faults>>

RequestLost(r) ==
  /\ r \in late /\ late' = late \ {r}
  /\ UNCHANGED <<message, adm, reg, sender, observer, boot, ledger, procs, thread, calls, expired, faults>>

Dispatch == DispatchInterrupted \/ DispatchNew \/ DispatchPrepared \/ DispatchDenied

Sender ==
  \/ BeginPrepare \/ BeginRefused \/ PrepareFails \/ PrepareReplied \/ Readiness
  \/ Mark \/ IssueDispatch \/ AwaitReplied \/ AwaitFails \/ Inspect \/ Project
  \/ RecoverMark \/ SendRecover

Receive(n, live) ==
  \/ HandlePrepare(n, live)
  \/ \E p \in Executions :
       HandleDispatch(n, p, live) \/ HandleDuplicate(n, p, live) \/ HandleAtDeadline(n, p, live)

Execute(n, p) ==
  Admit(n, p) \/ AdmitRefused(n, p) \/ CallNative(n, p) \/ NativeFails(n, p) \/ Complete(n, p)

Next ==
  \/ Dispatch \/ Sender \/ Reconcile \/ Recover \/ SenderCrash
  \/ ObserverReads \/ ObserverRecords
  \/ \E n \in Attempts, live \in BOOLEAN : Receive(n, live)
  \/ \E n \in Attempts, p \in Executions : Execute(n, p)
  \/ ClaimBoot \/ RegisterBoot \/ DeadlinePasses
  \/ \E b \in 1..MaxBoot : ProcessCrash(b)
  \/ \E r \in Attempts \X Purposes : RequestLost(r)

Spec == Init /\ [][Next]_vars

\* Maintenance dispatches a due message again and again, and a call goes on:
\* every wait of the sender ends by its timeout at the latest.
FairSpec == Spec /\ WF_vars(Dispatch) /\ WF_vars(Sender)

-----------------------------------------------------------------------------
(* Properties                                                              *)

AdmissionStates == {"none", "issued", "prepared", "runtime_dispatched", "completed",
                    "uncertain", "blocked"}

Senders ==
  [pc : {"idle", "begin", "prepare", "ready", "mark", "issue", "await", "inspect", "project",
         "recmark", "send"},
   mode : {"deliver", "reconcile", "recover"}, conn : {"none", "net", "thread", "reply"},
   got : {"none", "prepared", "runtime_dispatched", "delivered"} \cup Final]

Admissions == [boot : 0..MaxBoot, state : AdmissionStates]

Dispatches == [boot : 0..MaxBoot, state : {"none", "runtime_dispatched"} \cup Final]

\* Rows, admissions, the sender and the handler threads keep their shape.
TypeOK ==
  /\ row \in {"queued", "delivering", "retry_wait"} \cup Terminal
  /\ attempt \in {"none", "prepared", "runtime_dispatched", "retry_wait"} \cup Terminal
  /\ ord \in 0..MaxAttempts /\ sel \in 0..MaxBoot /\ marked \in BOOLEAN
  /\ adm \in [Attempts -> [Purposes -> Admissions]]
  /\ reg \in 1..MaxBoot /\ boot \in 1..MaxBoot /\ procs \subseteq 1..MaxBoot
  /\ sender \in Senders
  /\ observer \in 0..MaxAttempts /\ late \subseteq Attempts \X Purposes
  /\ prep \in [Attempts -> 0..MaxBoot] /\ disp \in [Attempts -> [Executions -> Dispatches]]
  /\ thread \in [Attempts -> [Executions -> {"none", "marked", "calling", "called"}]]
  /\ calls \in Nat /\ expired \in BOOLEAN /\ faults \in 0..MaxFaults

\* The protocol implements the hand-off promise of NativeHandoff for its one
\* message: first the Domain marker, once, and then at most one Native input.
Handoff == INSTANCE NativeHandoff WITH
             Messages <- {1}, marked <- [m \in {1} |-> marked], calls <- [m \in {1} |-> calls]

\* However often a dispatch is sent again, attempts are repeated, processes
\* crash and boots are replaced, there is one Native input, after the marker.
OneNativeInput == Handoff!Spec

\* "delivered" and a completed admission are no guesses: the Native took the
\* input, and the receiver recorded that.
DeliveredWasInvoked ==
  /\ row = "delivered" => calls = 1
  /\ \A n \in Attempts, p \in Executions :
       /\ adm[n][p].state = "completed" => disp[n][p].state = "runtime_acknowledged"
       /\ disp[n][p].state = "runtime_acknowledged" => calls = 1

\* A message reported as not invoked was not, and will not be by a request
\* still in the network or an execution still running.
BlockedWasNotInvoked ==
  /\ row \in {"blocked", "expired", "budget_exhausted"} => calls = 0
  /\ \A n \in Attempts, p \in Executions : disp[n][p].state = "blocked" => calls = 0

\* Whatever the ledger, the admissions and the receiver report is true of the
\* Native, across lost answers, late requests and replaced boots.
ReportsAreTrue == DeliveredWasInvoked /\ BlockedWasNotInvoked

\* A marked message does not stay open: the call that marked it, or the next
\* dispatch after its crash, settles it.
MarkedIsSettled == marked ~> row \in Terminal

=============================================================================
