----------------------- MODULE SignedReceiver_proofs -----------------------
(* Proofs about SignedReceiver for any number of attempts, boots and faults. *)
(* CallInv ties the stage of the dispatcher call to the Domain marker and to *)
(* the message row, RequestInv says what may still be in the network,        *)
(* LedgerInv that the receiver's ledger holds one execution at most and what *)
(* its row and its thread say of the Native, and ReportInv that answers on   *)
(* their way to the Domain, admissions and the row agree with the ledger.    *)
EXTENDS SignedReceiver, TLAPS

(* Stages of the call before the marker is written, and after.               *)
Before == {"begin", "prepare", "ready", "mark", "recmark"}
After  == {"issue", "await", "inspect", "project", "send"}

CallInv ==
  /\ sender.pc \in Before => ~marked /\ attempt = "prepared" /\ row \notin Terminal
  /\ sender.pc \in After => marked
  /\ sender.conn # "none" => sender.pc \in {"prepare", "await"}
  /\ sender.conn = "thread" => sender.pc = "await"
  /\ attempt # "none" => ord # 0
  /\ marked => attempt = "runtime_dispatched" \/ {row, attempt} \subseteq Terminal

RequestInv == \A r \in late : r[2] \in Executions => marked /\ r[1] = ord

LedgerInv ==
  /\ calls \in {0, 1}
  /\ (\A n \in Attempts : Unmarked(n)) => calls = 0
  /\ \A n \in Attempts : disp[n]["dispatch"].state = "none" \/ disp[n]["recover"].state = "none"
  /\ \A n \in Attempts, p \in Executions :
       /\ disp[n][p].state # "none" => marked /\ n = ord
       /\ thread[n][p] # "none" => disp[n][p].state \in {"runtime_dispatched", "uncertain"}
       /\ thread[n][p] \in {"marked", "calling"} => calls = 0
       /\ thread[n][p] = "called" => calls = 1
       /\ disp[n][p].state = "runtime_acknowledged" => calls = 1
       /\ disp[n][p].state = "blocked" => calls = 0

BlockedHere == \E p \in Executions : disp[ord][p].state = "blocked"

ReportInv ==
  /\ sender.pc = "await" /\ sender.conn = "reply" =>
       /\ sender.got \in {"runtime_dispatched"} \cup Final
       /\ sender.got \in {"runtime_acknowledged", "blocked"} => disp[ord][Asked[2]].state = sender.got
  /\ sender.pc = "project" =>
       /\ sender.got \in {"delivered", "blocked", "uncertain"}
       /\ sender.got = "delivered" => calls = 1
       /\ sender.got = "blocked" => BlockedHere
  /\ observer # 0 \/ row = "delivered" => calls = 1
  /\ marked /\ row \in {"blocked", "expired", "budget_exhausted"} => BlockedHere
  /\ \A n \in Attempts, p \in Executions :
       adm[n][p].state = "completed" => disp[n][p].state = "runtime_acknowledged"

ReceiverInv == TypeOK /\ CallInv /\ RequestInv /\ LedgerInv /\ ReportInv

-----------------------------------------------------------------------------
LEMMA InitInv == Init => ReceiverInv
<1> SUFFICES ASSUME Init PROVE ReceiverInv
    OBVIOUS
<1> USE BoundsAssumption DEF Init, Executions
<1>1. TypeOK
  <2>1. sender \in Senders
      BY DEF Idle, Senders
  <2>2. [boot |-> 0, state |-> "none"] \in Admissions /\ [boot |-> 0, state |-> "none"] \in Dispatches
      BY DEF Admissions, Dispatches, AdmissionStates
  <2>3. /\ adm \in [Attempts -> [Purposes -> Admissions]]
        /\ disp \in [Attempts -> [Executions -> Dispatches]]
        /\ thread \in [Attempts -> [Executions -> {"none", "marked", "calling", "called"}]]
      BY <2>2
  <2>4. /\ reg \in 1..MaxBoot /\ boot \in 1..MaxBoot /\ procs \subseteq 1..MaxBoot
        /\ ord \in 0..MaxAttempts /\ sel \in 0..MaxBoot /\ observer \in 0..MaxAttempts
        /\ prep \in [Attempts -> 0..MaxBoot] /\ calls \in Nat /\ faults \in 0..MaxFaults
      OBVIOUS
  <2> QED  BY <2>1, <2>3, <2>4 DEF TypeOK
<1>2. CallInv /\ RequestInv
    BY DEF CallInv, RequestInv, Before, After, Idle
<1>3. LedgerInv
    BY DEF LedgerInv, Unmarked
<1>4. ReportInv
    BY DEF ReportInv, Idle, Purposes
<1> QED  BY <1>1, <1>2, <1>3, <1>4 DEF ReceiverInv

(* A step of the Core that touches no execution keeps what the ledger says,  *)
(* since a marked message keeps its marker and its attempt.                  *)
LEMMA LedgerKept ==
  ASSUME LedgerInv, UNCHANGED <<disp, thread, calls>>, marked => marked' /\ ord' = ord
  PROVE  LedgerInv'
BY DEF LedgerInv, Unmarked, Attempts, Executions

(* No Native input without the marker.                                       *)
LEMMA UnmarkedNotCalled ==
  ASSUME LedgerInv, ~marked
  PROVE  calls = 0 /\ \A n \in Attempts, p \in Executions : disp[n][p].state = "none" /\ thread[n][p] = "none"
BY DEF LedgerInv, Unmarked

LEMMA RetryIs ==
  ASSUME Retry
  PROVE  \E state \in {"budget_exhausted", "retry_wait"} : Finish(state)
BY DEF Retry

-----------------------------------------------------------------------------
(* The dispatcher call                                                       *)

LEMMA DispatchInv ==
  ASSUME ReceiverInv, Dispatch
  PROVE  ReceiverInv'
<1> USE BoundsAssumption DEF ReceiverInv
<1>0. UNCHANGED <<adm, reg, observer, late, boot, ledger, procs, thread, calls, expired, faults>>
    BY DEF Dispatch, DispatchInterrupted, DispatchNew, DispatchPrepared, DispatchDenied
<1>1. sender.pc = "idle" /\ row \notin Terminal
    BY DEF Dispatch, DispatchInterrupted, DispatchNew, DispatchPrepared, DispatchDenied, Claim
<1>2. marked => attempt = "runtime_dispatched"
    BY <1>1 DEF CallInv
<1>3. CASE DispatchInterrupted
  <2>1. row' = "uncertain" /\ attempt' = "uncertain" /\ UNCHANGED <<sender, ord, sel, marked>>
      BY <1>3 DEF DispatchInterrupted, Finish
  <2>2. TypeOK'
      BY <1>0, <2>1 DEF TypeOK, ledger, Terminal
  <2>3. CallInv' /\ RequestInv'
      BY <1>0, <1>1, <1>3, <2>1 DEF CallInv, RequestInv, Before, After, Terminal, DispatchInterrupted
  <2>4. LedgerInv' /\ ReportInv'
      BY <1>0, <1>1, <2>1, LedgerKept DEF ReportInv, ledger, BlockedHere
  <2> QED  BY <2>2, <2>3, <2>4
<1>4. CASE DispatchNew
  <2>1. /\ ~marked /\ ord' = ord + 1 /\ ord < MaxAttempts /\ sel' = reg /\ attempt' = "prepared"
        /\ row' = "delivering" /\ sender' = [Idle EXCEPT !.pc = "begin"] /\ UNCHANGED marked
      BY <1>2, <1>4 DEF DispatchNew
  <2>2. /\ sender' = [pc |-> "begin", mode |-> "deliver", conn |-> "none", got |-> "none"]
      BY <2>1 DEF Idle
  <2>3. TypeOK'
    <3>1. sender' \in Senders
        BY <2>2 DEF Senders
    <3> QED  BY <1>0, <2>1, <3>1 DEF TypeOK, ledger
  <2>4. CallInv' /\ RequestInv'
      BY <1>0, <1>1, <2>1, <2>2 DEF CallInv, RequestInv, Before, After, Terminal, TypeOK
  <2>5. LedgerInv' /\ ReportInv'
      BY <1>0, <1>1, <2>1, <2>2, LedgerKept DEF ReportInv, ledger, BlockedHere
  <2> QED  BY <2>3, <2>4, <2>5
<1>5. CASE DispatchPrepared
  <2>1. ~marked /\ attempt = "prepared" /\ UNCHANGED message
      BY <1>2, <1>5 DEF DispatchPrepared
  <2>2. /\ sender' = [pc |-> "begin", mode |-> "deliver", conn |-> "none", got |-> "none"]
      BY <1>5 DEF DispatchPrepared, Idle
  <2>3. TypeOK'
    <3>1. sender' \in Senders
        BY <2>2 DEF Senders
    <3> QED  BY <1>0, <2>1, <3>1 DEF TypeOK, ledger, message
  <2>4. CallInv' /\ RequestInv'
      BY <1>0, <1>1, <2>1, <2>2 DEF CallInv, RequestInv, Before, After, message
  <2>5. LedgerInv' /\ ReportInv'
      BY <1>0, <1>1, <2>1, <2>2, LedgerKept DEF ReportInv, ledger, message, BlockedHere
  <2> QED  BY <2>3, <2>4, <2>5
<1>6. CASE DispatchDenied
  <2>0. ~marked /\ UNCHANGED sender
      BY <1>2, <1>6 DEF DispatchDenied
  <2>1. PICK state \in {"expired", "blocked"} : Finish(state)
      BY <1>6 DEF DispatchDenied, Denied
  <2>2. row' = state /\ attempt' \in {attempt, state} /\ UNCHANGED <<ord, sel, marked>>
      BY <2>1 DEF Finish
  <2>3. attempt' # "none" => attempt # "none" \/ attempt = "prepared"
      BY <1>6, <2>1 DEF DispatchDenied, Finish
  <2>4. TypeOK'
      BY <1>0, <2>0, <2>2 DEF TypeOK, ledger, Terminal
  <2>5. CallInv' /\ RequestInv'
      BY <1>0, <1>1, <2>0, <2>2, <2>3 DEF CallInv, RequestInv, Before, After
  <2>6. LedgerInv' /\ ReportInv'
      BY <1>0, <1>1, <2>0, <2>2, LedgerKept DEF ReportInv, ledger, BlockedHere
  <2> QED  BY <2>4, <2>5, <2>6
<1> QED  BY <1>3, <1>4, <1>5, <1>6 DEF Dispatch

(* Every message for which a call is under way has an attempt.               *)
LEMMA CallHasAttempt ==
  ASSUME ReceiverInv, sender.pc # "idle"
  PROVE  ord \in Attempts
<1>1. sender.pc \in Before \cup After
    BY DEF ReceiverInv, TypeOK, Senders, Before, After
<1>2. ord # 0
    BY <1>1 DEF ReceiverInv, CallInv, Terminal
<1> QED  BY <1>2, BoundsAssumption DEF ReceiverInv, TypeOK, Attempts

(* What a call leaves in the network when it stops waiting is harmless: a    *)
(* preparation, or the execution of the marked attempt.                      *)
LEMMA AbandonedRequests ==
  ASSUME ReceiverInv, late' \subseteq Abandoned, marked => marked' /\ ord' = ord
  PROVE  RequestInv' /\ late' \subseteq Attempts \X Purposes
<1>1. CASE sender.conn = "net"
  <2>1. sender.pc \in {"prepare", "await"}
      BY <1>1 DEF ReceiverInv, CallInv
  <2>2. ord \in Attempts
      BY <2>1, CallHasAttempt
  <2>3. /\ Asked \in Attempts \X Purposes /\ Asked[1] = ord
        /\ sender.pc = "prepare" => Asked[2] = "prepare"
      BY <2>2 DEF Asked, Purposes, Executions
  <2>4. Asked[2] \in Executions => marked
      BY <2>1, <2>3 DEF ReceiverInv, CallInv, After, Executions
  <2>5. late' \subseteq late \cup {Asked}
      BY <1>1 DEF Abandoned
  <2> QED  BY <2>3, <2>4, <2>5 DEF ReceiverInv, RequestInv, TypeOK, Executions
<1>2. CASE sender.conn # "net"
    BY <1>2 DEF Abandoned, ReceiverInv, RequestInv, TypeOK, Executions
<1> QED  BY <1>1, <1>2

LEMMA IdleFacts ==
  Idle \in Senders /\ Idle.pc = "idle" /\ Idle.conn = "none" /\ Idle.mode = "deliver" /\ Idle.got = "none"
BY DEF Idle, Senders

(* A call that ends, however it settles the message.                         *)
LEMMA CallEnds ==
  ASSUME ReceiverInv, sender' = Idle,
         UNCHANGED <<adm, reg, observer, boot, ledger, procs, thread, calls, expired>>,
         UNCHANGED <<ord, sel, marked>>, faults' \in 0..MaxFaults, late' \subseteq Abandoned,
         row' \in {"queued", "delivering", "retry_wait"} \cup Terminal,
         attempt' \in {"none", "prepared", "runtime_dispatched", "retry_wait"} \cup Terminal,
         marked => attempt' = "runtime_dispatched" \/ {row', attempt'} \subseteq Terminal,
         attempt' # "none" => ord # 0,
         row' = "delivered" => calls = 1,
         marked /\ row' \in {"blocked", "expired", "budget_exhausted"} => BlockedHere
  PROVE  ReceiverInv'
<1> USE DEF ReceiverInv
<1>0. RequestInv' /\ late' \subseteq Attempts \X Purposes
    BY AbandonedRequests
<1>1. TypeOK'
    BY <1>0, IdleFacts DEF TypeOK, ledger
<1>2. CallInv'
    BY IdleFacts DEF CallInv, Before, After, Terminal
<1>3. LedgerInv'
    BY LedgerKept DEF ledger
<1>4. ReportInv'
    BY IdleFacts DEF ReportInv, BlockedHere, ledger, Executions, Attempts
<1> QED  BY <1>0, <1>1, <1>2, <1>3, <1>4

(* A call that goes on with the message as it is.                            *)
LEMMA CallGoesOn ==
  ASSUME ReceiverInv, UNCHANGED <<message, reg, observer, boot, ledger, procs, thread, calls, expired, faults>>,
         adm' \in [Attempts -> [Purposes -> Admissions]],
         \A n \in Attempts, p \in Executions :
           adm'[n][p].state = "completed" => disp[n][p].state = "runtime_acknowledged",
         late' \subseteq Abandoned, sender' \in Senders,
         sender'.pc \in Before => ~marked /\ attempt = "prepared" /\ row \notin Terminal,
         sender'.pc \in After => marked,
         sender'.conn \in {"none", "net"} /\ (sender'.conn = "net" => sender'.pc \in {"prepare", "await"}),
         sender'.pc = "project" =>
           /\ sender'.got \in {"delivered", "blocked", "uncertain"}
           /\ sender'.got = "delivered" => calls = 1
           /\ sender'.got = "blocked" => BlockedHere
  PROVE  ReceiverInv'
<1> USE DEF ReceiverInv, message
<1>0. RequestInv' /\ late' \subseteq Attempts \X Purposes
    BY AbandonedRequests
<1>1. TypeOK'
    BY <1>0 DEF TypeOK, ledger
<1>2. CallInv'
    BY DEF CallInv
<1>3. LedgerInv'
    BY LedgerKept DEF ledger
<1>4. ReportInv'
    BY DEF ReportInv, BlockedHere, ledger, Executions, Attempts
<1> QED  BY <1>0, <1>1, <1>2, <1>3, <1>4

(* A persisted admission is issued for the attempt, never completed by it.   *)
LEMMA IssueFacts ==
  ASSUME ReceiverInv, ord \in Attempts, NEW p \in Purposes, NEW b \in 0..MaxBoot, Issue(p, b)
  PROVE  /\ adm' \in [Attempts -> [Purposes -> Admissions]]
         /\ \A n \in Attempts, q \in Executions :
              adm'[n][q].state = "completed" => disp[n][q].state = "runtime_acknowledged"
<1> DEFINE new == [boot |-> b, state |-> "issued"]
<1>0. adm \in [Attempts -> [Purposes -> Admissions]] /\ Executions \subseteq Purposes
    BY DEF ReceiverInv, TypeOK, Purposes
<1>1. new \in Admissions /\ new.state # "completed"
    BY DEF Admissions, AdmissionStates
<1> HIDE DEF new
<1>2. adm' = adm \/ adm' = [adm EXCEPT ![ord][p] = new]
    BY DEF Issue, new
<1>3. \A n \in Attempts, q \in Purposes : adm'[n][q] \in {adm[n][q], new}
    BY <1>0, <1>2
<1>4. adm' \in [Attempts -> [Purposes -> Admissions]]
    BY <1>0, <1>1, <1>2
<1>5. \A n \in Attempts, q \in Executions : adm'[n][q].state = "completed" => adm[n][q].state = "completed"
    BY <1>0, <1>1, <1>3
<1> QED  BY <1>4, <1>5 DEF ReceiverInv, ReportInv

(* Finish before the marker settles the message as not invoked.              *)
LEMMA FinishUnmarked ==
  ASSUME ReceiverInv, sender.pc \in Before, NEW state \in {"retry_wait"} \cup Terminal, Finish(state),
         state # "delivered", sender' = Idle,
         UNCHANGED <<adm, reg, observer, boot, ledger, procs, thread, calls, expired, faults>>,
         late' \subseteq Abandoned
  PROVE  ReceiverInv'
<1>1. ~marked /\ attempt = "prepared"
    BY DEF ReceiverInv, CallInv
<1>2. row' = state /\ attempt' = state /\ UNCHANGED <<ord, sel, marked>>
    BY <1>1 DEF Finish
<1>3. ord # 0
    BY <1>1 DEF ReceiverInv, CallInv
<1>4. faults' \in 0..MaxFaults
    BY DEF ReceiverInv, TypeOK
<1> QED  BY <1>1, <1>2, <1>3, <1>4, CallEnds DEF Terminal

(* A call that ends without a word about the message.                        *)
LEMMA CallDropped ==
  ASSUME ReceiverInv, sender' = Idle,
         UNCHANGED <<message, adm, reg, observer, boot, ledger, procs, thread, calls, expired>>,
         late' \subseteq Abandoned, faults' \in 0..MaxFaults
  PROVE  ReceiverInv'
BY CallEnds DEF ReceiverInv, TypeOK, CallInv, ReportInv, message

(* A receipt that is stored changes one state in the admissions.             *)
LEMMA AdmissionStep ==
  ASSUME TypeOK, ord \in Attempts, NEW p \in Purposes, NEW state \in AdmissionStates,
         adm' = [adm EXCEPT ![ord][p].state = state]
  PROVE  /\ adm' \in [Attempts -> [Purposes -> Admissions]]
         /\ adm'[ord][p].state = state
         /\ \A n \in Attempts, q \in Purposes : n # ord \/ q # p => adm'[n][q] = adm[n][q]
<1> DEFINE x == [adm[ord][p] EXCEPT !.state = state]
<1>0. adm[ord][p] \in Admissions
    BY DEF TypeOK
<1>1. x \in Admissions /\ x.state = state
    BY <1>0 DEF Admissions
<1>2. adm' = [adm EXCEPT ![ord][p] = x]
    OBVIOUS
<1> HIDE DEF x
<1>3. adm \in [Attempts -> [Purposes -> Admissions]]
    BY DEF TypeOK
<1>4. adm' \in [Attempts -> [Purposes -> Admissions]]
    BY <1>1, <1>2, <1>3
<1>5. \A n \in Attempts, q \in Purposes : adm'[n][q] = IF n = ord /\ q = p THEN x ELSE adm[n][q]
    BY <1>2, <1>3
<1> QED  BY <1>1, <1>4, <1>5

LEMMA PrepareStepsInv ==
  ASSUME ReceiverInv, BeginPrepare \/ BeginRefused \/ PrepareFails \/ PrepareReplied
  PROVE  ReceiverInv'
<1> USE DEF ReceiverInv, Before, After
<1>0. late \subseteq Abandoned /\ TypeOK /\ sel \in 0..MaxBoot
    BY DEF Abandoned, TypeOK
<1>1. CASE BeginPrepare
  <2>1. /\ sender' = [sender EXCEPT !.pc = "prepare", !.conn = "net"] /\ Issue("prepare", sel)
        /\ UNCHANGED <<message, reg, observer, late, boot, ledger, procs, thread, calls, expired, faults>>
        /\ sender.pc = "begin"
      BY <1>1 DEF BeginPrepare
  <2>2. sender' \in Senders /\ sender'.pc = "prepare" /\ sender'.conn = "net"
      BY <1>0, <2>1 DEF TypeOK, Senders
  <2>3. ord \in Attempts /\ "prepare" \in Purposes
      BY <2>1, CallHasAttempt DEF Purposes
  <2>4. /\ adm' \in [Attempts -> [Purposes -> Admissions]]
        /\ \A n \in Attempts, q \in Executions :
              adm'[n][q].state = "completed" => disp[n][q].state = "runtime_acknowledged"
      BY <1>0, <2>1, <2>3, IssueFacts
  <2>5. ~marked /\ attempt = "prepared" /\ row \notin Terminal
      BY <2>1 DEF CallInv
  <2> QED  BY <1>0, <2>1, <2>2, <2>4, <2>5, CallGoesOn
<1>2. CASE BeginRefused
  <2>1. PICK state \in {"expired", "blocked", "budget_exhausted", "retry_wait"} : Finish(state)
      BY <1>2, RetryIs DEF BeginRefused, Denied
  <2>2. /\ sender.pc \in Before /\ sender' = Idle
        /\ UNCHANGED <<adm, reg, observer, late, boot, ledger, procs, thread, calls, expired, faults>>
      BY <1>2 DEF BeginRefused
  <2> QED  BY <1>0, <2>1, <2>2, FinishUnmarked DEF Terminal
<1>3. CASE PrepareFails
  <2>1. /\ sender.pc \in Before /\ sender' = Idle /\ Finish("blocked") /\ late' = Abandoned
        /\ UNCHANGED <<adm, reg, observer, boot, ledger, procs, thread, calls, expired, faults>>
      BY <1>3 DEF PrepareFails
  <2> QED  BY <2>1, FinishUnmarked DEF Terminal
<1>4. CASE PrepareReplied
  <2>0. /\ sender.pc = "prepare" /\ UNCHANGED <<reg, observer, late, boot, ledger, procs, thread, calls, expired, faults>>
      BY <1>4 DEF PrepareReplied
  <2>1. CASE reg = adm[ord]["prepare"].boot
    <3>1. /\ sender' = [sender EXCEPT !.pc = "ready", !.conn = "none"] /\ UNCHANGED message
          /\ adm' = [adm EXCEPT ![ord]["prepare"].state = "prepared"]
        BY <1>4, <2>1 DEF PrepareReplied
    <3>2. sender' \in Senders /\ sender'.pc = "ready" /\ sender'.conn = "none"
        BY <1>0, <3>1 DEF TypeOK, Senders
    <3>3. ord \in Attempts /\ "prepare" \in Purposes /\ "prepare" \notin Executions /\ Executions \subseteq Purposes
        BY <2>0, CallHasAttempt DEF Purposes, Executions
    <3>4. "prepared" \in AdmissionStates
        BY DEF AdmissionStates
    <3>5. /\ adm' \in [Attempts -> [Purposes -> Admissions]]
          /\ \A n \in Attempts, q \in Executions : adm'[n][q] = adm[n][q]
        BY <1>0, <3>1, <3>3, <3>4, AdmissionStep
    <3>6. ~marked /\ attempt = "prepared" /\ row \notin Terminal
        BY <2>0 DEF CallInv
    <3>7. \A n \in Attempts, q \in Executions :
            adm'[n][q].state = "completed" => disp[n][q].state = "runtime_acknowledged"
        BY <3>5 DEF ReportInv
    <3> QED  BY <1>0, <2>0, <3>1, <3>2, <3>5, <3>6, <3>7, CallGoesOn
  <2>2. CASE reg # adm[ord]["prepare"].boot
    <3>1. Retry /\ sender' = Idle /\ UNCHANGED adm
        BY <1>4, <2>2 DEF PrepareReplied
    <3>2. PICK state \in {"budget_exhausted", "retry_wait"} : Finish(state)
        BY <3>1, RetryIs
    <3> QED  BY <1>0, <2>0, <3>1, <3>2, FinishUnmarked DEF Terminal
  <2> QED  BY <2>1, <2>2
<1> QED  BY <1>1, <1>2, <1>3, <1>4

LEMMA ReadinessInv ==
  ASSUME ReceiverInv, Readiness
  PROVE  ReceiverInv'
<1> USE DEF ReceiverInv, Before, After
<1>0. late \subseteq Abandoned /\ TypeOK
    BY DEF Abandoned
<1>1. /\ sender.pc = "ready"
      /\ UNCHANGED <<adm, reg, observer, late, boot, ledger, procs, thread, calls, expired, faults>>
    BY DEF Readiness
<1>2. ~marked /\ attempt = "prepared" /\ row \notin Terminal /\ sender.conn = "none"
    BY <1>1 DEF CallInv
<1>3. CASE sender' = [sender EXCEPT !.pc = "mark"] /\ UNCHANGED message
  <2>1. sender' \in Senders /\ sender'.pc = "mark" /\ sender'.conn = "none"
      BY <1>0, <1>2, <1>3 DEF TypeOK, Senders
  <2>2. /\ adm' \in [Attempts -> [Purposes -> Admissions]]
        /\ \A n \in Attempts, q \in Executions :
             adm'[n][q].state = "completed" => disp[n][q].state = "runtime_acknowledged"
      BY <1>0, <1>1 DEF TypeOK, ReportInv
  <2> QED  BY <1>0, <1>1, <1>2, <1>3, <2>1, <2>2, CallGoesOn
<1>4. CASE sender' = Idle /\ row' = "retry_wait" /\ UNCHANGED <<ord, attempt, sel, marked>>
  <2>1. ord # 0 /\ faults' \in 0..MaxFaults
      BY <1>1, <1>2 DEF CallInv, TypeOK
  <2> QED  BY <1>0, <1>1, <1>2, <1>4, <2>1, CallEnds
<1>5. CASE Retry /\ sender' = Idle
  <2>1. PICK state \in {"budget_exhausted", "retry_wait"} : Finish(state)
      BY <1>5, RetryIs
  <2> QED  BY <1>0, <1>1, <1>5, <2>1, FinishUnmarked DEF Terminal
<1> QED  BY <1>3, <1>4, <1>5 DEF Readiness

(* The marker is written while nothing of the message has been executed and  *)
(* nothing of it but preparations is in the network.                         *)
LEMMA MarkerWritten ==
  ASSUME ReceiverInv, sender.pc \in Before, NEW pc \in {"issue", "send"},
         marked' = TRUE, attempt' = "runtime_dispatched", sender' = [sender EXCEPT !.pc = pc],
         sender.conn = "none",
         UNCHANGED <<row, ord, sel, adm, reg, observer, late, boot, ledger, procs, thread, calls, expired, faults>>
  PROVE  ReceiverInv'
<1> USE DEF ReceiverInv
<1>1. ~marked /\ attempt = "prepared" /\ row \notin Terminal /\ ord # 0
    BY DEF CallInv
<1>2. sender' \in Senders /\ sender'.pc = pc /\ sender'.conn = "none"
    BY DEF TypeOK, Senders
<1>3. TypeOK'
    BY <1>2 DEF TypeOK, ledger
<1>4. CallInv' /\ RequestInv'
    BY <1>1, <1>2 DEF CallInv, RequestInv, Before, After, Executions
<1>5. LedgerInv'
    BY <1>1, LedgerKept DEF ledger
<1>6. ReportInv'
    BY <1>1, <1>2 DEF ReportInv, ledger, Terminal, Executions, Attempts
<1> QED  BY <1>3, <1>4, <1>5, <1>6

LEMMA MarkInv ==
  ASSUME ReceiverInv, Mark
  PROVE  ReceiverInv'
<1> USE DEF Before
<1>0. late \subseteq Abandoned
    BY DEF Abandoned
<1>1. /\ sender.pc = "mark"
      /\ UNCHANGED <<adm, reg, observer, late, boot, ledger, procs, thread, calls, expired, faults>>
    BY DEF Mark
<1>2. sender.conn = "none"
    BY <1>1 DEF ReceiverInv, CallInv
<1>3. CASE Selected /\ attempt = "prepared"
    BY <1>1, <1>2, <1>3, MarkerWritten DEF Mark
<1>4. CASE ~(Selected /\ attempt = "prepared")
  <2>1. PICK state \in {"expired", "blocked"} : Finish(state)
      BY <1>4 DEF Mark, Denied
  <2> QED  BY <1>0, <1>1, <1>4, <2>1, FinishUnmarked DEF Terminal, Mark
<1> QED  BY <1>3, <1>4

LEMMA RecoverStepsInv ==
  ASSUME ReceiverInv, Recover \/ RecoverMark \/ SendRecover
  PROVE  ReceiverInv'
<1> USE DEF Before, After
<1>0. late \subseteq Abandoned /\ TypeOK
    BY DEF Abandoned, ReceiverInv
<1>1. CASE Recover
  <2>1. /\ Claim /\ attempt = "prepared" /\ ~marked /\ Issue("recover", reg)
        /\ sender' = [Idle EXCEPT !.pc = "recmark", !.mode = "recover"]
        /\ UNCHANGED <<message, reg, observer, late, boot, ledger, procs, thread, calls, expired, faults>>
      BY <1>1 DEF Recover, Recoverable
  <2>2. sender' \in Senders /\ sender'.pc = "recmark" /\ sender'.conn = "none"
      BY <2>1 DEF Senders, Idle
  <2>3. ord \in Attempts /\ "recover" \in Purposes /\ reg \in 0..MaxBoot
      BY <2>1, BoundsAssumption DEF ReceiverInv, CallInv, TypeOK, Attempts, Purposes, Executions
  <2>4. /\ adm' \in [Attempts -> [Purposes -> Admissions]]
        /\ \A n \in Attempts, q \in Executions :
              adm'[n][q].state = "completed" => disp[n][q].state = "runtime_acknowledged"
      BY <2>1, <2>3, IssueFacts
  <2> QED  BY <1>0, <2>1, <2>2, <2>4, CallGoesOn DEF Claim
<1>2. CASE RecoverMark
  <2>1. /\ sender.pc = "recmark"
        /\ UNCHANGED <<adm, reg, observer, late, boot, ledger, procs, thread, calls, expired, faults>>
      BY <1>2 DEF RecoverMark
  <2>2. sender.conn = "none" /\ faults' \in 0..MaxFaults
      BY <2>1 DEF ReceiverInv, CallInv, TypeOK
  <2>3. CASE sender' = Idle /\ UNCHANGED message
      BY <1>0, <2>1, <2>2, <2>3, CallDropped
  <2>4. CASE marked' = TRUE /\ attempt' = "runtime_dispatched" /\ sender' = [sender EXCEPT !.pc = "send"]
             /\ UNCHANGED <<row, ord, sel>>
      BY <2>1, <2>2, <2>4, MarkerWritten
  <2> QED  BY <1>2, <2>3, <2>4 DEF RecoverMark
<1>3. CASE SendRecover
  <2>1. /\ sender.pc = "send" /\ sender' = [sender EXCEPT !.pc = "await", !.conn = "net"]
        /\ UNCHANGED <<message, adm, reg, observer, late, boot, ledger, procs, thread, calls, expired, faults>>
      BY <1>3 DEF SendRecover
  <2>2. sender' \in Senders /\ sender'.pc = "await" /\ sender'.conn = "net"
      BY <1>0, <2>1 DEF TypeOK, Senders
  <2>3. marked
      BY <2>1 DEF ReceiverInv, CallInv
  <2>4. /\ adm' \in [Attempts -> [Purposes -> Admissions]]
        /\ \A n \in Attempts, q \in Executions :
             adm'[n][q].state = "completed" => disp[n][q].state = "runtime_acknowledged"
      BY <1>0, <2>1 DEF ReceiverInv, TypeOK, ReportInv
  <2> QED  BY <1>0, <2>1, <2>2, <2>3, <2>4, CallGoesOn
<1> QED  BY <1>1, <1>2, <1>3

(* Finish after the marker: what the call reports is what the ledger says.   *)
LEMMA FinishMarked ==
  ASSUME ReceiverInv, marked, NEW state \in {"delivered", "blocked", "uncertain"}, Finish(state),
         state = "delivered" => calls = 1, state = "blocked" => BlockedHere, sender' = Idle,
         UNCHANGED <<adm, reg, observer, late, boot, ledger, procs, thread, calls, expired, faults>>
  PROVE  ReceiverInv'
<1>1. row' = state /\ UNCHANGED <<ord, sel, marked>>
    BY DEF Finish
<1>2. attempt \in {"runtime_dispatched"} \cup Terminal /\ ord # 0
    BY DEF ReceiverInv, CallInv, Terminal
<1>3. attempt' \in Terminal
    BY <1>2 DEF Finish, Terminal
<1>4. faults' \in 0..MaxFaults /\ late' \subseteq Abandoned
    BY DEF ReceiverInv, TypeOK, Abandoned
<1> QED  BY <1>1, <1>2, <1>3, <1>4, CallEnds DEF Terminal

LEMMA AdmissionsKept ==
  ASSUME ReceiverInv, UNCHANGED adm
  PROVE  /\ adm' \in [Attempts -> [Purposes -> Admissions]]
         /\ \A n \in Attempts, q \in Executions :
              adm'[n][q].state = "completed" => disp[n][q].state = "runtime_acknowledged"
BY DEF ReceiverInv, TypeOK, ReportInv

(* What an execution request asks for, and what an answer to it says.        *)
LEMMA AskedFacts ==
  ASSUME ReceiverInv, sender.pc \in {"await", "inspect"}
  PROVE  Asked[1] = ord /\ Asked[2] \in Executions /\ Asked[2] \in Purposes /\ ord \in Attempts /\ marked
<1>1. ord \in Attempts
    BY CallHasAttempt
<1> QED  BY <1>1 DEF Asked, Executions, Purposes, ReceiverInv, CallInv, After

LEMMA StatusFacts ==
  ASSUME ReceiverInv, NEW p \in Executions, NEW state \in {"none", "runtime_dispatched"} \cup Final,
         ord \in Attempts, state \in {"runtime_acknowledged", "blocked"} => disp[ord][p].state = state
  PROVE  /\ Status(state) \in {"delivered", "blocked", "uncertain"}
         /\ Status(state) = "delivered" => calls = 1
         /\ Status(state) = "blocked" => BlockedHere
BY DEF ReceiverInv, LedgerInv, Status, BlockedHere, Final

LEMMA AwaitStepsInv ==
  ASSUME ReceiverInv, IssueDispatch \/ AwaitReplied \/ AwaitFails
  PROVE  ReceiverInv'
<1> USE DEF Before, After
<1>0. late \subseteq Abandoned /\ TypeOK
    BY DEF Abandoned, ReceiverInv
<1>1. CASE IssueDispatch
  <2>1. sender.pc = "issue" /\ UNCHANGED <<reg, observer, late, boot, ledger, procs, thread, calls, expired, faults>>
      BY <1>1 DEF IssueDispatch
  <2>2. marked /\ ord \in Attempts
      BY <2>1, CallHasAttempt DEF ReceiverInv, CallInv
  <2>3. CASE Finish("uncertain") /\ sender' = Idle /\ UNCHANGED adm
      BY <2>1, <2>2, <2>3, FinishMarked
  <2>4. CASE Issue("dispatch", sel) /\ sender' = [sender EXCEPT !.pc = "await", !.conn = "net"] /\ UNCHANGED message
    <3>1. sender' \in Senders /\ sender'.pc = "await" /\ sender'.conn = "net"
        BY <1>0, <2>4 DEF TypeOK, Senders
    <3>2. "dispatch" \in Purposes /\ sel \in 0..MaxBoot
        BY <1>0 DEF TypeOK, Purposes, Executions
    <3>3. /\ adm' \in [Attempts -> [Purposes -> Admissions]]
          /\ \A n \in Attempts, q \in Executions :
                adm'[n][q].state = "completed" => disp[n][q].state = "runtime_acknowledged"
        BY <2>2, <2>4, <3>2, IssueFacts
    <3> QED  BY <1>0, <2>1, <2>2, <2>4, <3>1, <3>3, CallGoesOn
  <2> QED  BY <1>1, <2>3, <2>4 DEF IssueDispatch
<1>2. CASE AwaitReplied
  <2> DEFINE p == Asked[2]
  <2>1. /\ sender.pc = "await" /\ sender.conn = "reply"
        /\ UNCHANGED <<message, reg, observer, late, boot, ledger, procs, thread, calls, expired, faults>>
      BY <1>2 DEF AwaitReplied
  <2>2. p \in Executions /\ p \in Purposes /\ ord \in Attempts /\ marked
      BY <2>1, AskedFacts
  <2>3. CASE sender' = Idle /\ UNCHANGED adm
    <3>1. faults' \in 0..MaxFaults
        BY <1>0, <2>1 DEF TypeOK
    <3> QED  BY <1>0, <2>1, <2>3, <3>1, CallDropped
  <2>4. CASE /\ adm' = [adm EXCEPT ![ord][p].state = AdmissionState(sender.got)]
             /\ sender' = [sender EXCEPT !.pc = "project", !.conn = "none", !.got = Status(@)]
    <3>1. /\ sender.got \in {"runtime_dispatched"} \cup Final
          /\ sender.got \in {"runtime_acknowledged", "blocked"} => disp[ord][p].state = sender.got
        BY <2>1 DEF ReceiverInv, ReportInv
    <3>2. /\ Status(sender.got) \in {"delivered", "blocked", "uncertain"}
          /\ Status(sender.got) = "delivered" => calls = 1
          /\ Status(sender.got) = "blocked" => BlockedHere
        BY <2>2, <3>1, StatusFacts
    <3>3. /\ sender' \in Senders /\ sender'.pc = "project" /\ sender'.conn = "none"
          /\ sender'.got = Status(sender.got)
        BY <1>0, <2>4, <3>2 DEF TypeOK, Senders, Final
    <3>4. /\ AdmissionState(sender.got) \in AdmissionStates
          /\ AdmissionState(sender.got) = "completed" => disp[ord][p].state = "runtime_acknowledged"
        BY <3>1 DEF AdmissionState, AdmissionStates, Final
    <3>5. /\ adm' \in [Attempts -> [Purposes -> Admissions]]
          /\ adm'[ord][p].state = AdmissionState(sender.got)
          /\ \A n \in Attempts, q \in Purposes : n # ord \/ q # p => adm'[n][q] = adm[n][q]
        BY <1>0, <2>2, <2>4, <3>4, AdmissionStep
    <3>6. \A n \in Attempts, q \in Executions :
            adm'[n][q].state = "completed" => disp[n][q].state = "runtime_acknowledged"
      <4>1. \A n \in Attempts, q \in Executions : q \in Purposes
          BY DEF Purposes
      <4>2. \A n \in Attempts, q \in Executions :
              adm[n][q].state = "completed" => disp[n][q].state = "runtime_acknowledged"
          BY DEF ReceiverInv, ReportInv
      <4> HIDE DEF p
      <4> QED  BY <3>4, <3>5, <4>1, <4>2
    <3> QED  BY <1>0, <2>1, <2>2, <3>2, <3>3, <3>5, <3>6, CallGoesOn
  <2> QED  BY <1>2, <2>3, <2>4 DEF AwaitReplied
<1>3. CASE AwaitFails
  <2>1. /\ sender.pc = "await" /\ late' = Abandoned
        /\ sender' = [sender EXCEPT !.pc = "inspect", !.conn = "none", !.got = "none"]
        /\ UNCHANGED <<message, adm, reg, observer, boot, ledger, procs, thread, calls, expired, faults>>
      BY <1>3 DEF AwaitFails
  <2>2. sender' \in Senders /\ sender'.pc = "inspect" /\ sender'.conn = "none" /\ marked
      BY <1>0, <2>1 DEF TypeOK, Senders, ReceiverInv, CallInv
  <2> QED  BY <2>1, <2>2, AdmissionsKept, CallGoesOn
<1> QED  BY <1>1, <1>2, <1>3

LEMMA InspectInv ==
  ASSUME ReceiverInv, Inspect
  PROVE  ReceiverInv'
<1> DEFINE p == Asked[2]
<1> USE DEF Before, After
<1>0. late \subseteq Abandoned /\ TypeOK
    BY DEF Abandoned, ReceiverInv
<1>1. /\ sender.pc = "inspect"
      /\ UNCHANGED <<message, adm, reg, observer, late, boot, ledger, procs, thread, calls, expired, faults>>
    BY DEF Inspect
<1>2. p \in Executions /\ ord \in Attempts /\ marked /\ sender.conn = "none"
    BY <1>1, AskedFacts DEF ReceiverInv, CallInv
<1>3. CASE sender' = Idle
  <2>1. faults' \in 0..MaxFaults
      BY <1>0, <1>1 DEF TypeOK
  <2> QED  BY <1>0, <1>1, <1>3, <2>1, CallDropped
<1>4. ASSUME NEW got \in {"delivered", "blocked", "uncertain"},
             sender' = [sender EXCEPT !.pc = "project", !.got = got],
             got = "delivered" => calls = 1, got = "blocked" => BlockedHere
      PROVE  ReceiverInv'
  <2>1. sender' \in Senders /\ sender'.pc = "project" /\ sender'.conn = "none" /\ sender'.got = got
      BY <1>0, <1>2, <1>4 DEF TypeOK, Senders, Final
  <2> QED  BY <1>0, <1>1, <1>2, <1>4, <2>1, AdmissionsKept, CallGoesOn
<1>5. disp[ord][p].state \in {"none", "runtime_dispatched"} \cup Final
    BY <1>0, <1>2 DEF TypeOK, Dispatches
<1>6. /\ Status(disp[ord][p].state) \in {"delivered", "blocked", "uncertain"}
      /\ Status(disp[ord][p].state) = "delivered" => calls = 1
      /\ Status(disp[ord][p].state) = "blocked" => BlockedHere
    BY <1>2, <1>5, StatusFacts
<1>7. CASE sender' = [sender EXCEPT !.pc = "project", !.got = Status(disp[ord][p].state)]
    BY <1>4, <1>6, <1>7
<1>8. CASE sender' = [sender EXCEPT !.pc = "project", !.got = "uncertain"]
    BY <1>4, <1>8
<1> QED  BY <1>3, <1>7, <1>8 DEF Inspect

LEMMA ProjectInv ==
  ASSUME ReceiverInv, Project
  PROVE  ReceiverInv'
<1> USE DEF Before, After
<1>0. late \subseteq Abandoned /\ TypeOK
    BY DEF Abandoned, ReceiverInv
<1>1. /\ sender.pc = "project" /\ sender' = Idle
      /\ UNCHANGED <<adm, reg, observer, late, boot, ledger, procs, thread, calls, expired, faults>>
    BY DEF Project
<1>2. /\ marked /\ sender.got \in {"delivered", "blocked", "uncertain"}
      /\ sender.got = "delivered" => calls = 1
      /\ sender.got = "blocked" => BlockedHere
    BY <1>1 DEF ReceiverInv, CallInv, ReportInv
<1>3. CASE Finish(sender.got)
    BY <1>1, <1>2, <1>3, FinishMarked
<1>4. faults' \in 0..MaxFaults /\ ord # 0
    BY <1>0, <1>1, <1>2 DEF TypeOK, ReceiverInv, CallInv, Terminal
<1>5. CASE row' = sender.got /\ attempt' = sender.got /\ UNCHANGED <<ord, sel, marked>>
  <2>1. {row', attempt'} \subseteq Terminal
      BY <1>2, <1>5 DEF Terminal
  <2> QED  BY <1>0, <1>1, <1>2, <1>4, <1>5, <2>1, CallEnds
<1>6. CASE UNCHANGED message
    BY <1>0, <1>1, <1>4, <1>6, CallDropped
<1> QED  BY <1>3, <1>5, <1>6 DEF Project

LEMMA ReconcileInv ==
  ASSUME ReceiverInv, Reconcile
  PROVE  ReceiverInv'
<1>1. /\ marked /\ sender' = [Idle EXCEPT !.pc = "await", !.mode = "reconcile", !.conn = "net"]
      /\ UNCHANGED <<message, adm, reg, observer, late, boot, ledger, procs, thread, calls, expired, faults>>
    BY DEF Reconcile
<1>2. sender' \in Senders /\ sender'.pc = "await" /\ sender'.conn = "net"
    BY <1>1 DEF Idle, Senders
<1>3. late' \subseteq Abandoned
    BY <1>1 DEF Abandoned
<1> QED  BY <1>1, <1>2, <1>3, AdmissionsKept, CallGoesOn DEF Before, After

LEMMA SenderCrashInv ==
  ASSUME ReceiverInv, SenderCrash
  PROVE  ReceiverInv'
<1>1. faults' \in 0..MaxFaults
    BY BoundsAssumption DEF SenderCrash, ReceiverInv, TypeOK
<1> QED  BY <1>1, CallDropped DEF SenderCrash

(* An observer read an acknowledgement of the ledger, which stays true.      *)
LEMMA ObserverInv ==
  ASSUME ReceiverInv, ObserverReads \/ ObserverRecords
  PROVE  ReceiverInv'
<1> USE DEF ReceiverInv
<1>0. UNCHANGED <<adm, reg, sender, late, boot, ledger, procs, thread, calls, expired, faults, ord, sel, marked>>
    BY DEF ObserverReads, ObserverRecords, message
<1>1. LedgerInv'
    BY <1>0, LedgerKept DEF ledger
<1>2. CASE ObserverReads
  <2>1. observer' = ord /\ ord # 0 /\ UNCHANGED message
        /\ disp[ord]["dispatch"].state = "runtime_acknowledged"
      BY <1>2 DEF ObserverReads
  <2>2. ord \in Attempts /\ "dispatch" \in Executions
      BY <2>1, BoundsAssumption DEF TypeOK, Attempts, Executions
  <2>3. calls = 1
      BY <2>1, <2>2 DEF LedgerInv
  <2>4. TypeOK'
      BY <1>0, <2>1 DEF TypeOK, ledger, message
  <2>5. CallInv' /\ RequestInv'
      BY <1>0, <2>1 DEF CallInv, RequestInv, message
  <2>6. ReportInv'
      BY <1>0, <2>1, <2>3 DEF ReportInv, message, ledger, BlockedHere, Asked
  <2> QED  BY <1>1, <2>4, <2>5, <2>6
<1>3. CASE ObserverRecords
  <2>1. observer # 0 /\ observer' = 0
      BY <1>3 DEF ObserverRecords
  <2>2. calls = 1
      BY <2>1 DEF ReportInv
  <2>3. marked
      BY <2>2, UnmarkedNotCalled
  <2>4. \/ row' = "delivered" /\ attempt' = "delivered"
        \/ UNCHANGED <<row, attempt>>
      BY <1>3 DEF ObserverRecords, message
  <2>5. TypeOK'
      BY <1>0, <2>1, <2>4, BoundsAssumption DEF TypeOK, ledger, Terminal
  <2>6. CallInv' /\ RequestInv'
    <3>1. ord # 0
        BY <2>3 DEF CallInv, Terminal
    <3>2. sender.pc \notin Before
        BY <2>3 DEF CallInv
    <3>3. CallInv'
      <4>1. CASE row' = "delivered" /\ attempt' = "delivered"
          BY <1>0, <2>3, <3>1, <3>2, <4>1 DEF CallInv, Terminal
      <4>2. CASE UNCHANGED <<row, attempt>>
          BY <1>0, <4>2 DEF CallInv
      <4> QED  BY <2>4, <4>1, <4>2
    <3> QED  BY <1>0, <3>3 DEF RequestInv
  <2>7. ReportInv'
      BY <1>0, <2>1, <2>2, <2>4 DEF ReportInv, ledger, BlockedHere, Asked
  <2> QED  BY <1>1, <2>5, <2>6, <2>7
<1> QED  BY <1>2, <1>3

-----------------------------------------------------------------------------
(* The receiver.  It answers the sender that waits, or a request that came   *)
(* late, and touches neither message nor admissions.                         *)

(* An execution request that reaches a process is for the marked attempt.    *)
LEMMA ArrivesMarked ==
  ASSUME ReceiverInv, NEW n \in Attempts, NEW p \in Executions, NEW live \in BOOLEAN, Arrives(<<n, p>>, live)
  PROVE  marked /\ n = ord /\ (live => sender.pc = "await" /\ sender.conn = "net" /\ Asked[2] = p)
<1>1. CASE live
  <2>1. sender.conn = "net" /\ Asked = <<n, p>>
      BY <1>1 DEF Arrives
  <2>2. Asked[1] = ord /\ Asked[1] = n /\ Asked[2] = p
      BY <2>1 DEF Asked
  <2>3. sender.pc = "await"
      BY <2>1, <2>2 DEF ReceiverInv, CallInv, Asked, Executions
  <2> QED  BY <2>1, <2>2, <2>3 DEF ReceiverInv, CallInv, After
<1>2. CASE ~live
  <2>1. <<n, p>> \in late
      BY <1>2 DEF Arrives
  <2>2. <<n, p>>[1] = n /\ <<n, p>>[2] = p
      OBVIOUS
  <2> QED  BY <1>2, <2>1, <2>2 DEF ReceiverInv, RequestInv
<1> QED  BY <1>1, <1>2

(* How a connection may change while the call itself does not move.          *)
LEMMA AnswerFacts ==
  ASSUME ReceiverInv, NEW r, NEW live \in BOOLEAN, NEW conn \in {"none", "thread", "reply"},
         NEW state \in {"none", "prepared", "runtime_dispatched"} \cup Final,
         Answer(r, live, conn, state), live => sender.conn = "net"
  PROVE  /\ sender' \in Senders /\ sender'.pc = sender.pc /\ sender'.mode = sender.mode
         /\ live => sender'.conn = conn /\ sender'.got = state
         /\ ~live => sender' = sender
         /\ late' \subseteq late
<1>1. CASE live
  <2>1. sender' = [sender EXCEPT !.conn = conn, !.got = state] /\ late' = late
      BY <1>1 DEF Answer
  <2> QED  BY <1>1, <2>1 DEF ReceiverInv, TypeOK, Senders
<1>2. CASE ~live
    BY <1>2 DEF Answer, ReceiverInv, TypeOK
<1> QED  BY <1>1, <1>2

(* Parts of the invariant a step of the receiver keeps.                      *)
LEMMA ReceiverStep ==
  ASSUME ReceiverInv, UNCHANGED <<message, adm, reg, observer, faults>>,
         sender' \in Senders, sender'.pc = sender.pc, sender'.mode = sender.mode,
         sender'.conn # "none" => sender.conn # "none",
         sender'.conn = "thread" => sender.pc = "await",
         sender'.pc = "await" /\ sender'.conn = "reply" =>
           /\ sender'.got \in {"runtime_dispatched"} \cup Final
           /\ sender'.got \in {"runtime_acknowledged", "blocked"} => disp'[ord][Asked[2]].state = sender'.got,
         sender.pc = "project" => sender'.got = sender.got,
         late' \subseteq late, boot' \in 1..MaxBoot, procs' \subseteq 1..MaxBoot, expired' \in BOOLEAN,
         prep' \in [Attempts -> 0..MaxBoot], disp' \in [Attempts -> [Executions -> Dispatches]],
         thread' \in [Attempts -> [Executions -> {"none", "marked", "calling", "called"}]],
         \A n \in Attempts, p \in Executions :
           disp[n][p].state \in {"runtime_acknowledged", "blocked"} => disp'[n][p].state = disp[n][p].state,
         LedgerInv', calls = 1 => calls' = 1
  PROVE  ReceiverInv'
<1> USE DEF ReceiverInv, message
<1>1. TypeOK'
  <2>1. calls' \in Nat
      BY DEF LedgerInv
  <2> QED  BY <2>1 DEF TypeOK
<1>2. CallInv'
    BY DEF CallInv
<1>3. RequestInv'
    BY DEF RequestInv
<1>4. ReportInv'
  <2>1. Asked' = Asked
      BY DEF Asked
  <2>2. BlockedHere /\ ord # 0 => BlockedHere'
    <3>1. ord # 0 => ord \in Attempts
        BY BoundsAssumption DEF TypeOK, Attempts
    <3> QED  BY <3>1 DEF BlockedHere, Executions
  <2>3. marked => ord # 0
      BY DEF CallInv, Terminal
  <2>4. sender.pc = "project" => marked
      BY DEF CallInv, After
  <2>5. \A n \in Attempts, p \in Executions :
          adm'[n][p].state = "completed" => disp'[n][p].state = "runtime_acknowledged"
      BY DEF ReportInv
  <2>6. sender'.pc = "await" /\ sender'.conn = "reply" =>
          /\ sender'.got \in {"runtime_dispatched"} \cup Final
          /\ sender'.got \in {"runtime_acknowledged", "blocked"} => disp'[ord'][Asked'[2]].state = sender'.got
      BY <2>1
  <2>7. sender'.pc = "project" =>
          /\ sender'.got \in {"delivered", "blocked", "uncertain"}
          /\ sender'.got = "delivered" => calls' = 1
          /\ sender'.got = "blocked" => BlockedHere'
      BY <2>2, <2>3, <2>4 DEF ReportInv
  <2>8. /\ observer' # 0 \/ row' = "delivered" => calls' = 1
        /\ marked' /\ row' \in {"blocked", "expired", "budget_exhausted"} => BlockedHere'
      BY <2>2, <2>3 DEF ReportInv
  <2> QED  BY <2>5, <2>6, <2>7, <2>8 DEF ReportInv, Executions, Attempts
<1> QED  BY <1>1, <1>2, <1>3, <1>4

LEMMA DispStep ==
  ASSUME TypeOK, NEW n \in Attempts, NEW p \in Executions, NEW x \in Dispatches,
         disp' = [disp EXCEPT ![n][p] = x]
  PROVE  /\ disp' \in [Attempts -> [Executions -> Dispatches]]
         /\ \A m \in Attempts, q \in Executions : disp'[m][q] = IF m = n /\ q = p THEN x ELSE disp[m][q]
<1>1. disp \in [Attempts -> [Executions -> Dispatches]]
    BY DEF TypeOK
<1>2. disp' \in [Attempts -> [Executions -> Dispatches]]
    BY <1>1
<1>3. \A m \in Attempts, q \in Executions : disp'[m][q] = IF m = n /\ q = p THEN x ELSE disp[m][q]
    BY <1>1
<1> QED  BY <1>2, <1>3

LEMMA DispStateStep ==
  ASSUME TypeOK, NEW n \in Attempts, NEW p \in Executions,
         NEW state \in {"none", "runtime_dispatched"} \cup Final,
         disp' = [disp EXCEPT ![n][p].state = state]
  PROVE  /\ disp' \in [Attempts -> [Executions -> Dispatches]] /\ disp'[n][p].state = state
         /\ \A m \in Attempts, q \in Executions : m # n \/ q # p => disp'[m][q] = disp[m][q]
<1> DEFINE x == [disp[n][p] EXCEPT !.state = state]
<1>1. disp[n][p] \in Dispatches
    BY DEF TypeOK
<1>2. x \in Dispatches /\ x.state = state
    BY <1>1 DEF Dispatches
<1>3. disp' = [disp EXCEPT ![n][p] = x]
    OBVIOUS
<1> HIDE DEF x
<1>4. disp \in [Attempts -> [Executions -> Dispatches]]
    BY DEF TypeOK
<1>5. disp' \in [Attempts -> [Executions -> Dispatches]]
    BY <1>2, <1>3, <1>4
<1>6. \A m \in Attempts, q \in Executions : disp'[m][q] = IF m = n /\ q = p THEN x ELSE disp[m][q]
    BY <1>3, <1>4
<1> QED  BY <1>2, <1>5, <1>6

LEMMA HandlePrepareInv ==
  ASSUME ReceiverInv, NEW n \in Attempts, NEW live \in BOOLEAN, HandlePrepare(n, live)
  PROVE  ReceiverInv'
<1>1. /\ UNCHANGED <<message, adm, reg, observer, boot, disp, procs, thread, calls, expired, faults>>
      /\ Answer(<<n, "prepare">>, live, "reply", "prepared") /\ Arrives(<<n, "prepare">>, live)
      /\ prep' = IF prep[n] # 0 THEN prep ELSE [prep EXCEPT ![n] = boot]
    BY DEF HandlePrepare
<1>2. live => sender.conn = "net" /\ Asked = <<n, "prepare">>
    BY <1>1 DEF Arrives
<1>3. live => sender.pc = "prepare"
  <2>1. live => Asked[2] = "prepare"
      BY <1>2
  <2> QED  BY <2>1 DEF Asked
<1>4. /\ sender' \in Senders /\ sender'.pc = sender.pc /\ sender'.mode = sender.mode
      /\ live => sender'.conn = "reply" /\ sender'.got = "prepared"
      /\ ~live => sender' = sender
      /\ late' \subseteq late
    BY <1>1, <1>2, AnswerFacts
<1>5. prep' \in [Attempts -> 0..MaxBoot]
    BY <1>1, BoundsAssumption DEF ReceiverInv, TypeOK
<1>6. LedgerInv'
    BY <1>1, LedgerKept DEF ReceiverInv, message
<1>7. sender'.pc = "await" /\ sender'.conn = "reply" =>
        /\ sender'.got \in {"runtime_dispatched"} \cup Final
        /\ sender'.got \in {"runtime_acknowledged", "blocked"} => disp'[ord][Asked[2]].state = sender'.got
  <2>1. CASE live
      BY <1>3, <1>4, <2>1
  <2>2. CASE ~live
      BY <1>1, <1>4, <2>2 DEF ReceiverInv, ReportInv
  <2> QED  BY <2>1, <2>2
<1>8. sender'.conn # "none" => sender.conn # "none"
    BY <1>2, <1>4
<1>9. (sender'.conn = "thread" => sender.pc = "await") /\ (sender.pc = "project" => sender'.got = sender.got)
    BY <1>3, <1>4 DEF ReceiverInv, CallInv
<1>10. boot' \in 1..MaxBoot /\ procs' \subseteq 1..MaxBoot /\ expired' \in BOOLEAN
       /\ disp' \in [Attempts -> [Executions -> Dispatches]]
       /\ thread' \in [Attempts -> [Executions -> {"none", "marked", "calling", "called"}]]
    BY <1>1 DEF ReceiverInv, TypeOK
<1> QED  BY <1>1, <1>4, <1>5, <1>6, <1>7, <1>8, <1>9, <1>10, ReceiverStep

(* The first copy of an execution request finds an empty ledger.             *)
LEMMA HandleDispatchInv ==
  ASSUME ReceiverInv, NEW n \in Attempts, NEW p \in Executions, NEW live \in BOOLEAN, HandleDispatch(n, p, live)
  PROVE  ReceiverInv'
<1> DEFINE x == [boot |-> boot, state |-> "runtime_dispatched"]
<1>1. /\ UNCHANGED <<message, adm, reg, observer, boot, prep, procs, calls, expired, faults>>
      /\ Answer(<<n, p>>, live, "thread", "none") /\ Arrives(<<n, p>>, live) /\ Unmarked(n)
      /\ disp' = [disp EXCEPT ![n][p] = x] /\ thread' = [thread EXCEPT ![n][p] = "marked"]
    BY DEF HandleDispatch
<1>2. marked /\ n = ord /\ (live => sender.pc = "await" /\ sender.conn = "net")
    BY <1>1, ArrivesMarked
<1>3. /\ sender' \in Senders /\ sender'.pc = sender.pc /\ sender'.mode = sender.mode
      /\ live => sender'.conn = "thread" /\ sender'.got = "none"
      /\ ~live => sender' = sender
      /\ late' \subseteq late
    BY <1>1, <1>2, AnswerFacts
<1>4. x \in Dispatches /\ x.state = "runtime_dispatched"
    BY BoundsAssumption DEF ReceiverInv, TypeOK, Dispatches
<1> HIDE DEF x
<1>5. /\ disp' \in [Attempts -> [Executions -> Dispatches]]
      /\ \A m \in Attempts, q \in Executions : disp'[m][q] = IF m = n /\ q = p THEN x ELSE disp[m][q]
    BY <1>1, <1>4, DispStep DEF ReceiverInv
<1>6. /\ thread' \in [Attempts -> [Executions -> {"none", "marked", "calling", "called"}]]
      /\ \A m \in Attempts, q \in Executions : thread'[m][q] = IF m = n /\ q = p THEN "marked" ELSE thread[m][q]
  <2>1. thread \in [Attempts -> [Executions -> {"none", "marked", "calling", "called"}]]
      BY DEF ReceiverInv, TypeOK
  <2>2. thread' \in [Attempts -> [Executions -> {"none", "marked", "calling", "called"}]]
      BY <1>1, <2>1
  <2>3. \A m \in Attempts, q \in Executions : thread'[m][q] = IF m = n /\ q = p THEN "marked" ELSE thread[m][q]
      BY <1>1, <2>1
  <2> QED  BY <2>2, <2>3
<1>7. \A m \in Attempts, q \in Executions : disp[m][q].state = "none" /\ thread[m][q] = "none"
  <2>1. \A m \in Attempts, q \in Executions : disp[m][q].state = "none"
    <3>1. \A q \in Executions : disp[n][q].state = "none"
        BY <1>1 DEF Unmarked
    <3>2. \A m \in Attempts, q \in Executions : disp[m][q].state # "none" => m = ord
        BY DEF ReceiverInv, LedgerInv
    <3> QED  BY <1>2, <3>1, <3>2
  <2> QED  BY <2>1 DEF ReceiverInv, LedgerInv
<1>8. calls = 0
    BY <1>7 DEF ReceiverInv, LedgerInv, Unmarked
<1>9. LedgerInv'
  <2>1. "dispatch" \in Executions /\ "recover" \in Executions
      BY DEF Executions
  <2>2. ~Unmarked(n)'
      BY <1>4, <1>5 DEF Unmarked, Executions
  <2>3. \A m \in Attempts, q \in Executions :
          /\ disp'[m][q].state # "none" => m = n /\ q = p /\ disp'[m][q].state = "runtime_dispatched"
          /\ thread'[m][q] # "none" => m = n /\ q = p /\ thread'[m][q] = "marked"
      BY <1>4, <1>5, <1>6, <1>7
  <2>4. \A m \in Attempts : disp'[m]["dispatch"].state = "none" \/ disp'[m]["recover"].state = "none"
      BY <2>1, <2>3
  <2>5. calls' = 0 /\ marked' /\ ord' = n
      BY <1>1, <1>2, <1>8 DEF message
  <2>6. thread'[n][p] = "marked" /\ disp'[n][p].state = "runtime_dispatched"
      BY <1>4, <1>5, <1>6
  <2> QED  BY <2>3, <2>4, <2>5, <2>6 DEF LedgerInv, Attempts, Executions
<1>10. sender'.pc = "await" /\ sender'.conn = "reply" =>
        /\ sender'.got \in {"runtime_dispatched"} \cup Final
        /\ sender'.got \in {"runtime_acknowledged", "blocked"} => disp'[ord][Asked[2]].state = sender'.got
  <2>1. CASE ~live /\ sender.pc = "await"
    <3>1. Asked[2] \in Executions
        BY <2>1, AskedFacts
    <3> QED  BY <1>2, <1>3, <1>7, <2>1, <3>1 DEF ReceiverInv, ReportInv
  <2> QED  BY <1>3, <2>1
<1>11. sender'.conn # "none" => sender.conn # "none"
    BY <1>2, <1>3
<1>12. (sender'.conn = "thread" => sender.pc = "await") /\ (sender.pc = "project" => sender'.got = sender.got)
    BY <1>2, <1>3 DEF ReceiverInv, CallInv
<1>13. boot' \in 1..MaxBoot /\ procs' \subseteq 1..MaxBoot /\ expired' \in BOOLEAN /\ prep' \in [Attempts -> 0..MaxBoot]
    BY <1>1 DEF ReceiverInv, TypeOK
<1>14. \A m \in Attempts, q \in Executions :
         disp[m][q].state \in {"runtime_acknowledged", "blocked"} => disp'[m][q].state = disp[m][q].state
    BY <1>7
<1> QED  BY <1>1, <1>3, <1>5, <1>6, <1>9, <1>10, <1>11, <1>12, <1>13, <1>14, ReceiverStep

(* The state of the one execution goes from dispatched to a final state, and *)
(* its thread ends or stays.                                                 *)
LEMMA LedgerSettled ==
  ASSUME ReceiverInv, UNCHANGED <<message, calls>>, NEW n \in Attempts, NEW p \in Executions,
         NEW state \in {"none", "runtime_dispatched"} \cup Final, disp[n][p].state # "none", state # "none",
         \A m \in Attempts, q \in Executions :
           /\ disp'[m][q].state = IF m = n /\ q = p THEN state ELSE disp[m][q].state
           /\ thread'[m][q] \in {thread[m][q], "none"},
         thread'[n][p] # "none" => state \in {"runtime_dispatched", "uncertain"},
         state = "runtime_acknowledged" => calls = 1, state = "blocked" => calls = 0
  PROVE  LedgerInv'
<1> USE DEF ReceiverInv, message
<1>1. "dispatch" \in Executions /\ "recover" \in Executions
    BY DEF Executions
<1>2. \A m \in Attempts, q \in Executions : disp'[m][q].state = "none" <=> disp[m][q].state = "none"
    OBVIOUS
<1>3. \A m \in Attempts : disp'[m]["dispatch"].state = "none" \/ disp'[m]["recover"].state = "none"
    BY <1>1, <1>2 DEF LedgerInv
<1>4. ~\A m \in Attempts : Unmarked(m)'
    BY <1>2 DEF Unmarked, Executions
<1>5. ASSUME NEW m \in Attempts, NEW q \in Executions
      PROVE  /\ disp'[m][q].state # "none" => marked' /\ m = ord'
             /\ thread'[m][q] # "none" => disp'[m][q].state \in {"runtime_dispatched", "uncertain"}
             /\ thread'[m][q] \in {"marked", "calling"} => calls' = 0
             /\ thread'[m][q] = "called" => calls' = 1
             /\ disp'[m][q].state = "runtime_acknowledged" => calls' = 1
             /\ disp'[m][q].state = "blocked" => calls' = 0
  <2>1. /\ disp[m][q].state # "none" => marked /\ m = ord
        /\ thread[m][q] # "none" => disp[m][q].state \in {"runtime_dispatched", "uncertain"}
        /\ thread[m][q] \in {"marked", "calling"} => calls = 0
        /\ thread[m][q] = "called" => calls = 1
        /\ disp[m][q].state = "runtime_acknowledged" => calls = 1
        /\ disp[m][q].state = "blocked" => calls = 0
      BY DEF LedgerInv
  <2>2. CASE m = n /\ q = p
      BY <2>1, <2>2
  <2>3. CASE ~(m = n /\ q = p)
      BY <2>1, <2>3
  <2> QED  BY <2>2, <2>3
<1>6. calls' \in {0, 1}
    BY DEF LedgerInv
<1> QED  BY <1>3, <1>4, <1>5, <1>6 DEF LedgerInv, Attempts, Executions

LEMMA HandleCopyInv ==
  ASSUME ReceiverInv, NEW n \in Attempts, NEW p \in Executions, NEW live \in BOOLEAN,
         HandleDuplicate(n, p, live) \/ HandleAtDeadline(n, p, live)
  PROVE  ReceiverInv'
<1>0. TypeOK
    BY DEF ReceiverInv
<1>1. /\ UNCHANGED <<message, adm, reg, observer, boot, prep, procs, thread, calls, faults>>
      /\ Arrives(<<n, p>>, live) /\ disp[n][p].state # "none" /\ expired' \in BOOLEAN
    BY <1>0 DEF HandleDuplicate, HandleAtDeadline, TypeOK
<1>2. \/ disp' = disp
      \/ disp[n][p].state = "runtime_dispatched" /\ disp' = [disp EXCEPT ![n][p].state = "uncertain"]
    BY DEF HandleDuplicate, HandleAtDeadline
<1>3. PICK state \in {"none", "runtime_dispatched"} \cup Final :
        /\ disp' \in [Attempts -> [Executions -> Dispatches]] /\ disp'[n][p].state = state
        /\ \A m \in Attempts, q \in Executions : m # n \/ q # p => disp'[m][q] = disp[m][q]
        /\ state = disp[n][p].state \/ (disp[n][p].state = "runtime_dispatched" /\ state = "uncertain")
  <2>1. CASE disp' = disp
    <3>1. disp[n][p].state \in {"none", "runtime_dispatched"} \cup Final
        BY <1>0 DEF TypeOK, Dispatches
    <3> QED  BY <1>0, <2>1, <3>1 DEF TypeOK
  <2>2. CASE disp[n][p].state = "runtime_dispatched" /\ disp' = [disp EXCEPT ![n][p].state = "uncertain"]
    <3>1. "uncertain" \in {"none", "runtime_dispatched"} \cup Final
        BY DEF Final
    <3>2. /\ disp' \in [Attempts -> [Executions -> Dispatches]] /\ disp'[n][p].state = "uncertain"
          /\ \A m \in Attempts, q \in Executions : m # n \/ q # p => disp'[m][q] = disp[m][q]
      <4> DEFINE u == "uncertain"
      <4>1. u \in {"none", "runtime_dispatched"} \cup Final /\ disp' = [disp EXCEPT ![n][p].state = u]
          BY <2>2, <3>1
      <4> HIDE DEF u
      <4>2. /\ disp' \in [Attempts -> [Executions -> Dispatches]] /\ disp'[n][p].state = u
            /\ \A m \in Attempts, q \in Executions : m # n \/ q # p => disp'[m][q] = disp[m][q]
          BY <1>0, <4>1, DispStateStep, Zenon
      <4> QED  BY <4>2 DEF u
    <3> QED  BY <2>2, <3>1, <3>2
  <2> QED  BY <1>2, <2>1, <2>2
<1>4. Answer(<<n, p>>, live, "reply", state)
  <2>1. CASE HandleDuplicate(n, p, live)
      BY <1>3, <2>1 DEF HandleDuplicate
  <2>2. CASE HandleAtDeadline(n, p, live)
    <3>1. disp' = [disp EXCEPT ![n][p].state = "uncertain"] /\ Answer(<<n, p>>, live, "reply", "uncertain")
        BY <2>2 DEF HandleAtDeadline
    <3>2. "uncertain" \in {"none", "runtime_dispatched"} \cup Final
        BY DEF Final
    <3>3. disp'[n][p].state = "uncertain"
        BY <1>0, <3>1, <3>2, DispStateStep
    <3> QED  BY <1>3, <3>1, <3>3
  <2> QED  BY <2>1, <2>2
<1>5. marked /\ n = ord /\ (live => sender.pc = "await" /\ sender.conn = "net" /\ Asked[2] = p)
    BY <1>1, ArrivesMarked
<1>6. /\ sender' \in Senders /\ sender'.pc = sender.pc /\ sender'.mode = sender.mode
      /\ live => sender'.conn = "reply" /\ sender'.got = state
      /\ ~live => sender' = sender
      /\ late' \subseteq late
    BY <1>4, <1>5, AnswerFacts
<1>7. \A m \in Attempts, q \in Executions :
        disp[m][q].state \in {"runtime_acknowledged", "blocked"} => disp'[m][q].state = disp[m][q].state
    BY <1>3
<1>8. LedgerInv'
  <2>1. \A m \in Attempts, q \in Executions :
          /\ disp'[m][q].state = IF m = n /\ q = p THEN state ELSE disp[m][q].state
          /\ thread'[m][q] \in {thread[m][q], "none"}
      BY <1>1, <1>3
  <2>2. thread'[n][p] # "none" => state \in {"runtime_dispatched", "uncertain"}
      BY <1>1, <1>3 DEF ReceiverInv, LedgerInv
  <2>3. (state = "runtime_acknowledged" => calls = 1) /\ (state = "blocked" => calls = 0)
      BY <1>3 DEF ReceiverInv, LedgerInv
  <2>4. UNCHANGED <<message, calls>> /\ disp[n][p].state # "none" /\ state # "none"
      BY <1>1, <1>3
  <2> QED  BY <2>1, <2>2, <2>3, <2>4, LedgerSettled
<1>9. sender'.pc = "await" /\ sender'.conn = "reply" =>
        /\ sender'.got \in {"runtime_dispatched"} \cup Final
        /\ sender'.got \in {"runtime_acknowledged", "blocked"} => disp'[ord][Asked[2]].state = sender'.got
  <2>1. CASE live
      BY <1>1, <1>3, <1>5, <1>6, <2>1
  <2>2. CASE ~live /\ sender.pc = "await"
    <3>1. Asked[2] \in Executions /\ ord \in Attempts
        BY <2>2, AskedFacts
    <3> QED  BY <1>6, <1>7, <2>2, <3>1 DEF ReceiverInv, ReportInv
  <2> QED  BY <1>6, <2>1, <2>2
<1>10. sender'.conn # "none" => sender.conn # "none"
    BY <1>5, <1>6
<1>11. (sender'.conn = "thread" => sender.pc = "await") /\ (sender.pc = "project" => sender'.got = sender.got)
    BY <1>5, <1>6 DEF ReceiverInv, CallInv
<1>12. /\ boot' \in 1..MaxBoot /\ procs' \subseteq 1..MaxBoot /\ prep' \in [Attempts -> 0..MaxBoot]
       /\ thread' \in [Attempts -> [Executions -> {"none", "marked", "calling", "called"}]]
    BY <1>0, <1>1 DEF TypeOK
<1> QED  BY <1>1, <1>3, <1>6, <1>7, <1>8, <1>9, <1>10, <1>11, <1>12, ReceiverStep

(* An execution ends with a state that is true of the Native.                *)
LEMMA LeaveInv ==
  ASSUME ReceiverInv, NEW n \in Attempts, NEW p \in Executions, thread[n][p] # "none",
         NEW state \in Final, NEW answered \in BOOLEAN, Leave(n, p, state, answered),
         UNCHANGED <<message, adm, reg, observer, late, boot, prep, procs, calls, expired, faults>>,
         state = "runtime_acknowledged" => calls = 1, state = "blocked" => calls = 0
  PROVE  ReceiverInv'
<1> DEFINE own == disp[n][p].state = "runtime_dispatched"
           next == IF own THEN state ELSE disp[n][p].state
<1>0. TypeOK
    BY DEF ReceiverInv
<1>1. disp[n][p].state \in {"runtime_dispatched", "uncertain"}
    BY DEF ReceiverInv, LedgerInv
<1>2. next \in {"none", "runtime_dispatched"} \cup Final /\ next # "none" /\ next # "runtime_dispatched"
    BY <1>1 DEF Final
<1>3. /\ disp' \in [Attempts -> [Executions -> Dispatches]] /\ disp'[n][p].state = next
      /\ \A m \in Attempts, q \in Executions : m # n \/ q # p => disp'[m][q] = disp[m][q]
  <2>1. CASE own
    <3>1. disp' = [disp EXCEPT ![n][p].state = state] /\ next = state
        BY <2>1 DEF Leave
    <3>2. state \in {"none", "runtime_dispatched"} \cup Final
        OBVIOUS
    <3>3. /\ disp' \in [Attempts -> [Executions -> Dispatches]] /\ disp'[n][p].state = state
          /\ \A m \in Attempts, q \in Executions : m # n \/ q # p => disp'[m][q] = disp[m][q]
        BY <1>0, <3>1, <3>2, DispStateStep, Zenon
    <3> QED  BY <3>1, <3>3
  <2>2. CASE ~own
      BY <1>0, <2>2 DEF Leave, TypeOK
  <2> QED  BY <2>1, <2>2
<1>4. /\ thread' \in [Attempts -> [Executions -> {"none", "marked", "calling", "called"}]]
      /\ \A m \in Attempts, q \in Executions : thread'[m][q] = IF m = n /\ q = p THEN "none" ELSE thread[m][q]
  <2>1. /\ thread \in [Attempts -> [Executions -> {"none", "marked", "calling", "called"}]]
        /\ thread' = [thread EXCEPT ![n][p] = "none"]
      BY <1>0 DEF TypeOK, Leave
  <2>2. thread' \in [Attempts -> [Executions -> {"none", "marked", "calling", "called"}]]
      BY <2>1
  <2>3. \A m \in Attempts, q \in Executions : thread'[m][q] = IF m = n /\ q = p THEN "none" ELSE thread[m][q]
      BY <2>1
  <2> QED  BY <2>2, <2>3
<1>5. LedgerInv'
  <2>1. \A m \in Attempts, q \in Executions :
          /\ disp'[m][q].state = IF m = n /\ q = p THEN next ELSE disp[m][q].state
          /\ thread'[m][q] \in {thread[m][q], "none"}
      BY <1>3, <1>4
  <2>2. thread'[n][p] = "none" /\ disp[n][p].state # "none" /\ UNCHANGED <<message, calls>>
      BY <1>1, <1>4
  <2>3. (next = "runtime_acknowledged" => calls = 1) /\ (next = "blocked" => calls = 0)
      BY <1>1
  <2> HIDE DEF next
  <2> QED  BY <1>2, <2>1, <2>2, <2>3, LedgerSettled
<1>6. \/ sender' = sender
      \/ /\ sender.conn = "thread" /\ Asked = <<n, p>> /\ own
         /\ sender' = [sender EXCEPT !.conn = "reply", !.got = state]
      \/ sender.conn = "thread" /\ sender' = [sender EXCEPT !.conn = "none"]
    BY DEF Leave
<1>7. \/ sender' = sender
      \/ /\ sender.conn = "thread" /\ Asked = <<n, p>> /\ own
         /\ sender' \in Senders /\ sender'.pc = sender.pc /\ sender'.mode = sender.mode
         /\ sender'.conn = "reply" /\ sender'.got = state
      \/ /\ sender.conn = "thread" /\ sender' \in Senders /\ sender'.pc = sender.pc /\ sender'.mode = sender.mode
         /\ sender'.conn = "none" /\ sender'.got = sender.got
  <2>1. sender \in Senders
      BY <1>0 DEF TypeOK
  <2>2. CASE sender' = sender
      BY <2>2
  <2>3. CASE /\ sender.conn = "thread" /\ Asked = <<n, p>> /\ own
             /\ sender' = [sender EXCEPT !.conn = "reply", !.got = state]
    <3>1. /\ sender' \in Senders /\ sender'.pc = sender.pc /\ sender'.mode = sender.mode
          /\ sender'.conn = "reply" /\ sender'.got = state
        BY <2>1, <2>3 DEF Senders
    <3> QED  BY <2>3, <3>1
  <2>4. CASE sender.conn = "thread" /\ sender' = [sender EXCEPT !.conn = "none"]
    <3>1. /\ sender' \in Senders /\ sender'.pc = sender.pc /\ sender'.mode = sender.mode
          /\ sender'.conn = "none" /\ sender'.got = sender.got
        BY <2>1, <2>4 DEF Senders
    <3> QED  BY <2>4, <3>1
  <2> QED  BY <1>6, <2>2, <2>3, <2>4
<1>8. sender.conn = "thread" => sender.pc = "await"
    BY DEF ReceiverInv, CallInv
<1>9. \A m \in Attempts, q \in Executions :
        disp[m][q].state \in {"runtime_acknowledged", "blocked"} => disp'[m][q].state = disp[m][q].state
    BY <1>1, <1>3
<1>10. sender'.pc = "await" /\ sender'.conn = "reply" =>
        /\ sender'.got \in {"runtime_dispatched"} \cup Final
        /\ sender'.got \in {"runtime_acknowledged", "blocked"} => disp'[ord][Asked[2]].state = sender'.got
  <2>1. CASE sender' = sender /\ sender.pc = "await"
    <3>1. Asked[2] \in Executions /\ ord \in Attempts
        BY <2>1, AskedFacts
    <3> QED  BY <1>9, <2>1, <3>1 DEF ReceiverInv, ReportInv
  <2>2. CASE sender.conn = "thread" /\ Asked = <<n, p>> /\ own /\ sender'.got = state
    <3>1. Asked[2] = p /\ Asked[1] = n /\ Asked[1] = ord
        BY <2>2 DEF Asked
    <3> QED  BY <1>3, <2>2, <3>1
  <2> QED  BY <1>7, <2>1, <2>2
<1>11. sender' \in Senders /\ sender'.pc = sender.pc /\ sender'.mode = sender.mode
    BY <1>0, <1>7 DEF TypeOK
<1>12. sender'.conn # "none" => sender.conn # "none"
    BY <1>7
<1>13. (sender'.conn = "thread" => sender.pc = "await") /\ (sender.pc = "project" => sender'.got = sender.got)
    BY <1>7, <1>8
<1>14. /\ late' \subseteq late /\ boot' \in 1..MaxBoot /\ procs' \subseteq 1..MaxBoot
       /\ prep' \in [Attempts -> 0..MaxBoot] /\ expired' \in BOOLEAN /\ (calls = 1 => calls' = 1)
    BY <1>0 DEF TypeOK
<1> QED  BY <1>3, <1>4, <1>5, <1>9, <1>10, <1>11, <1>12, <1>13, <1>14, ReceiverStep

(* A step that leaves message, admissions, sender and ledger rows alone.     *)
LEMMA QuietStep ==
  ASSUME ReceiverInv, UNCHANGED <<message, adm, sender, observer, disp>>,
         reg' \in 1..MaxBoot, boot' \in 1..MaxBoot, procs' \subseteq 1..MaxBoot,
         prep' \in [Attempts -> 0..MaxBoot], expired' \in BOOLEAN, faults' \in 0..MaxFaults, late' \subseteq late,
         thread' \in [Attempts -> [Executions -> {"none", "marked", "calling", "called"}]],
         calls' \in Nat, LedgerInv', calls = 1 => calls' = 1
  PROVE  ReceiverInv'
<1> USE DEF ReceiverInv, message
<1>1. TypeOK'
    BY DEF TypeOK
<1>2. CallInv' /\ RequestInv'
    BY DEF CallInv, RequestInv
<1>3. ReportInv'
    BY DEF ReportInv, BlockedHere, Asked, Executions, Attempts
<1> QED  BY <1>1, <1>2, <1>3

(* Threads that end or that go on to the call change nothing in the ledger.  *)
LEMMA ThreadsMove ==
  ASSUME LedgerInv, UNCHANGED <<disp, calls, marked, ord>>,
         \A m \in Attempts, q \in Executions :
           \/ thread'[m][q] \in {"none", thread[m][q]}
           \/ thread[m][q] = "marked" /\ thread'[m][q] = "calling"
  PROVE  LedgerInv'
<1>1. ASSUME NEW m \in Attempts, NEW q \in Executions
      PROVE  /\ disp'[m][q].state # "none" => marked' /\ m = ord'
             /\ thread'[m][q] # "none" => disp'[m][q].state \in {"runtime_dispatched", "uncertain"}
             /\ thread'[m][q] \in {"marked", "calling"} => calls' = 0
             /\ thread'[m][q] = "called" => calls' = 1
             /\ disp'[m][q].state = "runtime_acknowledged" => calls' = 1
             /\ disp'[m][q].state = "blocked" => calls' = 0
  <2>1. /\ disp[m][q].state # "none" => marked /\ m = ord
        /\ thread[m][q] # "none" => disp[m][q].state \in {"runtime_dispatched", "uncertain"}
        /\ thread[m][q] \in {"marked", "calling"} => calls = 0
        /\ thread[m][q] = "called" => calls = 1
        /\ disp[m][q].state = "runtime_acknowledged" => calls = 1
        /\ disp[m][q].state = "blocked" => calls = 0
      BY DEF LedgerInv
  <2> QED  BY <2>1
<1>2. (\A n \in Attempts : Unmarked(n)') => \A n \in Attempts : Unmarked(n)
    BY DEF Unmarked, Executions
<1>3. /\ calls' \in {0, 1}
      /\ (\A n \in Attempts : Unmarked(n)') => calls' = 0
      /\ \A n \in Attempts : disp'[n]["dispatch"].state = "none" \/ disp'[n]["recover"].state = "none"
    BY <1>2 DEF LedgerInv
<1> QED  BY <1>1, <1>3 DEF LedgerInv, Attempts, Executions

LEMMA ExecuteInv ==
  ASSUME ReceiverInv, NEW n \in Attempts, NEW p \in Executions, Execute(n, p)
  PROVE  ReceiverInv'
<1>0. TypeOK /\ LedgerInv
    BY DEF ReceiverInv
<1>1. CASE Admit(n, p)
  <2>1. /\ thread[n][p] = "marked" /\ thread' = [thread EXCEPT ![n][p] = "calling"]
        /\ UNCHANGED <<message, adm, reg, sender, observer, late, boot, ledger, procs, calls, expired, faults>>
      BY <1>1 DEF Admit
  <2>2. thread \in [Attempts -> [Executions -> {"none", "marked", "calling", "called"}]]
      BY <1>0 DEF TypeOK
  <2>3. thread' \in [Attempts -> [Executions -> {"none", "marked", "calling", "called"}]]
      BY <2>1, <2>2
  <2>4. \A m \in Attempts, q \in Executions : thread'[m][q] = IF m = n /\ q = p THEN "calling" ELSE thread[m][q]
      BY <2>1, <2>2
  <2>5. \A m \in Attempts, q \in Executions :
          \/ thread'[m][q] = thread[m][q]
          \/ thread[m][q] = "marked" /\ thread'[m][q] = "calling"
      BY <2>1, <2>4
  <2>6. UNCHANGED <<disp, calls, marked, ord>>
      BY <2>1 DEF ledger, message
  <2>7. LedgerInv'
      BY <1>0, <2>5, <2>6, ThreadsMove
  <2> QED  BY <1>0, <2>1, <2>3, <2>7, QuietStep DEF TypeOK, ledger
<1>2. CASE AdmitRefused(n, p)
  <2>1. thread[n][p] = "marked" /\ Leave(n, p, "blocked", TRUE) /\ "blocked" \in Final /\ calls = 0
      BY <1>0, <1>2 DEF AdmitRefused, Final, LedgerInv
  <2> QED  BY <1>2, <2>1, LeaveInv DEF AdmitRefused
<1>3. CASE CallNative(n, p)
  <2>1. /\ thread[n][p] = "calling" /\ thread' = [thread EXCEPT ![n][p] = "called"] /\ calls' = calls + 1
        /\ UNCHANGED <<message, adm, reg, sender, observer, late, boot, ledger, procs, expired, faults>>
      BY <1>3 DEF CallNative
  <2>2. thread \in [Attempts -> [Executions -> {"none", "marked", "calling", "called"}]]
      BY <1>0 DEF TypeOK
  <2>3. thread' \in [Attempts -> [Executions -> {"none", "marked", "calling", "called"}]]
      BY <2>1, <2>2
  <2>4. \A m \in Attempts, q \in Executions : thread'[m][q] = IF m = n /\ q = p THEN "called" ELSE thread[m][q]
      BY <2>1, <2>2
  <2>5. UNCHANGED <<disp, marked, ord>>
      BY <2>1 DEF ledger, message
  <2>6. calls = 0 /\ calls' = 1
      BY <1>0, <2>1 DEF LedgerInv
  <2>7. disp[n][p].state \in {"runtime_dispatched", "uncertain"} /\ n = ord
      BY <1>0, <2>1 DEF LedgerInv
  <2>8. \A m \in Attempts, q \in Executions : m # n \/ q # p => disp[m][q].state = "none"
    <3>1. \A m \in Attempts, q \in Executions : disp[m][q].state # "none" => m = ord
        BY <1>0 DEF LedgerInv
    <3>2. disp[n]["dispatch"].state = "none" \/ disp[n]["recover"].state = "none"
        BY <1>0 DEF LedgerInv
    <3> QED  BY <2>7, <3>1, <3>2 DEF Executions
  <2>9. LedgerInv'
    <3>1. ASSUME NEW m \in Attempts, NEW q \in Executions
          PROVE  /\ disp'[m][q].state # "none" => marked' /\ m = ord'
                 /\ thread'[m][q] # "none" => disp'[m][q].state \in {"runtime_dispatched", "uncertain"}
                 /\ thread'[m][q] \in {"none", "called"}
                 /\ disp'[m][q].state # "blocked"
      <4>1. /\ disp[m][q].state # "none" => marked /\ m = ord
            /\ thread[m][q] # "none" => disp[m][q].state \in {"runtime_dispatched", "uncertain"}
          BY <1>0 DEF LedgerInv
      <4> QED  BY <2>4, <2>5, <2>7, <2>8, <4>1
    <3>2. ~Unmarked(n)'
        BY <2>5, <2>7 DEF Unmarked
    <3>3. \A m \in Attempts : disp'[m]["dispatch"].state = "none" \/ disp'[m]["recover"].state = "none"
        BY <1>0, <2>5 DEF LedgerInv
    <3> QED  BY <2>6, <3>1, <3>2, <3>3 DEF LedgerInv, Attempts, Executions
  <2>10. calls' \in Nat
      BY <2>6
  <2> QED  BY <1>0, <2>1, <2>3, <2>6, <2>9, <2>10, QuietStep DEF TypeOK, ledger
<1>4. CASE NativeFails(n, p)
  <2>1. thread[n][p] # "none" /\ Leave(n, p, "uncertain", TRUE) /\ "uncertain" \in Final
      BY <1>4 DEF NativeFails, Final
  <2> QED  BY <1>4, <2>1, LeaveInv DEF NativeFails
<1>5. CASE Complete(n, p)
  <2> DEFINE state == IF disp[n][p].boot = boot /\ ~expired THEN "runtime_acknowledged" ELSE "uncertain"
  <2>1. thread[n][p] = "called" /\ Leave(n, p, state, ~expired) /\ state \in Final /\ state # "blocked"
      BY <1>5 DEF Complete, Final
  <2>2. calls = 1 /\ (~expired) \in BOOLEAN
      BY <1>0, <2>1 DEF LedgerInv
  <2>3. UNCHANGED <<message, adm, reg, observer, late, boot, prep, procs, calls, expired, faults>>
      BY <1>5 DEF Complete
  <2> HIDE DEF state
  <2> QED  BY <2>1, <2>2, <2>3, LeaveInv
<1> QED  BY <1>1, <1>2, <1>3, <1>4, <1>5 DEF Execute

LEMMA SurroundingsInv ==
  ASSUME ReceiverInv,
         \/ ClaimBoot \/ RegisterBoot \/ DeadlinePasses
         \/ \E b \in 1..MaxBoot : ProcessCrash(b)
         \/ \E r \in Attempts \X Purposes : RequestLost(r)
  PROVE  ReceiverInv'
<1> USE BoundsAssumption
<1>0. TypeOK /\ LedgerInv
    BY DEF ReceiverInv
<1>1. CASE ClaimBoot \/ RegisterBoot \/ DeadlinePasses \/ \E r \in Attempts \X Purposes : RequestLost(r)
  <2>1. UNCHANGED <<message, adm, sender, observer, ledger, thread, calls, faults>> /\ late' \subseteq late
      BY <1>1 DEF ClaimBoot, RegisterBoot, DeadlinePasses, RequestLost
  <2>2. reg' \in 1..MaxBoot /\ boot' \in 1..MaxBoot /\ procs' \subseteq 1..MaxBoot /\ expired' \in BOOLEAN
    <3>1. reg \in 1..MaxBoot /\ boot \in 1..MaxBoot /\ procs \subseteq 1..MaxBoot /\ expired \in BOOLEAN
        BY <1>0 DEF TypeOK
    <3>2. CASE ClaimBoot
        BY <3>1, <3>2 DEF ClaimBoot
    <3>3. CASE RegisterBoot
        BY <3>1, <3>3 DEF RegisterBoot
    <3>4. CASE DeadlinePasses \/ \E r \in Attempts \X Purposes : RequestLost(r)
        BY <3>1, <3>4 DEF DeadlinePasses, RequestLost
    <3> QED  BY <1>1, <3>2, <3>3, <3>4
  <2>3. LedgerInv'
      BY <1>0, <2>1, LedgerKept DEF ledger, message
  <2> QED  BY <1>0, <2>1, <2>2, <2>3, QuietStep DEF TypeOK, ledger
<1>2. ASSUME NEW b \in 1..MaxBoot, ProcessCrash(b) PROVE ReceiverInv'
  <2>1. /\ UNCHANGED <<message, adm, reg, sender, observer, late, boot, ledger, calls, expired>>
        /\ procs' = procs \ {b} /\ faults' = faults + 1 /\ faults < MaxFaults
        /\ thread' = [n \in Attempts |-> [p \in Executions |->
                        IF disp[n][p].boot = b THEN "none" ELSE thread[n][p]]]
      BY <1>2 DEF ProcessCrash
  <2>2. thread' \in [Attempts -> [Executions -> {"none", "marked", "calling", "called"}]]
      BY <1>0, <2>1 DEF TypeOK
  <2>3. \A m \in Attempts, q \in Executions : thread'[m][q] \in {"none", thread[m][q]}
      BY <2>1
  <2>4. UNCHANGED <<disp, calls, marked, ord>>
      BY <2>1 DEF ledger, message
  <2>5. LedgerInv'
      BY <1>0, <2>3, <2>4, ThreadsMove
  <2>6. faults' \in 0..MaxFaults
      BY <1>0, <2>1 DEF TypeOK
  <2> QED  BY <1>0, <2>1, <2>2, <2>5, <2>6, QuietStep DEF TypeOK, ledger
<1> QED  BY <1>1, <1>2

-----------------------------------------------------------------------------
LEMMA SenderInv ==
  ASSUME ReceiverInv, Sender
  PROVE  ReceiverInv'
BY PrepareStepsInv, ReadinessInv, MarkInv, AwaitStepsInv, InspectInv, ProjectInv, RecoverStepsInv DEF Sender

LEMMA NextInv ==
  ASSUME ReceiverInv, [Next]_vars
  PROVE  ReceiverInv'
<1>1. CASE Dispatch \/ Sender \/ Reconcile \/ Recover \/ SenderCrash \/ ObserverReads \/ ObserverRecords
    BY <1>1, DispatchInv, SenderInv, ReconcileInv, RecoverStepsInv, SenderCrashInv, ObserverInv
<1>2. ASSUME NEW n \in Attempts, NEW live \in BOOLEAN, Receive(n, live) PROVE ReceiverInv'
    BY <1>2, HandlePrepareInv, HandleDispatchInv, HandleCopyInv DEF Receive
<1>3. ASSUME NEW n \in Attempts, NEW p \in Executions, Execute(n, p) PROVE ReceiverInv'
    BY <1>3, ExecuteInv
<1>4. CASE \/ ClaimBoot \/ RegisterBoot \/ DeadlinePasses
           \/ \E b \in 1..MaxBoot : ProcessCrash(b)
           \/ \E r \in Attempts \X Purposes : RequestLost(r)
    BY <1>4, SurroundingsInv
<1>5. CASE UNCHANGED vars
  <2>1. LedgerInv'
      BY <1>5, LedgerKept DEF ReceiverInv, vars, ledger, message
  <2> QED  BY <1>5, <2>1, QuietStep DEF ReceiverInv, TypeOK, vars, ledger
<1> QED  BY <1>1, <1>2, <1>3, <1>4, <1>5 DEF Next

(* The inductive invariant of the signed protocol, of which the type         *)
(* invariant is a part.                                                      *)
THEOREM ReceiverInvariant == Spec => []ReceiverInv
BY InitInv, NextInv, PTL DEF Spec

(* Whatever is lost, late, repeated or replaced, what the message row, the   *)
(* admissions and the receiver's ledger report is true of the Native: a      *)
(* delivered message was invoked, and a blocked, expired or exhausted one    *)
(* was not and will not be (delivery.py _finish, receiver_delivery.py,       *)
(* receiver.py).                                                             *)
THEOREM ReportsAreAlwaysTrue == Spec => []ReportsAreTrue
<1>1. ReceiverInv => ReportsAreTrue
  <2> SUFFICES ASSUME ReceiverInv PROVE ReportsAreTrue
      OBVIOUS
  <2>0. TypeOK /\ LedgerInv /\ ReportInv
      BY DEF ReceiverInv
  <2>1. DeliveredWasInvoked
      BY <2>0 DEF LedgerInv, ReportInv, DeliveredWasInvoked
  <2>2. row \in {"blocked", "expired", "budget_exhausted"} => calls = 0
    <3>1. CASE marked /\ row \in {"blocked", "expired", "budget_exhausted"}
      <4>1. PICK p \in Executions : disp[ord][p].state = "blocked"
          BY <2>0, <3>1 DEF ReportInv, BlockedHere
      <4>2. ord \in Attempts
          BY <2>0, <3>1, BoundsAssumption DEF ReceiverInv, CallInv, TypeOK, Attempts, Terminal
      <4> QED  BY <2>0, <4>1, <4>2 DEF LedgerInv
    <3>2. CASE ~marked
        BY <2>0, <3>2, UnmarkedNotCalled
    <3> QED  BY <3>1, <3>2
  <2>3. BlockedWasNotInvoked
      BY <2>0, <2>2 DEF LedgerInv, BlockedWasNotInvoked
  <2> QED  BY <2>1, <2>3 DEF ReportsAreTrue
<1> QED  BY <1>1, ReceiverInvariant, PTL

-----------------------------------------------------------------------------
(* Only the two marking steps touch the marker, only the bridge calls.       *)
LEMMA HandoffStep ==
  ASSUME [Next]_vars
  PROVE  \/ UNCHANGED <<marked, calls>>
         \/ (Mark \/ RecoverMark) /\ marked' = TRUE /\ UNCHANGED calls
         \/ \E n \in Attempts, p \in Executions : CallNative(n, p)
<1> USE DEF message
<1>1. CASE Dispatch \/ Sender \/ Reconcile \/ Recover \/ SenderCrash \/ ObserverReads \/ ObserverRecords
  <2>1. CASE Mark
      BY <2>1 DEF Mark, Finish
  <2>2. CASE RecoverMark
      BY <2>2 DEF RecoverMark
  <2>3. CASE Dispatch \/ Reconcile \/ Recover \/ SenderCrash \/ ObserverReads \/ ObserverRecords
      BY <2>3 DEF Dispatch, DispatchInterrupted, DispatchNew, DispatchPrepared, DispatchDenied, Finish,
                  Reconcile, Recover, SenderCrash, ObserverReads, ObserverRecords
  <2>4. CASE BeginPrepare \/ BeginRefused \/ PrepareFails \/ PrepareReplied \/ Readiness
      BY <2>4 DEF BeginPrepare, BeginRefused, PrepareFails, PrepareReplied, Readiness, Retry, Finish
  <2>5. CASE IssueDispatch \/ AwaitReplied \/ AwaitFails \/ Inspect \/ Project \/ SendRecover
      BY <2>5 DEF IssueDispatch, AwaitReplied, AwaitFails, Inspect, Project, SendRecover, Finish
  <2> QED  BY <1>1, <2>1, <2>2, <2>3, <2>4, <2>5 DEF Sender
<1>2. ASSUME NEW n \in Attempts, NEW live \in BOOLEAN, Receive(n, live) PROVE UNCHANGED <<marked, calls>>
    BY <1>2 DEF Receive, HandlePrepare, HandleDispatch, HandleDuplicate, HandleAtDeadline
<1>3. ASSUME NEW n \in Attempts, NEW p \in Executions, Execute(n, p)
      PROVE  UNCHANGED <<marked, calls>> \/ CallNative(n, p)
    BY <1>3 DEF Execute, Admit, AdmitRefused, NativeFails, Complete
<1>4. CASE \/ ClaimBoot \/ RegisterBoot \/ DeadlinePasses
           \/ \E b \in 1..MaxBoot : ProcessCrash(b)
           \/ \E r \in Attempts \X Purposes : RequestLost(r)
    BY <1>4 DEF ClaimBoot, RegisterBoot, DeadlinePasses, ProcessCrash, RequestLost
<1>5. CASE UNCHANGED vars
    BY <1>5 DEF vars
<1> QED  BY <1>1, <1>2, <1>3, <1>4, <1>5 DEF Next

(* The signed protocol, with its retries, late copies, crashes and replaced  *)
(* boots, implements NativeHandoff: one marker, and after it one Native      *)
(* input at most.                                                            *)
THEOREM ProtocolImplementsHandoff == Spec => OneNativeInput
<1> DEFINE mark == [m \in {1} |-> marked]
           call == [m \in {1} |-> calls]
<1>1. Init => Handoff!Init
    BY DEF Init, Handoff!Init
<1>2. ASSUME ReceiverInv, [Next]_vars PROVE [Handoff!Next]_<<mark, call>>
  <2>0. marked \in BOOLEAN
      BY <1>2 DEF ReceiverInv, TypeOK
  <2>1. CASE UNCHANGED <<marked, calls>>
      BY <2>1
  <2>2. CASE (Mark \/ RecoverMark) /\ marked' = TRUE /\ UNCHANGED calls
    <3>1. ~marked
        BY <1>2, <2>2 DEF Mark, RecoverMark, ReceiverInv, CallInv, Before
    <3>2. Handoff!WriteMarker(1)
        BY <2>2, <3>1 DEF Handoff!WriteMarker
    <3> QED  BY <3>2 DEF Handoff!Next
  <2>3. ASSUME NEW n \in Attempts, NEW p \in Executions, CallNative(n, p) PROVE [Handoff!Next]_<<mark, call>>
    <3>1. calls = 0 /\ calls' = calls + 1 /\ marked /\ UNCHANGED marked
        BY <1>2, <2>3 DEF CallNative, ReceiverInv, LedgerInv, message
    <3>2. Handoff!CallNative(1)
        BY <3>1 DEF Handoff!CallNative
    <3> QED  BY <3>2 DEF Handoff!Next
  <2> QED  BY <1>2, <2>1, <2>2, <2>3, HandoffStep
<1> QED  BY <1>1, <1>2, ReceiverInvariant, PTL DEF Spec, OneNativeInput, Handoff!Spec

=============================================================================
