-------------------------- MODULE ReceiverLifecycle --------------------------
(***************************************************************************)
(* Accepted receiver recovery operations that start or resume the Native   *)
(* session of one endpoint: the Core records (operation, challenge,        *)
(* permit, receipt), the executors that advance them (leased maintenance   *)
(* workers and HTTP callers), and the Node that owns the Driver, its       *)
(* journal and the Native process.                                         *)
(*                                                                         *)
(* Abstracted: signatures and digests (a permit, an observation or a       *)
(* receipt is identified by its operation), clocks (a deadline is an       *)
(* action that expires it) and authorization, which is constant here.      *)
(* The permit's deadline is its challenge's (issue_permit takes the        *)
(* minimum), so one flag, live, stands for both.                           *)
(***************************************************************************)
EXTENDS Integers, FiniteSets

CONSTANTS
  Ops,          \* recovery operations for the endpoint
  Executors,    \* threads that advance operations
  Nobody,       \* no executor
  Kinds,        \* request actions submitted: "prepare", "resume", "rebind"
  MaxEpoch,     \* bound: the endpoint's binding epoch
  MaxFaults     \* bound: crashes, losses, copies and process exits

ASSUME NobodyAssumption == Nobody \notin Executors

ASSUME KindsAssumption == Kinds \subseteq {"prepare", "resume", "rebind"}

ASSUME BoundsAssumption == MaxEpoch \in Nat \ {0} /\ MaxFaults \in Nat

VARIABLES
  epoch,     \* delivery_endpoints.revision of the endpoint
  op,        \* the outbox payload of each operation
  lease,     \* the maintenance lease of each operation
  wk,        \* the frame of each executor's advance()
  net,       \* operations whose execute request is still on its way
  nd,        \* the Node's critical section under the Driver lock
  row,       \* driver_operations.state of each operation
  io,        \* the mutation events journalled for each operation
  drv,       \* the Driver's memory and the Native process
  effects,   \* Native mutations performed for each operation (history)
  spawned,   \* operations that created a Native session (history)
  raced,     \* operations a readback answered ahead of their request (history)
  faults     \* crashes, losses, copies and process exits so far (bound)

coreVars == <<epoch, op, lease>>

nodeVars == <<nd, row, io, drv, effects, spawned>>

vars == <<epoch, op, lease, wk, net, nd, row, io, drv, effects, spawned, raced, faults>>

-----------------------------------------------------------------------------
(* The records                                                             *)

\* Mutant: maintenance forgets operations whose outcome is unknown.
ActiveStatesKnown == {"queued", "preparing", "deferred", "submitting"}

ActiveStates == {"queued", "preparing", "deferred", "submitting", "unknown"}

Settled == {"completed", "definitively_rejected"}

Absent == [kind |-> "none", state |-> "none", phase |-> "none", epoch |-> 0,
           live |-> FALSE, act |-> "none", cap |-> "none", inc |-> 0]

IdleFrame == [pc |-> "idle", op |-> "none", token |-> FALSE, current |-> FALSE,
              cap |-> "none", inc |-> 0, reply |-> "none"]

\* effect_state is "native_possible" exactly from the permit to a definite
\* rejection, so the permit (act) and the state stand for it.
Possible(o) == op[o].act # "none" /\ op[o].state \notin Settled

Unresolved == \E o \in Ops : row[o] \in {"intent", "uncertain"}

PriorEffect == \E o \in Ops : io[o] # "none" \/ row[o] \notin {"none", "rejected"}

Init ==
  /\ epoch = 1
  /\ op = [o \in Ops |-> Absent]
  /\ lease = [o \in Ops |-> Nobody]
  /\ wk = [x \in Executors |-> IdleFrame]
  /\ net = {}
  /\ nd = [pc |-> "free", op |-> "none"]
  /\ row = [o \in Ops |-> "none"]
  /\ io = [o \in Ops |-> "none"]
  /\ drv = [own |-> "unbound", session |-> FALSE, profile |-> TRUE,
            proc |-> "none", inc |-> 0, stop |-> FALSE]
  /\ effects = [o \in Ops |-> 0]
  /\ spawned = {}
  /\ raced = {}
  /\ faults = 0

Fault == faults < MaxFaults /\ faults' = faults + 1

-----------------------------------------------------------------------------
(* Acceptance and scheduling                                               *)

Submit(o, k) ==
  /\ op[o].state = "none"
  /\ k = "rebind" => \A p \in Ops : ~(op[p].kind = "rebind" /\ op[p].state = "completed")
  /\ op' = [op EXCEPT ![o] = [Absent EXCEPT !.kind = k, !.state = "queued", !.epoch = epoch]]
  /\ UNCHANGED <<epoch, lease, wk, net, nodeVars, raced, faults>>

ClaimWork(x, o) ==
  /\ wk[x].pc = "idle"
  /\ op[o].state \in ActiveStates
  /\ lease[o] = Nobody
  /\ lease' = [lease EXCEPT ![o] = x]
  /\ wk' = [wk EXCEPT ![x] = [IdleFrame EXCEPT !.pc = "begin", !.op = o, !.token = TRUE]]
  /\ UNCHANGED <<epoch, op, net, nodeVars, raced, faults>>

\* An HTTP caller advances the operation without taking the lease.
CallerAdvance(x, o) ==
  /\ wk[x].pc = "idle"
  /\ op[o].state \in ActiveStates \cup Settled
  /\ wk' = [wk EXCEPT ![x] = [IdleFrame EXCEPT !.pc = "begin", !.op = o]]
  /\ UNCHANGED <<coreVars, net, nodeVars, raced, faults>>

LeaseExpires(o) ==
  /\ lease[o] # Nobody
  /\ lease' = [lease EXCEPT ![o] = Nobody]
  /\ UNCHANGED <<epoch, op, wk, net, nodeVars, raced, faults>>

Leased(x) == wk[x].token => lease[wk[x].op] = x

\* The frame at its next step: what it observed is dropped.
Turn(x, pc) == [IdleFrame EXCEPT !.pc = pc, !.op = wk[x].op, !.token = wk[x].token]

\* A worker paces its own lease when advance() ends; a caller just returns.
Done(x) == IF wk[x].token THEN Turn(x, "finish") ELSE IdleFrame

FinishWork(x) ==
  /\ wk[x].pc = "finish"
  /\ LET o == wk[x].op
     IN  lease' = IF lease[o] = x THEN [lease EXCEPT ![o] = Nobody] ELSE lease
  /\ wk' = [wk EXCEPT ![x] = IdleFrame]
  /\ UNCHANGED <<epoch, op, net, nodeVars, raced, faults>>

\* The executor's thread or process ends: its lease stays until it expires.
ExecutorDies(x) ==
  /\ Fault
  /\ wk[x].pc # "idle"
  /\ wk' = [wk EXCEPT ![x] = IdleFrame]
  /\ UNCHANGED <<coreVars, net, nodeVars, raced>>

ChallengeExpires(o) ==
  /\ op[o].live
  /\ op' = [op EXCEPT ![o].live = FALSE]
  /\ UNCHANGED <<epoch, lease, wk, net, nodeVars, raced, faults>>

EndpointRevised ==
  /\ epoch < MaxEpoch
  /\ epoch' = epoch + 1
  /\ UNCHANGED <<op, lease, wk, net, nodeVars, raced, faults>>

-----------------------------------------------------------------------------
(* The executor: advance() up to the committed permit                      *)

\* Evidence the Node may report of its capacity. An existing session answers
\* the Native read as ready, busy, or not at all.
Capacities ==
  CASE ~drv.profile -> {"unknown"}
    [] drv.profile /\ (drv.own = "restore" \/ (drv.own = "owned" /\ drv.proc = "exited")) ->
         {IF drv.session /\ ~Unresolved THEN "stopped" ELSE "unknown"}
    [] drv.profile /\ drv.own = "unbound" ->
         {IF Unresolved \/ PriorEffect THEN "unknown" ELSE "fresh"}
    [] OTHER ->
         IF ~drv.session THEN {"unknown"}
         ELSE IF Unresolved THEN {"unresolved", "unknown"}
         ELSE {"ready", "busy", "unknown"}

Derive(kind, cap) ==
  CASE cap = "stopped" /\ kind # "rebind"  -> "resume"
    [] cap = "fresh" /\ kind = "prepare"   -> "spawn"
    [] cap = "ready" /\ kind = "prepare"   -> "already_ready"
    [] cap = "ready" /\ kind = "resume"    -> "resume"
    [] cap = "ready" /\ kind = "rebind"    -> "rebind_ready"
    [] OTHER                               -> "deferred"

\* _failure: a settled operation keeps its result; one that may have had its
\* effect becomes unknown whatever the failing executor knew.
Failure(o, possible) ==
  IF op[o].state \in Settled THEN op
  ELSE [op EXCEPT ![o].state = IF possible \/ Possible(o) THEN "unknown" ELSE "deferred"]

Current(o) ==
  /\ op[o].state = "submitting"
  /\ op[o].live
  /\ op[o].epoch = epoch

\* issue_challenge reuses a live challenge; a new one strands the frames that
\* hold the old one.
IssueChallenge(x, o) ==
  IF op[o].live
  THEN /\ op' = IF op[o].phase = "observing" THEN op
                ELSE [op EXCEPT ![o].phase = "observing", ![o].state = "preparing"]
       /\ wk' = [wk EXCEPT ![x].pc = "observe", ![x].current = TRUE]
  ELSE /\ op' = [op EXCEPT ![o].phase = "observing", ![o].state = "preparing", ![o].live = TRUE]
       /\ wk' = [y \in Executors |->
                   IF y = x THEN [wk[x] EXCEPT !.pc = "observe", !.current = TRUE]
                   ELSE IF wk[y].op = o THEN [wk[y] EXCEPT !.current = FALSE]
                   ELSE wk[y]]

Begin(x) ==
  /\ wk[x].pc = "begin"
  /\ LET o == wk[x].op
     IN  \/ /\ ~Leased(x) \/ op[o].state \in Settled \/ (~Possible(o) /\ op[o].epoch # epoch)
            /\ wk' = [wk EXCEPT ![x] = Done(x)]
            /\ UNCHANGED op
         \/ /\ Leased(x) /\ Possible(o)
            /\ wk' = [wk EXCEPT ![x] = Turn(x, "readback")]
            /\ UNCHANGED op
         \/ /\ Leased(x) /\ op[o].state \notin Settled /\ ~Possible(o) /\ op[o].epoch = epoch
            /\ IssueChallenge(x, o)
  /\ UNCHANGED <<epoch, lease, net, nodeVars, raced, faults>>

Challengeable(x) ==
  LET o == wk[x].op IN wk[x].current /\ op[o].live /\ op[o].epoch = epoch

Observe(x) ==
  /\ wk[x].pc = "observe"
  /\ nd.pc = "free"
  /\ Challengeable(x)
  /\ \E c \in Capacities :
       wk' = [wk EXCEPT ![x].pc = "record", ![x].cap = c, ![x].inc = drv.inc]
  /\ UNCHANGED <<coreVars, net, nodeVars, raced, faults>>

\* The exchange fails, or the Node refuses a challenge out of its window.
ObserveFails(x) ==
  /\ IF Challengeable(x) THEN Fault ELSE UNCHANGED faults
  /\ wk[x].pc = "observe"
  /\ op' = Failure(wk[x].op, FALSE)
  /\ wk' = [wk EXCEPT ![x] = Done(x)]
  /\ UNCHANGED <<epoch, lease, net, nodeVars, raced>>

\* The second transaction: record_observation and, for a plan, issue_permit;
\* for a ready rebind target, publish_rebind.
Record(x) ==
  /\ wk[x].pc = "record"
  /\ LET o == wk[x].op
         action == Derive(op[o].kind, wk[x].cap)
     IN  /\ Leased(x) /\ op[o].state \notin Settled /\ ~Possible(o)
         /\ Challengeable(x)
         /\ \/ /\ action \in {"spawn", "resume"}
               /\ op' = [op EXCEPT ![o].state = "submitting", ![o].phase = "executing",
                                   ![o].act = action, ![o].cap = wk[x].cap, ![o].inc = wk[x].inc]
               /\ wk' = [wk EXCEPT ![x] = Turn(x, "execute")]
               /\ UNCHANGED epoch
            \/ /\ action \in {"already_ready", "rebind_ready"}
               /\ op' = [op EXCEPT ![o].state = "completed", ![o].phase = "settled"]
               /\ action = "rebind_ready" => epoch < MaxEpoch
               /\ epoch' = IF action = "rebind_ready" THEN epoch + 1 ELSE epoch
               /\ wk' = [wk EXCEPT ![x] = Done(x)]
            \/ /\ action = "deferred"
               /\ op' = [op EXCEPT ![o].state = "deferred", ![o].phase = "deferred"]
               /\ wk' = [wk EXCEPT ![x] = Done(x)]
               /\ UNCHANGED epoch
  /\ UNCHANGED <<lease, net, nodeVars, raced, faults>>

\* The transaction ends without a plan: the lease moved on or another executor
\* got there first (nothing is written), the observation is out of its window or
\* answers another challenge (_failure), or the binding moved on: RevisionConflict
\* passes the handler, while a changed selection is caught (_failure).
RecordRefused(x) ==
  /\ wk[x].pc = "record"
  /\ LET o == wk[x].op
         behind == ~Leased(x) \/ op[o].state \in Settled \/ Possible(o)
     IN  \/ (behind \/ op[o].epoch # epoch) /\ UNCHANGED op
         \/ ~behind /\ op' = Failure(o, FALSE)
  /\ wk' = [wk EXCEPT ![x] = Done(x)]
  /\ UNCHANGED <<epoch, lease, net, nodeVars, raced, faults>>

SendExecute(x) ==
  /\ wk[x].pc = "execute"
  /\ net' = net \cup {wk[x].op}
  /\ wk' = [wk EXCEPT ![x].pc = "await"]
  /\ UNCHANGED <<coreVars, nodeVars, raced, faults>>

-----------------------------------------------------------------------------
(* The Node: execute() and reconcile() under the Driver lock               *)

\* Mutant: any row without an acknowledgement is taken for no effect.
ReadRowAcknowledged(o) == IF row[o] = "acknowledged" THEN "acknowledged" ELSE "not_started"

\* What the Node's receipt says of the original journal row.
ReadRow(o) ==
  CASE row[o] = "acknowledged"                          -> "acknowledged"
    [] row[o] = "rejected" /\ io[o] # "dispatched"      -> "not_started"
    [] row[o] = "none"                                  -> "not_started"
    [] OTHER                                            -> "unknown"

\* The executor still waiting for this request gets the receipt.
Reply(o, outcome) ==
  wk' = [x \in Executors |->
           IF wk[x].pc = "await" /\ wk[x].op = o
           THEN [wk[x] EXCEPT !.pc = "receipt", !.reply = outcome] ELSE wk[x]]

Release == nd' = [pc |-> "free", op |-> "none"]

RestoresProcess(o) == op[o].act = "spawn" \/ op[o].cap = "stopped"

\* Without its launch baseline, or with a session where the plan saw none, the
\* Node cannot tell a lost row from an absent one.
HistoryUnreliable(o) ==
  \/ ~drv.profile
  \/ op[o].act = "spawn" /\ (drv.own # "unbound" \/ drv.session)

\* The request is consumed, or the transport holds another copy of it.
Deliver(o) ==
  \/ net' = net \ {o} /\ UNCHANGED faults
  \/ net' = net /\ Fault

\* What execute() answers without entering the Driver: from the journal, or
\* from the current checks (a Native read may differ from the planned one).
Refusals(o) ==
  IF row[o] # "none" THEN {ReadRow(o)}
  ELSE IF HistoryUnreliable(o) THEN {"unknown"}
  ELSE IF op[o].epoch # epoch THEN {"error"}
  ELSE IF Current(o) /\ op[o].inc = drv.inc /\ Capacities = {op[o].cap} THEN {}
  ELSE {"not_started"}

NodeRefuse(o) ==
  /\ o \in net
  /\ nd.pc = "free"
  /\ Deliver(o)
  /\ \E r \in Refusals(o) :
       /\ Reply(o, r)
       /\ raced' = IF r = "not_started" /\ o \in net' THEN raced \cup {o} ELSE raced
  /\ UNCHANGED <<coreVars, nodeVars>>

NodeExecute(o) ==
  /\ o \in net
  /\ nd.pc = "free"
  /\ row[o] = "none"
  /\ ~HistoryUnreliable(o)
  /\ Current(o)
  /\ op[o].inc = drv.inc
  /\ op[o].cap \in Capacities
  /\ Deliver(o)
  /\ nd' = [pc |-> "begun", op |-> o]
  /\ row' = [row EXCEPT ![o] = "intent"]
  /\ UNCHANGED <<coreVars, wk, io, drv, effects, spawned, raced>>

\* Each step up to the launch repeats the current Core check before its event.
NodeIntend(o) ==
  /\ nd = [pc |-> "begun", op |-> o]
  /\ Current(o)
  /\ nd' = [nd EXCEPT !.pc = "intended"]
  /\ io' = [io EXCEPT ![o] = "intended"]
  /\ UNCHANGED <<coreVars, wk, net, row, drv, effects, spawned, raced, faults>>

NodeDispatch(o) ==
  /\ nd = [pc |-> "intended", op |-> o]
  /\ Current(o)
  /\ nd' = [nd EXCEPT !.pc = "dispatched"]
  /\ io' = [io EXCEPT ![o] = "dispatched"]
  /\ UNCHANGED <<coreVars, wk, net, row, drv, effects, spawned, raced, faults>>

NodeAuthorizeLaunch(o) ==
  /\ nd = [pc |-> "dispatched", op |-> o]
  /\ RestoresProcess(o)
  /\ Current(o)
  /\ nd' = [nd EXCEPT !.pc = "authorized"]
  /\ UNCHANGED <<coreVars, wk, net, row, io, drv, effects, spawned, raced, faults>>

NodeLaunch(o) ==
  /\ nd = [pc |-> "authorized", op |-> o]
  /\ nd' = [nd EXCEPT !.pc = "launched"]
  /\ drv' = [drv EXCEPT !.own = "owned", !.proc = "live", !.inc = @ + 1, !.stop = FALSE]
  /\ effects' = [effects EXCEPT ![o] = @ + 1]
  /\ UNCHANGED <<coreVars, wk, net, row, io, spawned, raced, faults>>

\* Mutant: a restored process starts a new thread instead of resuming its own.
NodeStartThreadAnew(o) ==
  /\ nd = [pc |-> "launched", op |-> o]
  /\ drv.proc = "live"
  /\ Current(o)
  /\ nd' = [nd EXCEPT !.pc = "threading"]
  /\ spawned' = spawned \cup {o}
  /\ UNCHANGED <<coreVars, wk, net, row, io, drv, effects, raced, faults>>

\* thread/start or thread/resume on the new process, after one more check.
NodeStartThread(o) ==
  /\ nd = [pc |-> "launched", op |-> o]
  /\ drv.proc = "live"
  /\ Current(o)
  /\ nd' = [nd EXCEPT !.pc = "threading"]
  /\ spawned' = IF op[o].act = "spawn" THEN spawned \cup {o} ELSE spawned
  /\ UNCHANGED <<coreVars, wk, net, row, io, drv, effects, raced, faults>>

\* thread/resume on the process the Driver already owns.
NodeResumeThread(o) ==
  /\ nd = [pc |-> "dispatched", op |-> o]
  /\ ~RestoresProcess(o)
  /\ drv.proc = "live"
  /\ nd' = [nd EXCEPT !.pc = "threading"]
  /\ effects' = [effects EXCEPT ![o] = @ + 1]
  /\ UNCHANGED <<coreVars, wk, net, row, io, drv, spawned, raced, faults>>

\* The result: the new thread, or an initial context that was never used and
\* needs no Native mutation to be resumed.
NodeAcknowledge(o) ==
  /\ nd.op = o
  /\ nd.pc = "threading" \/ (nd.pc = "begun" /\ ~RestoresProcess(o))
  /\ row' = [row EXCEPT ![o] = "acknowledged"]
  /\ drv' = [drv EXCEPT !.session = TRUE]
  /\ Reply(o, "acknowledged")
  /\ Release
  /\ UNCHANGED <<coreVars, net, io, effects, spawned, raced, faults>>

\* Mutant: a thread/resume that failed is sent again.
NodeFailsResends(o) ==
  /\ nd = [pc |-> "threading", op |-> o]
  /\ ~RestoresProcess(o)
  /\ nd' = [nd EXCEPT !.pc = "dispatched"]
  /\ UNCHANGED <<coreVars, wk, net, row, io, drv, effects, spawned, raced, faults>>

\* Any failure inside the Driver. A DriverRejected before the dispatch event
\* closes the row as rejected; everything else leaves it uncertain.
NodeFails(o) ==
  /\ nd.op = o
  /\ nd.pc # "free"
  /\ \E result \in {"rejected", "uncertain"} :
       /\ result = "rejected" => io[o] # "dispatched"
       /\ row' = [row EXCEPT ![o] = result]
  /\ Reply(o, "unknown")
  /\ Release
  /\ UNCHANGED <<coreVars, net, io, drv, effects, spawned, raced, faults>>

\* The permit is committed and its request is unsent or on its way.
Outstanding(o) == o \in net \/ \E x \in Executors : wk[x].pc = "execute" /\ wk[x].op = o

NodeReconcile(x) ==
  /\ wk[x].pc = "readback"
  /\ nd.pc = "free"
  /\ wk' = [wk EXCEPT ![x].pc = "receipt", ![x].reply = ReadRow(wk[x].op)]
  /\ raced' = IF ReadRow(wk[x].op) = "not_started" /\ Outstanding(wk[x].op)
              THEN raced \cup {wk[x].op} ELSE raced
  /\ UNCHANGED <<coreVars, net, nodeVars, faults>>

-----------------------------------------------------------------------------
(* The result of an execute or readback exchange                           *)

\* _receipt: only a definite outcome settles the operation, and only while
\* its permit is the open one; otherwise _failure.
RecordReceipt(x) ==
  /\ wk[x].pc = "receipt"
  /\ LET o == wk[x].op
     IN  op' = IF op[o].phase # "executing" \/ wk[x].reply = "error" THEN Failure(o, TRUE)
               ELSE CASE wk[x].reply = "acknowledged" ->
                           [op EXCEPT ![o].state = "completed", ![o].phase = "settled"]
                      [] wk[x].reply = "not_started" ->
                           [op EXCEPT ![o].state = "definitively_rejected", ![o].phase = "settled"]
                      [] OTHER -> [op EXCEPT ![o].state = "unknown"]
  /\ wk' = [wk EXCEPT ![x] = Done(x)]
  /\ UNCHANGED <<epoch, lease, net, nodeVars, raced, faults>>

\* The exchange fails or times out, or the receipt is out of its window. It
\* always times out when nobody will answer.
ExchangeFails(x) ==
  /\ IF wk[x].pc = "await" /\ wk[x].op \notin net /\ nd.op # wk[x].op
     THEN UNCHANGED faults ELSE Fault
  /\ wk[x].pc \in {"await", "readback", "receipt"}
  /\ op' = Failure(wk[x].op, TRUE)
  /\ wk' = [wk EXCEPT ![x] = Done(x)]
  /\ UNCHANGED <<epoch, lease, net, nodeVars, raced>>

RequestLost(o) ==
  /\ Fault
  /\ o \in net
  /\ net' = net \ {o}
  /\ UNCHANGED <<coreVars, wk, nodeVars, raced>>

-----------------------------------------------------------------------------
(* The Native process and the Node process                                 *)

ProcessExits ==
  /\ Fault
  /\ drv.proc = "live"
  /\ drv' = [drv EXCEPT !.proc = "exited"]
  /\ UNCHANGED <<coreVars, wk, net, nd, row, io, effects, spawned, raced>>

\* terminate(): the stop of the owned process is proved and journalled.
Terminate ==
  /\ Fault
  /\ nd.pc = "free"
  /\ drv.own = "owned"
  /\ drv' = [drv EXCEPT !.proc = "exited", !.stop = TRUE]
  /\ drv # drv'
  /\ UNCHANGED <<coreVars, wk, net, nd, row, io, effects, spawned, raced>>

\* The journal and the process outlive the Node; its memory does not.
NodeCrash ==
  /\ Fault
  /\ Release
  /\ drv' = [drv EXCEPT !.own = "unbound", !.session = FALSE, !.profile = FALSE]
  /\ UNCHANGED <<coreVars, wk, net, row, io, effects, spawned, raced>>

\* The restarted Node recaptures its baseline before any effect, or recovers
\* the context of an acknowledged session whose process it knows stopped.
NodeRecover ==
  /\ ~drv.profile
  /\ ~Unresolved
  /\ \/ /\ ~PriorEffect
        /\ drv' = [drv EXCEPT !.profile = TRUE]
     \/ /\ drv.stop
        /\ \E o \in Ops : row[o] = "acknowledged"
        /\ drv' = [drv EXCEPT !.profile = TRUE, !.own = "restore", !.session = TRUE]
  /\ UNCHANGED <<coreVars, wk, net, nd, row, io, effects, spawned, raced, faults>>

NodeStep(o) ==
  \/ NodeIntend(o) \/ NodeDispatch(o) \/ NodeAuthorizeLaunch(o) \/ NodeLaunch(o)
  \/ NodeStartThread(o) \/ NodeResumeThread(o) \/ NodeAcknowledge(o) \/ NodeFails(o)

Next ==
  \/ \E o \in Ops :
       \/ \E k \in Kinds : Submit(o, k)
       \/ \E x \in Executors : ClaimWork(x, o) \/ CallerAdvance(x, o)
       \/ LeaseExpires(o) \/ ChallengeExpires(o)
       \/ NodeRefuse(o) \/ NodeExecute(o) \/ NodeStep(o) \/ RequestLost(o)
  \/ \E x \in Executors :
       \/ FinishWork(x) \/ ExecutorDies(x) \/ Begin(x) \/ Observe(x) \/ ObserveFails(x)
       \/ Record(x) \/ RecordRefused(x) \/ SendExecute(x) \/ NodeReconcile(x)
       \/ RecordReceipt(x) \/ ExchangeFails(x)
  \/ EndpointRevised \/ ProcessExits \/ Terminate \/ NodeCrash \/ NodeRecover

Spec == Init /\ [][Next]_vars

-----------------------------------------------------------------------------
(* Properties                                                              *)

OpRecord == [kind : Kinds \cup {"none"},
             state : ActiveStates \cup Settled \cup {"none"},
             phase : {"none", "observing", "deferred", "executing", "settled"},
             epoch : 0..MaxEpoch, live : BOOLEAN,
             act : {"none", "spawn", "resume"},
             cap : {"none", "fresh", "stopped", "ready"}, inc : Nat]

Frame == [pc : {"idle", "begin", "observe", "record", "execute", "await", "readback",
                "receipt", "finish"},
          op : Ops \cup {"none"}, token : BOOLEAN, current : BOOLEAN,
          cap : {"none", "unknown", "fresh", "stopped", "ready", "busy", "unresolved"},
          inc : Nat, reply : {"none", "acknowledged", "not_started", "unknown", "error"}]

DriverState == [own : {"unbound", "owned", "restore"}, session : BOOLEAN, profile : BOOLEAN,
                proc : {"none", "live", "exited"}, inc : Nat, stop : BOOLEAN]

\* The records, frames, journal rows and Driver state stay of their shape.
TypeOK ==
  /\ epoch \in 1..MaxEpoch
  /\ op \in [Ops -> OpRecord]
  /\ lease \in [Ops -> Executors \cup {Nobody}]
  /\ wk \in [Executors -> Frame]
  /\ net \subseteq Ops
  /\ nd \in [pc : {"free", "begun", "intended", "dispatched", "authorized", "launched",
                   "threading"}, op : Ops \cup {"none"}]
  /\ row \in [Ops -> {"none", "intent", "rejected", "uncertain", "acknowledged"}]
  /\ io \in [Ops -> {"none", "intended", "dispatched"}]
  /\ drv \in DriverState
  /\ effects \in [Ops -> Nat]
  /\ spawned \subseteq Ops
  /\ raced \subseteq Ops
  /\ faults \in 0..MaxFaults

\* However often its request is delivered, its executors die or the Node
\* restarts, an operation performs at most one Native mutation.
OneEffect == \A o \in Ops : effects[o] <= 1

\* Concurrent preparations of an endpoint create at most one Native session, and
\* no process is launched, anew or to restore that session, beside one that is
\* still alive, however the Node that started it ended.
OneSession ==
  /\ Cardinality(spawned) <= 1
  /\ nd.pc = "authorized" => drv.proc # "live"

\* An operation that was permitted a Native mutation is reported completed
\* only when the journal holds its acknowledgement.
CompletedHasEvidence ==
  \A o \in Ops : op[o].state = "completed" /\ op[o].act # "none" => row[o] = "acknowledged"

\* "definitively_rejected" is true of the Native, except when a readback
\* overtook the execute request of the same permit.
RejectionHoldsUnlessRaced ==
  \A o \in Ops : op[o].state = "definitively_rejected" /\ effects[o] > 0 => o \in raced

\* What a receipt settles an operation as is true of the Native: "completed"
\* always, "definitively_rejected" unless a readback, or the answer to one copy of
\* the request, was given while the request was still on its way.  That race is
\* the code's own (_receipt records whatever the Node answered) and is left out.
ReportsAreTrue == CompletedHasEvidence /\ RejectionHoldsUnlessRaced

-----------------------------------------------------------------------------
(* Liveness                                                                *)

\* Executors and the Node keep running, leases run out, maintenance claims
\* what is due, and exchanges do not fail for ever.
Fairness ==
  /\ \A o \in Ops : /\ WF_vars(NodeExecute(o) \/ NodeRefuse(o)) /\ WF_vars(NodeStep(o))
                    /\ WF_vars(LeaseExpires(o))
                    /\ SF_vars(\E x \in Executors : ClaimWork(x, o))
  /\ \A x \in Executors :
       /\ WF_vars(FinishWork(x)) /\ WF_vars(SendExecute(x))
       /\ WF_vars(Begin(x)) /\ SF_vars(Begin(x) /\ Leased(x))
       /\ WF_vars(Observe(x) \/ ObserveFails(x)) /\ WF_vars(Record(x) \/ RecordRefused(x))
       /\ WF_vars(ExchangeFails(x))
       /\ SF_vars(NodeReconcile(x)) /\ SF_vars(RecordReceipt(x))

FairSpec == Spec /\ Fairness

\* A permitted operation does not stay in submission, and one the Node
\* acknowledged is settled, even when the executor that asked for it is gone.
AcknowledgedIsSettled ==
  \A o \in Ops :
    /\ op[o].state = "submitting" ~> op[o].state # "submitting"
    /\ row[o] = "acknowledged" ~> op[o].state \in Settled

=============================================================================
