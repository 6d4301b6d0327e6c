--------------------- MODULE ReceiverLifecycle_proofs ---------------------
(* Proofs about ReceiverLifecycle for any number of operations, executors,   *)
(* epochs and faults.  NodeInv follows one operation through the Driver: the *)
(* journal is ahead of the Native at every step.  OpOK and FrameOK say what  *)
(* an operation's record and an executor's frame may claim of the journal.   *)
(* Dead(o) is what makes "not_started" true: the permit is used up, the      *)
(* Native was not touched, and no request is left that could still touch it. *)
EXTENDS ReceiverLifecycle, FiniteSetTheorems, TLAPS

InDriver == {"dispatched", "authorized", "launched", "threading"}

NodeInv ==
  /\ nd.pc # "free" => nd.op \in Ops /\ row[nd.op] = "intent" /\ op[nd.op].act # "none"
  /\ nd.pc \in InDriver => io[nd.op] = "dispatched"
  /\ nd.pc \in {"begun", "intended"} => io[nd.op] # "dispatched"
  /\ nd.pc \in {"dispatched", "authorized"} => effects[nd.op] = 0
  /\ nd.pc # "free" /\ op[nd.op].act = "spawn" => spawned \subseteq {nd.op}
  /\ \A o \in Ops : /\ row[o] = "none" => io[o] = "none"
                    /\ io[o] # "dispatched" => effects[o] = 0
                    /\ effects[o] \in {0, 1}
                    /\ o \in spawned => io[o] = "dispatched"
  /\ \A o, p \in spawned : o = p

Dead(o) ==
  /\ op[o].act # "none" /\ effects[o] = 0
  /\ row[o] = "rejected" \/ (row[o] = "none" /\ ~Outstanding(o))

Closed(o) == o \in raced \/ Dead(o)

OpOK(o) ==
  /\ op[o].state = "none" => op[o].act = "none"
  /\ op[o].act = "spawn" => op[o].cap = "fresh"
  /\ op[o].act = "none" => o \notin net /\ row[o] = "none"
  /\ op[o].state = "completed" /\ op[o].act # "none" => row[o] = "acknowledged"
  /\ op[o].state = "definitively_rejected" => Closed(o)

Permitted == {"execute", "await", "readback", "receipt"}

FrameOK(x) ==
  /\ wk[x].pc # "idle" => wk[x].op \in Ops
  /\ wk[x].pc \in Permitted => op[wk[x].op].act # "none"
  /\ wk[x].pc = "execute" => /\ wk[x].op \notin net /\ row[wk[x].op] = "none"
                             /\ \A y \in Executors : wk[y].pc = "execute" /\ wk[y].op = wk[x].op => y = x
  /\ wk[x].pc = "receipt" /\ wk[x].reply = "acknowledged" => row[wk[x].op] = "acknowledged"
  /\ wk[x].pc = "receipt" /\ wk[x].reply = "not_started" => Closed(wk[x].op)

LifecycleInv ==
  TypeOK /\ NodeInv /\ (\A o \in Ops : OpOK(o)) /\ (\A x \in Executors : FrameOK(x))

-----------------------------------------------------------------------------
LEMMA InitInv == Init => LifecycleInv
<1> SUFFICES ASSUME Init PROVE LifecycleInv
    OBVIOUS
<1> USE NobodyAssumption, BoundsAssumption DEF Init
<1>1. TypeOK
  <2>1. Absent \in OpRecord
      BY DEF Absent, OpRecord, ActiveStates, Settled
  <2>2. IdleFrame \in Frame
      BY DEF IdleFrame, Frame
  <2>3. drv \in DriverState
      BY DEF DriverState
  <2>4. nd \in [pc : {"free", "begun", "intended", "dispatched", "authorized", "launched", "threading"},
                op : Ops \cup {"none"}]
      OBVIOUS
  <2> QED  BY <2>1, <2>2, <2>3, <2>4 DEF TypeOK
<1>2. NodeInv
    BY DEF NodeInv, InDriver
<1>3. \A o \in Ops : OpOK(o)
    BY DEF OpOK, Absent
<1>4. \A x \in Executors : FrameOK(x)
    BY DEF FrameOK, IdleFrame, Permitted
<1> QED  BY <1>1, <1>2, <1>3, <1>4 DEF LifecycleInv

-----------------------------------------------------------------------------
(* Steps of the Core                                                         *)

Node == <<net, nd, row, io, drv, effects, spawned, raced>>

(* Frames that no longer, or not yet, exchange with the Node.                *)
Local == {"idle", "begin", "observe", "record", "finish"}

Same(x) == wk'[x].pc = wk[x].pc /\ wk'[x].op = wk[x].op /\ wk'[x].reply = wk[x].reply

(* What a step of the Core other than the permit does to a record.           *)
OpStep(o) ==
  /\ op'[o].act = op[o].act /\ (op[o].act = "spawn" => op'[o].cap = op[o].cap)
  /\ op'[o].state = "none" => op[o].state = "none"
  /\ op'[o].state = "completed" /\ op[o].act # "none" => row[o] = "acknowledged"
  /\ op'[o].state = "definitively_rejected" => Closed(o)

FrameStep(x) ==
  \/ Same(x)
  \/ wk'[x].pc \in Local /\ (wk'[x].pc # "idle" => wk'[x].op \in Ops)
  \/ wk'[x].pc = "readback" /\ wk'[x].op \in Ops /\ op[wk'[x].op].act # "none"

LEMMA CoreStep ==
  ASSUME LifecycleInv, UNCHANGED Node, TypeOK', \A o \in Ops : OpStep(o), \A x \in Executors : FrameStep(x)
  PROVE  LifecycleInv'
<1> USE DEF LifecycleInv, Node
<1>1. \A x \in Executors : wk'[x].pc = "execute" => Same(x)
    BY DEF FrameStep, Local
<1>2. ASSUME NEW o \in Ops, Closed(o) PROVE Closed(o)'
    BY <1>1, <1>2 DEF Closed, Dead, Outstanding, OpStep, Same
<1>3. NodeInv'
  <2>1. nd.pc # "free" => op'[nd.op].act = op[nd.op].act
      BY DEF NodeInv, OpStep
  <2> QED  BY <2>1 DEF NodeInv
<1>4. ASSUME NEW o \in Ops PROVE OpOK(o)'
    BY <1>2 DEF OpStep, OpOK
<1>5. ASSUME NEW x \in Executors PROVE FrameOK(x)'
  <2>1. CASE Same(x)
    <3>1. wk'[x].pc = "execute" => \A y \in Executors : wk'[y].pc = "execute" /\ wk'[y].op = wk'[x].op => y = x
        BY <1>1, <2>1 DEF Same, FrameOK
    <3>2. wk[x].pc # "idle" => wk[x].op \in Ops /\ op'[wk[x].op].act = op[wk[x].op].act
        BY DEF FrameOK, OpStep
    <3> QED  BY <1>2, <2>1, <3>1, <3>2 DEF FrameOK, Same, Permitted
  <2>2. CASE wk'[x].pc \in Local /\ (wk'[x].pc # "idle" => wk'[x].op \in Ops)
      BY <2>2 DEF FrameOK, Local, Permitted
  <2>3. CASE wk'[x].pc = "readback" /\ wk'[x].op \in Ops /\ op[wk'[x].op].act # "none"
      BY <2>3 DEF FrameOK, OpStep
  <2> QED  BY <2>1, <2>2, <2>3 DEF FrameStep
<1> QED  BY <1>3, <1>4, <1>5

(* The types of one record, and of one frame.                                *)
LEMMA CoreTypes ==
  ASSUME TypeOK, UNCHANGED Node, epoch' \in 1..MaxEpoch, op' \in [Ops -> OpRecord],
         lease' \in [Ops -> Executors \cup {Nobody}], wk' \in [Executors -> Frame], faults' \in 0..MaxFaults
  PROVE  TypeOK'
BY DEF TypeOK, Node

LEMMA OpUnchanged ==
  ASSUME LifecycleInv, NEW o \in Ops, op'[o] = op[o]
  PROVE  OpStep(o)
BY DEF LifecycleInv, OpOK, OpStep

LEMMA FaultTypes ==
  ASSUME TypeOK, Fault
  PROVE  faults' \in 0..MaxFaults
BY BoundsAssumption DEF TypeOK, Fault

(* Where a frame goes.                                                       *)
LEMMA TurnTypes ==
  ASSUME LifecycleInv, NEW x \in Executors, wk[x].pc # "idle",
         NEW pc \in {"begin", "observe", "record", "execute", "await", "readback", "finish"}
  PROVE  /\ Turn(x, pc) \in Frame /\ Turn(x, pc).pc = pc /\ Turn(x, pc).op = wk[x].op /\ wk[x].op \in Ops
         /\ Done(x) \in Frame /\ Done(x).pc \in {"idle", "finish"}
         /\ Done(x).pc = "finish" => Done(x).op = wk[x].op
<1>1. wk[x] \in Frame /\ wk[x].op \in Ops /\ wk[x].token \in BOOLEAN
    BY DEF LifecycleInv, TypeOK, FrameOK, Frame
<1>2. IdleFrame \in Frame /\ IdleFrame.pc = "idle"
    BY DEF IdleFrame, Frame
<1>3. ASSUME NEW s \in {"begin", "observe", "record", "execute", "await", "readback", "finish"}
      PROVE  Turn(x, s) \in Frame /\ Turn(x, s).pc = s /\ Turn(x, s).op = wk[x].op
    BY <1>1, <1>2 DEF Turn, Frame
<1> QED  BY <1>1, <1>2, <1>3 DEF Done

LEMMA OneFrame ==
  ASSUME LifecycleInv, NEW x \in Executors, NEW f \in Frame, wk' = [wk EXCEPT ![x] = f],
         \/ f.pc \in Local /\ (f.pc # "idle" => f.op \in Ops)
         \/ f.pc = "readback" /\ f.op \in Ops /\ op[f.op].act # "none"
  PROVE  wk' \in [Executors -> Frame] /\ \A y \in Executors : FrameStep(y)
<1>1. wk \in [Executors -> Frame]
    BY DEF LifecycleInv, TypeOK
<1>2. wk' \in [Executors -> Frame] /\ wk'[x] = f /\ \A y \in Executors \ {x} : wk'[y] = wk[y]
    BY <1>1
<1> QED  BY <1>2 DEF FrameStep, Same

LEMMA FramesStay ==
  ASSUME LifecycleInv, UNCHANGED wk
  PROVE  wk' \in [Executors -> Frame] /\ \A y \in Executors : FrameStep(y)
BY DEF LifecycleInv, TypeOK, FrameStep, Same

LEMMA OneOp ==
  ASSUME LifecycleInv, NEW o \in Ops, NEW w \in OpRecord, op' = [op EXCEPT ![o] = w],
         w.act = op[o].act, w.act = "spawn" => w.cap = op[o].cap, w.state # "none",
         w.state = "completed" /\ w.act # "none" => row[o] = "acknowledged",
         w.state = "definitively_rejected" => Closed(o)
  PROVE  op' \in [Ops -> OpRecord] /\ \A p \in Ops : OpStep(p)
<1>1. op \in [Ops -> OpRecord]
    BY DEF LifecycleInv, TypeOK
<1>2. op' \in [Ops -> OpRecord] /\ op'[o] = w /\ \A p \in Ops \ {o} : op'[p] = op[p]
    BY <1>1
<1>3. OpStep(o)
    BY <1>2 DEF OpStep
<1>4. ASSUME NEW p \in Ops, p # o PROVE OpStep(p)
    BY <1>2, <1>4, OpUnchanged
<1> QED  BY <1>2, <1>3, <1>4

LEMMA OpsStay ==
  ASSUME LifecycleInv, UNCHANGED op
  PROVE  op' \in [Ops -> OpRecord] /\ \A p \in Ops : OpStep(p)
<1>1. op' \in [Ops -> OpRecord]
    BY DEF LifecycleInv, TypeOK
<1> QED  BY <1>1, OpUnchanged

(* The state of a record changes, to one that reports nothing.               *)
LEMMA StateMoves ==
  ASSUME LifecycleInv, NEW o \in Ops, NEW s \in {"queued", "preparing", "deferred", "submitting", "unknown"},
         op' = [op EXCEPT ![o].state = s]
  PROVE  op' \in [Ops -> OpRecord] /\ \A p \in Ops : OpStep(p)
<1>1. op \in [Ops -> OpRecord] /\ op[o] \in OpRecord
    BY DEF LifecycleInv, TypeOK
<1> DEFINE w == [op[o] EXCEPT !.state = s]
<1>2. w \in OpRecord /\ w.act = op[o].act /\ w.cap = op[o].cap /\ w.state = s
    BY <1>1 DEF OpRecord, ActiveStates
<1>3. op' = [op EXCEPT ![o] = w]
    BY <1>1
<1> HIDE DEF w
<1> QED  BY <1>2, <1>3, OneOp

LEMMA FailureStep ==
  ASSUME LifecycleInv, NEW o \in Ops, NEW possible \in BOOLEAN, op' = Failure(o, possible)
  PROVE  op' \in [Ops -> OpRecord] /\ \A p \in Ops : OpStep(p)
<1>1. CASE op[o].state \in Settled
    BY <1>1, OpsStay DEF Failure
<1>2. CASE op[o].state \notin Settled
  <2>1. PICK s \in {"unknown", "deferred"} : s = IF possible \/ Possible(o) THEN "unknown" ELSE "deferred"
      OBVIOUS
  <2>2. op' = [op EXCEPT ![o].state = s]
      BY <1>2, <2>1 DEF Failure
  <2> QED  BY <2>2, StateMoves
<1> QED  BY <1>1, <1>2

LEMMA SubmitInv ==
  ASSUME LifecycleInv, NEW o \in Ops, NEW k \in Kinds, Submit(o, k)
  PROVE  LifecycleInv'
<1> DEFINE w == [Absent EXCEPT !.kind = k, !.state = "queued", !.epoch = epoch]
<1>1. /\ op[o].state = "none" /\ op' = [op EXCEPT ![o] = w]
      /\ UNCHANGED <<epoch, lease, wk, Node, faults>>
    BY DEF Submit, nodeVars, Node
<1>2. epoch \in 0..MaxEpoch /\ Absent \in OpRecord
  <2>1. epoch \in 1..MaxEpoch /\ MaxEpoch \in Nat
      BY BoundsAssumption DEF LifecycleInv, TypeOK
  <2> QED  BY <2>1 DEF Absent, OpRecord, ActiveStates, Settled
<1>3. w \in OpRecord /\ w.act = "none" /\ w.state = "queued"
    BY <1>2 DEF OpRecord, ActiveStates, Absent
<1> HIDE DEF w
<1>4. op[o].act = "none"
    BY <1>1 DEF LifecycleInv, OpOK
<1>5. op' \in [Ops -> OpRecord] /\ \A p \in Ops : OpStep(p)
    BY <1>1, <1>3, <1>4, OneOp
<1>6. TypeOK'
    BY <1>1, <1>5, CoreTypes DEF LifecycleInv, TypeOK
<1> QED  BY <1>1, <1>5, <1>6, FramesStay, CoreStep

(* The leases and the frames of the executors.                               *)
LEMMA SchedulingStep ==
  ASSUME LifecycleInv, UNCHANGED <<op, Node>>, epoch' \in 1..MaxEpoch, faults' \in 0..MaxFaults,
         lease' \in [Ops -> Executors \cup {Nobody}],
         wk' \in [Executors -> Frame], \A y \in Executors : FrameStep(y)
  PROVE  LifecycleInv'
<1>1. op' \in [Ops -> OpRecord] /\ \A p \in Ops : OpStep(p)
    BY OpsStay
<1>2. TypeOK'
    BY <1>1, CoreTypes DEF LifecycleInv
<1> QED  BY <1>1, <1>2, CoreStep

LEMMA ClaimInv ==
  ASSUME LifecycleInv, NEW x \in Executors, NEW o \in Ops, ClaimWork(x, o) \/ CallerAdvance(x, o)
  PROVE  LifecycleInv'
<1>1. IdleFrame \in Frame
    BY DEF IdleFrame, Frame
<1>2. CASE ClaimWork(x, o)
  <2> DEFINE f == [IdleFrame EXCEPT !.pc = "begin", !.op = o, !.token = TRUE]
  <2>1. f \in Frame /\ f.pc = "begin" /\ f.op = o
      BY <1>1 DEF Frame
  <2>2. /\ wk' = [wk EXCEPT ![x] = f] /\ lease' = [lease EXCEPT ![o] = x] /\ UNCHANGED <<epoch, op, Node, faults>>
      BY <1>2 DEF ClaimWork, nodeVars, Node
  <2> HIDE DEF f
  <2>3. wk' \in [Executors -> Frame] /\ \A y \in Executors : FrameStep(y)
      BY <2>1, <2>2, OneFrame DEF Local
  <2>4. lease' \in [Ops -> Executors \cup {Nobody}] /\ epoch' \in 1..MaxEpoch /\ faults' \in 0..MaxFaults
      BY <2>2 DEF LifecycleInv, TypeOK
  <2> QED  BY <2>2, <2>3, <2>4, SchedulingStep
<1>3. CASE CallerAdvance(x, o)
  <2> DEFINE f == [IdleFrame EXCEPT !.pc = "begin", !.op = o]
  <2>1. f \in Frame /\ f.pc = "begin" /\ f.op = o
      BY <1>1 DEF Frame
  <2>2. wk' = [wk EXCEPT ![x] = f] /\ UNCHANGED <<epoch, op, lease, Node, faults>>
      BY <1>3 DEF CallerAdvance, nodeVars, Node, coreVars
  <2> HIDE DEF f
  <2>3. wk' \in [Executors -> Frame] /\ \A y \in Executors : FrameStep(y)
      BY <2>1, <2>2, OneFrame DEF Local
  <2>4. lease' \in [Ops -> Executors \cup {Nobody}] /\ epoch' \in 1..MaxEpoch /\ faults' \in 0..MaxFaults
      BY <2>2 DEF LifecycleInv, TypeOK
  <2> QED  BY <2>2, <2>3, <2>4, SchedulingStep
<1> QED  BY <1>2, <1>3

LEMMA LeaseInv ==
  ASSUME LifecycleInv,
         \/ \E o \in Ops : LeaseExpires(o)
         \/ EndpointRevised
         \/ \E x \in Executors : FinishWork(x) \/ ExecutorDies(x)
  PROVE  LifecycleInv'
<1>0. IdleFrame \in Frame /\ IdleFrame.pc = "idle"
    BY DEF IdleFrame, Frame
<1>1. ASSUME NEW o \in Ops, LeaseExpires(o) PROVE LifecycleInv'
  <2>1. lease' = [lease EXCEPT ![o] = Nobody] /\ UNCHANGED <<epoch, op, wk, Node, faults>>
      BY <1>1 DEF LeaseExpires, nodeVars, Node
  <2>2. lease' \in [Ops -> Executors \cup {Nobody}] /\ epoch' \in 1..MaxEpoch /\ faults' \in 0..MaxFaults
      BY <2>1 DEF LifecycleInv, TypeOK
  <2> QED  BY <2>1, <2>2, FramesStay, SchedulingStep
<1>2. CASE EndpointRevised
  <2>1. epoch < MaxEpoch /\ epoch' = epoch + 1 /\ UNCHANGED <<lease, op, wk, Node, faults>>
      BY <1>2 DEF EndpointRevised, nodeVars, Node
  <2>2. lease' \in [Ops -> Executors \cup {Nobody}] /\ epoch' \in 1..MaxEpoch /\ faults' \in 0..MaxFaults
      BY <2>1, BoundsAssumption DEF LifecycleInv, TypeOK
  <2> QED  BY <2>1, <2>2, FramesStay, SchedulingStep
<1>3. ASSUME NEW x \in Executors, FinishWork(x) PROVE LifecycleInv'
  <2>1. /\ wk' = [wk EXCEPT ![x] = IdleFrame] /\ UNCHANGED <<epoch, op, Node, faults>>
        /\ lease' = IF lease[wk[x].op] = x THEN [lease EXCEPT ![wk[x].op] = Nobody] ELSE lease
      BY <1>3 DEF FinishWork, nodeVars, Node
  <2>2. wk' \in [Executors -> Frame] /\ \A y \in Executors : FrameStep(y)
      BY <1>0, <2>1, OneFrame DEF Local
  <2>3. lease' \in [Ops -> Executors \cup {Nobody}] /\ epoch' \in 1..MaxEpoch /\ faults' \in 0..MaxFaults
      BY <2>1 DEF LifecycleInv, TypeOK
  <2> QED  BY <2>1, <2>2, <2>3, SchedulingStep
<1>4. ASSUME NEW x \in Executors, ExecutorDies(x) PROVE LifecycleInv'
  <2>1. wk' = [wk EXCEPT ![x] = IdleFrame] /\ UNCHANGED <<epoch, op, lease, Node>> /\ Fault
      BY <1>4 DEF ExecutorDies, nodeVars, Node, coreVars
  <2>2. wk' \in [Executors -> Frame] /\ \A y \in Executors : FrameStep(y)
      BY <1>0, <2>1, OneFrame DEF Local
  <2>3. lease' \in [Ops -> Executors \cup {Nobody}] /\ epoch' \in 1..MaxEpoch /\ faults' \in 0..MaxFaults
      BY <2>1, FaultTypes DEF LifecycleInv, TypeOK
  <2> QED  BY <2>1, <2>2, <2>3, SchedulingStep
<1> QED  BY <1>1, <1>2, <1>3, <1>4

(* A step of the Core writes one record and moves one frame.                 *)
LEMMA CoreResult ==
  ASSUME LifecycleInv, UNCHANGED <<lease, Node>>, epoch' \in 1..MaxEpoch, faults' \in 0..MaxFaults,
         op' \in [Ops -> OpRecord], \A p \in Ops : OpStep(p),
         wk' \in [Executors -> Frame], \A y \in Executors : FrameStep(y)
  PROVE  LifecycleInv'
<1>1. lease' \in [Ops -> Executors \cup {Nobody}] /\ TypeOK
    BY DEF LifecycleInv, TypeOK
<1>2. TypeOK'
    BY <1>1, CoreTypes
<1> QED  BY <1>2, CoreStep

(* advance() ends: the frame is done.                                        *)
LEMMA DoneStep ==
  ASSUME LifecycleInv, NEW x \in Executors, wk[x].pc # "idle", wk' = [wk EXCEPT ![x] = Done(x)]
  PROVE  wk' \in [Executors -> Frame] /\ \A y \in Executors : FrameStep(y)
<1>1. PICK f : f = Done(x)
    OBVIOUS
<1>2. f \in Frame /\ f.pc \in {"idle", "finish"} /\ (f.pc = "finish" => f.op \in Ops)
    BY <1>1, TurnTypes
<1>3. wk' = [wk EXCEPT ![x] = f]
    BY <1>1
<1> QED  BY <1>2, <1>3, OneFrame DEF Local

LEMMA ExpiryInv ==
  ASSUME LifecycleInv, NEW o \in Ops, ChallengeExpires(o)
  PROVE  LifecycleInv'
<1>1. op \in [Ops -> OpRecord] /\ op[o] \in OpRecord
    BY DEF LifecycleInv, TypeOK
<1>2. OpOK(o) /\ op[o].live
    BY DEF LifecycleInv, ChallengeExpires
<1> DEFINE w == [op[o] EXCEPT !.live = FALSE]
<1>3. w \in OpRecord /\ w.act = op[o].act /\ w.cap = op[o].cap /\ w.state = op[o].state
    BY <1>1 DEF OpRecord
<1>4. op' = [op EXCEPT ![o] = w]
    BY <1>1 DEF ChallengeExpires
<1> HIDE DEF w
<1>5. op' \in [Ops -> OpRecord] /\ op'[o] = w /\ \A p \in Ops \ {o} : op'[p] = op[p]
    BY <1>1, <1>3, <1>4
<1>6. OpStep(o)
    BY <1>2, <1>3, <1>5 DEF OpStep, OpOK
<1>7. \A p \in Ops : OpStep(p)
    BY <1>5, <1>6, OpUnchanged
<1>8. UNCHANGED <<epoch, lease, wk, Node, faults>>
    BY DEF ChallengeExpires, nodeVars, Node
<1>9. epoch' \in 1..MaxEpoch /\ faults' \in 0..MaxFaults
    BY <1>8 DEF LifecycleInv, TypeOK
<1> QED  BY <1>5, <1>7, <1>8, <1>9, FramesStay, CoreResult

LEMMA ObserveInv ==
  ASSUME LifecycleInv, NEW x \in Executors, Observe(x)
  PROVE  LifecycleInv'
<1>1. wk[x].pc = "observe" /\ UNCHANGED <<epoch, lease, op, Node, faults>>
    BY DEF Observe, coreVars, nodeVars, Node
<1>2. PICK c : c \in Capacities /\ wk' = [wk EXCEPT ![x].pc = "record", ![x].cap = c, ![x].inc = drv.inc]
    BY DEF Observe
<1>3. c \in {"unknown", "fresh", "stopped", "ready", "busy", "unresolved"}
    BY <1>2 DEF Capacities
<1>4. wk \in [Executors -> Frame] /\ wk[x] \in Frame /\ drv.inc \in Nat /\ wk[x].op \in Ops
    BY <1>1 DEF LifecycleInv, TypeOK, DriverState, FrameOK
<1>5. wk' \in [Executors -> Frame] /\ wk'[x].pc = "record" /\ wk'[x].op = wk[x].op
    BY <1>2, <1>3, <1>4 DEF Frame
<1>6. \A y \in Executors : y # x => wk'[y] = wk[y]
    BY <1>2, <1>4
<1>7. \A y \in Executors : FrameStep(y)
    BY <1>4, <1>5, <1>6 DEF FrameStep, Same, Local
<1>8. epoch' \in 1..MaxEpoch /\ faults' \in 0..MaxFaults
    BY <1>1 DEF LifecycleInv, TypeOK
<1> QED  BY <1>1, <1>5, <1>7, <1>8, OpsStay, CoreResult

LEMMA ObserveFailsInv ==
  ASSUME LifecycleInv, NEW x \in Executors, ObserveFails(x)
  PROVE  LifecycleInv'
<1>1. /\ wk[x].pc = "observe" /\ wk' = [wk EXCEPT ![x] = Done(x)] /\ UNCHANGED <<epoch, lease, Node>>
      /\ op' = Failure(wk[x].op, FALSE) /\ (Fault \/ UNCHANGED faults)
    BY DEF ObserveFails, nodeVars, Node
<1>2. PICK o \in Ops : o = wk[x].op
    BY <1>1 DEF LifecycleInv, FrameOK
<1>3. op' = Failure(o, FALSE)
    BY <1>1, <1>2
<1>4. op' \in [Ops -> OpRecord] /\ \A p \in Ops : OpStep(p)
    BY <1>3, FailureStep
<1>5. epoch' \in 1..MaxEpoch /\ faults' \in 0..MaxFaults
    BY <1>1, FaultTypes DEF LifecycleInv, TypeOK
<1> QED  BY <1>1, <1>4, <1>5, DoneStep, CoreResult

LEMMA RecordRefusedInv ==
  ASSUME LifecycleInv, NEW x \in Executors, RecordRefused(x)
  PROVE  LifecycleInv'
<1>1. /\ wk[x].pc = "record" /\ wk' = [wk EXCEPT ![x] = Done(x)] /\ UNCHANGED <<epoch, lease, Node, faults>>
      /\ op' = Failure(wk[x].op, FALSE) \/ UNCHANGED op
    BY DEF RecordRefused, nodeVars, Node
<1>2. PICK o \in Ops : o = wk[x].op
    BY <1>1 DEF LifecycleInv, FrameOK
<1>3. op' = Failure(o, FALSE) \/ UNCHANGED op
    BY <1>1, <1>2
<1>4. op' \in [Ops -> OpRecord] /\ \A p \in Ops : OpStep(p)
    BY <1>3, FailureStep, OpsStay
<1>5. epoch' \in 1..MaxEpoch /\ faults' \in 0..MaxFaults
    BY <1>1 DEF LifecycleInv, TypeOK
<1> QED  BY <1>1, <1>4, <1>5, DoneStep, CoreResult

LEMMA ExchangeFailsInv ==
  ASSUME LifecycleInv, NEW x \in Executors, ExchangeFails(x)
  PROVE  LifecycleInv'
<1>1. /\ wk[x].pc # "idle" /\ wk' = [wk EXCEPT ![x] = Done(x)] /\ UNCHANGED <<epoch, lease, Node>>
      /\ op' = Failure(wk[x].op, TRUE) /\ (Fault \/ UNCHANGED faults)
    BY DEF ExchangeFails, nodeVars, Node
<1>2. PICK o \in Ops : o = wk[x].op
    BY <1>1 DEF LifecycleInv, FrameOK
<1>3. op' = Failure(o, TRUE)
    BY <1>1, <1>2
<1>4. op' \in [Ops -> OpRecord] /\ \A p \in Ops : OpStep(p)
    BY <1>3, FailureStep
<1>5. epoch' \in 1..MaxEpoch /\ faults' \in 0..MaxFaults
    BY <1>1, FaultTypes DEF LifecycleInv, TypeOK
<1> QED  BY <1>1, <1>4, <1>5, DoneStep, CoreResult

(* A record moves to a state and a phase.                                    *)
LEMMA PhaseMoves ==
  ASSUME LifecycleInv, NEW o \in Ops,
         NEW s \in {"preparing", "deferred", "completed", "definitively_rejected"},
         NEW h \in {"observing", "deferred", "settled"},
         op' = [op EXCEPT ![o].state = s, ![o].phase = h],
         s = "completed" /\ op[o].act # "none" => row[o] = "acknowledged",
         s = "definitively_rejected" => Closed(o)
  PROVE  op' \in [Ops -> OpRecord] /\ \A p \in Ops : OpStep(p)
<1>1. op \in [Ops -> OpRecord] /\ op[o] \in OpRecord
    BY DEF LifecycleInv, TypeOK
<1> DEFINE w == [op[o] EXCEPT !.state = s, !.phase = h]
<1>2. w \in OpRecord /\ w.act = op[o].act /\ w.cap = op[o].cap /\ w.state = s
    BY <1>1 DEF OpRecord, ActiveStates, Settled
<1>3. op' = [op EXCEPT ![o] = w]
    BY <1>1
<1> HIDE DEF w
<1> QED  BY <1>2, <1>3, OneOp

LEMMA ReceiptInv ==
  ASSUME LifecycleInv, NEW x \in Executors, RecordReceipt(x)
  PROVE  LifecycleInv'
<1>1. /\ wk[x].pc = "receipt" /\ wk' = [wk EXCEPT ![x] = Done(x)] /\ UNCHANGED <<epoch, lease, Node, faults>>
    BY DEF RecordReceipt, nodeVars, Node
<1>2. PICK o \in Ops : o = wk[x].op
    BY <1>1 DEF LifecycleInv, FrameOK
<1>3. /\ wk[x].reply = "acknowledged" => row[o] = "acknowledged"
      /\ wk[x].reply = "not_started" => Closed(o)
    BY <1>1, <1>2 DEF LifecycleInv, FrameOK
<1>4. \/ op' = Failure(o, TRUE)
      \/ /\ wk[x].reply = "acknowledged"
         /\ op' = [op EXCEPT ![o].state = "completed", ![o].phase = "settled"]
      \/ /\ wk[x].reply = "not_started"
         /\ op' = [op EXCEPT ![o].state = "definitively_rejected", ![o].phase = "settled"]
      \/ op' = [op EXCEPT ![o].state = "unknown"]
    BY <1>2, Zenon DEF RecordReceipt
<1>5. op' \in [Ops -> OpRecord] /\ \A p \in Ops : OpStep(p)
  <2>1. CASE op' = Failure(o, TRUE)
      BY <2>1, FailureStep
  <2>2. CASE wk[x].reply = "acknowledged" /\ op' = [op EXCEPT ![o].state = "completed", ![o].phase = "settled"]
      BY <1>3, <2>2, PhaseMoves
  <2>3. CASE wk[x].reply = "not_started" /\ op' = [op EXCEPT ![o].state = "definitively_rejected", ![o].phase = "settled"]
      BY <1>3, <2>3, PhaseMoves
  <2>4. CASE op' = [op EXCEPT ![o].state = "unknown"]
      BY <2>4, StateMoves
  <2> QED  BY <1>4, <2>1, <2>2, <2>3, <2>4
<1>6. epoch' \in 1..MaxEpoch /\ faults' \in 0..MaxFaults
    BY <1>1 DEF LifecycleInv, TypeOK
<1> QED  BY <1>1, <1>5, <1>6, DoneStep, CoreResult

LEMMA ChallengeStep ==
  ASSUME LifecycleInv, NEW x \in Executors, wk[x].pc = "begin", NEW o \in Ops, o = wk[x].op, IssueChallenge(x, o)
  PROVE  /\ op' \in [Ops -> OpRecord] /\ \A p \in Ops : OpStep(p)
         /\ wk' \in [Executors -> Frame] /\ \A y \in Executors : FrameStep(y)
<1>1. op \in [Ops -> OpRecord] /\ op[o] \in OpRecord /\ wk \in [Executors -> Frame] /\ wk[x] \in Frame
    BY DEF LifecycleInv, TypeOK
<1>2. op' \in [Ops -> OpRecord] /\ \A p \in Ops : OpStep(p)
  <2>1. CASE op' = op
      BY <2>1, OpsStay
  <2>2. CASE op' = [op EXCEPT ![o].phase = "observing", ![o].state = "preparing"]
    <3>1. op' = [op EXCEPT ![o].state = "preparing", ![o].phase = "observing"]
        BY <1>1, <2>2
    <3> QED  BY <3>1, PhaseMoves
  <2>3. CASE op' = [op EXCEPT ![o].phase = "observing", ![o].state = "preparing", ![o].live = TRUE]
    <3> DEFINE w == [op[o] EXCEPT !.phase = "observing", !.state = "preparing", !.live = TRUE]
    <3>1. w \in OpRecord /\ w.act = op[o].act /\ w.cap = op[o].cap /\ w.state = "preparing"
        BY <1>1 DEF OpRecord, ActiveStates
    <3>2. op' = [op EXCEPT ![o] = w]
        BY <1>1, <2>3
    <3> HIDE DEF w
    <3> QED  BY <3>1, <3>2, OneOp
  <2> QED  BY <2>1, <2>2, <2>3 DEF IssueChallenge
<1>3. wk' \in [Executors -> Frame] /\ wk'[x].pc = "observe" /\ wk'[x].op = o
  <2>1. ASSUME NEW y \in Executors PROVE [wk[y] EXCEPT !.current = FALSE] \in Frame
      BY <1>1 DEF Frame
  <2> DEFINE f == [wk[x] EXCEPT !.pc = "observe", !.current = TRUE]
  <2>2. f \in Frame /\ f.pc = "observe" /\ f.op = o
      BY <1>1 DEF Frame
  <2>3. \/ wk' = [wk EXCEPT ![x] = f]
        \/ wk' = [y \in Executors |->
                    IF y = x THEN f
                    ELSE IF wk[y].op = o THEN [wk[y] EXCEPT !.current = FALSE] ELSE wk[y]]
      BY <1>1 DEF IssueChallenge
  <2> HIDE DEF f
  <2> QED  BY <1>1, <2>1, <2>2, <2>3
<1>4. \A y \in Executors : y # x => wk'[y].pc = wk[y].pc /\ wk'[y].op = wk[y].op /\ wk'[y].reply = wk[y].reply
    BY <1>1 DEF IssueChallenge, Frame
<1>5. \A y \in Executors : FrameStep(y)
    BY <1>3, <1>4 DEF FrameStep, Same, Local
<1> QED  BY <1>2, <1>3, <1>5

LEMMA BeginInv ==
  ASSUME LifecycleInv, NEW x \in Executors, Begin(x)
  PROVE  LifecycleInv'
<1>1. wk[x].pc = "begin" /\ UNCHANGED <<epoch, lease, Node, faults>>
    BY DEF Begin, nodeVars, Node
<1>2. PICK o \in Ops : o = wk[x].op
    BY <1>1 DEF LifecycleInv, FrameOK
<1>3. epoch' \in 1..MaxEpoch /\ faults' \in 0..MaxFaults
    BY <1>1 DEF LifecycleInv, TypeOK
<1>4. \/ wk' = [wk EXCEPT ![x] = Done(x)] /\ UNCHANGED op
      \/ wk' = [wk EXCEPT ![x] = Turn(x, "readback")] /\ Possible(o) /\ UNCHANGED op
      \/ IssueChallenge(x, o)
    BY <1>2 DEF Begin
<1>5. CASE wk' = [wk EXCEPT ![x] = Done(x)] /\ UNCHANGED op
    BY <1>1, <1>3, <1>5, DoneStep, OpsStay, CoreResult
<1>6. CASE wk' = [wk EXCEPT ![x] = Turn(x, "readback")] /\ Possible(o) /\ UNCHANGED op
  <2>1. PICK f : f = Turn(x, "readback")
      OBVIOUS
  <2>2. f \in Frame /\ f.pc = "readback" /\ f.op = o
      BY <1>1, <1>2, <2>1, TurnTypes
  <2>3. wk' = [wk EXCEPT ![x] = f] /\ op[o].act # "none"
      BY <1>6, <2>1 DEF Possible
  <2>4. wk' \in [Executors -> Frame] /\ \A y \in Executors : FrameStep(y)
      BY <2>2, <2>3, OneFrame
  <2> QED  BY <1>1, <1>3, <1>6, <2>4, OpsStay, CoreResult
<1>7. CASE IssueChallenge(x, o)
    BY <1>1, <1>2, <1>3, <1>7, ChallengeStep, CoreResult
<1> QED  BY <1>4, <1>5, <1>6, <1>7

(* The permit: the record was never permitted, so the Node knows nothing of  *)
(* the operation and no other executor holds its request.                    *)
LEMMA PermitInv ==
  ASSUME LifecycleInv, NEW x \in Executors, NEW o \in Ops, NEW w \in OpRecord, NEW f \in Frame,
         wk[x].pc = "record", op[o].act = "none", UNCHANGED <<epoch, lease, Node, faults>>,
         op' = [op EXCEPT ![o] = w], wk' = [wk EXCEPT ![x] = f],
         w.state = "submitting", w.act # "none", w.act = "spawn" => w.cap = "fresh",
         f.pc = "execute", f.op = o
  PROVE  LifecycleInv'
<1> USE DEF Node
<1>1. TypeOK /\ NodeInv /\ (\A p \in Ops : OpOK(p)) /\ (\A y \in Executors : FrameOK(y))
    BY DEF LifecycleInv
<1>2. /\ op' \in [Ops -> OpRecord] /\ op'[o] = w /\ \A p \in Ops : p # o => op'[p] = op[p]
      /\ wk' \in [Executors -> Frame] /\ wk'[x] = f /\ \A y \in Executors : y # x => wk'[y] = wk[y]
    BY <1>1 DEF TypeOK
<1>3. TypeOK'
    BY <1>1, <1>2 DEF TypeOK
<1>4. o \notin net /\ row[o] = "none" /\ \A y \in Executors : wk[y].pc \in Permitted => wk[y].op # o
    BY <1>1 DEF OpOK, FrameOK
<1>5. NodeInv'
    BY <1>1, <1>2 DEF NodeInv
<1>6. ASSUME NEW p \in Ops, p # o PROVE Closed(p) => Closed(p)'
  <2>1. \A y \in Executors : wk'[y].pc = "execute" /\ wk'[y].op = p => wk[y].pc = "execute" /\ wk[y].op = p
      BY <1>2, <1>6
  <2> QED  BY <1>2, <1>6, <2>1 DEF Closed, Dead, Outstanding
<1>7. ASSUME NEW p \in Ops PROVE OpOK(p)'
    BY <1>1, <1>2, <1>6 DEF OpOK
<1>8. ASSUME NEW y \in Executors PROVE FrameOK(y)'
  <2>1. CASE y = x
    <3>1. \A z \in Executors : wk'[z].pc = "execute" /\ wk'[z].op = o => z = x
        BY <1>2, <1>4 DEF Permitted
    <3> QED  BY <1>2, <1>4, <2>1, <3>1 DEF FrameOK
  <2>2. CASE y # x /\ wk[y].op = o
      BY <1>1, <1>2, <1>4, <2>2 DEF FrameOK, Permitted
  <2>3. CASE y # x /\ wk[y].op # o
    <3>1. \A z \in Executors : wk'[z].pc = "execute" /\ wk'[z].op = wk[y].op => wk'[z] = wk[z]
        BY <1>2, <2>3
    <3>2. wk[y].pc # "idle" => wk[y].op \in Ops
        BY <1>1 DEF FrameOK
    <3>3. FrameOK(y) /\ wk'[y] = wk[y]
        BY <1>1, <1>2, <2>3
    <3> QED  BY <1>2, <1>6, <2>3, <3>1, <3>2, <3>3 DEF FrameOK, Permitted
  <2> QED  BY <2>1, <2>2, <2>3
<1> QED  BY <1>3, <1>5, <1>7, <1>8 DEF LifecycleInv

LEMMA RecordInv ==
  ASSUME LifecycleInv, NEW x \in Executors, Record(x)
  PROVE  LifecycleInv'
<1>1. wk[x].pc = "record" /\ UNCHANGED <<lease, Node, faults>>
    BY DEF Record, nodeVars, Node
<1>2. PICK o \in Ops : o = wk[x].op
    BY <1>1 DEF LifecycleInv, FrameOK
<1>3. op[o].act = "none" /\ faults' \in 0..MaxFaults /\ epoch \in 1..MaxEpoch
    BY <1>1, <1>2 DEF LifecycleInv, TypeOK, Record, Possible
<1>4. PICK action : action = Derive(op[o].kind, wk[x].cap)
    OBVIOUS
<1>5. \/ /\ action \in {"spawn", "resume"}
         /\ op' = [op EXCEPT ![o].state = "submitting", ![o].phase = "executing",
                             ![o].act = action, ![o].cap = wk[x].cap, ![o].inc = wk[x].inc]
         /\ wk' = [wk EXCEPT ![x] = Turn(x, "execute")] /\ UNCHANGED epoch
      \/ /\ op' = [op EXCEPT ![o].state = "completed", ![o].phase = "settled"]
         /\ wk' = [wk EXCEPT ![x] = Done(x)]
         /\ UNCHANGED epoch \/ (epoch < MaxEpoch /\ epoch' = epoch + 1)
      \/ /\ op' = [op EXCEPT ![o].state = "deferred", ![o].phase = "deferred"]
         /\ wk' = [wk EXCEPT ![x] = Done(x)] /\ UNCHANGED epoch
    BY <1>2, <1>4 DEF Record
<1>6. ASSUME action \in {"spawn", "resume"}, UNCHANGED epoch,
             op' = [op EXCEPT ![o].state = "submitting", ![o].phase = "executing",
                              ![o].act = action, ![o].cap = wk[x].cap, ![o].inc = wk[x].inc],
             wk' = [wk EXCEPT ![x] = Turn(x, "execute")]
      PROVE  LifecycleInv'
  <2>1. op \in [Ops -> OpRecord] /\ op[o] \in OpRecord /\ wk[x] \in Frame /\ wk[x].inc \in Nat
      BY DEF LifecycleInv, TypeOK, Frame
  <2>2. wk[x].cap \in {"fresh", "stopped", "ready"} /\ (action = "spawn" => wk[x].cap = "fresh")
      BY <1>4, <1>6 DEF Derive
  <2> DEFINE v == [op[o] EXCEPT !.state = "submitting", !.phase = "executing",
                                !.act = action, !.cap = wk[x].cap, !.inc = wk[x].inc]
  <2>3. v \in OpRecord /\ v.state = "submitting" /\ v.act = action /\ v.cap = wk[x].cap
      BY <1>6, <2>1, <2>2 DEF OpRecord, ActiveStates
  <2>4. op' = [op EXCEPT ![o] = v]
      BY <1>6, <2>1
  <2> HIDE DEF v
  <2>5. PICK w, f : w = v /\ f = Turn(x, "execute")
      OBVIOUS
  <2>6. f \in Frame /\ f.pc = "execute" /\ f.op = o
      BY <1>1, <1>2, <2>5, TurnTypes
  <2>7. w \in OpRecord /\ w.state = "submitting" /\ w.act # "none" /\ (w.act = "spawn" => w.cap = "fresh")
      BY <1>6, <2>2, <2>3, <2>5
  <2>8. op' = [op EXCEPT ![o] = w] /\ wk' = [wk EXCEPT ![x] = f]
      BY <1>6, <2>4, <2>5
  <2>9. UNCHANGED <<epoch, lease, Node, faults>> /\ wk[x].pc = "record" /\ op[o].act = "none"
      BY <1>1, <1>3, <1>6
  <2> QED  BY <2>6, <2>7, <2>8, <2>9, PermitInv
<1>7. ASSUME \/ op' = [op EXCEPT ![o].state = "completed", ![o].phase = "settled"]
             \/ op' = [op EXCEPT ![o].state = "deferred", ![o].phase = "deferred"],
             wk' = [wk EXCEPT ![x] = Done(x)], UNCHANGED epoch \/ (epoch < MaxEpoch /\ epoch' = epoch + 1)
      PROVE  LifecycleInv'
  <2>1. op' \in [Ops -> OpRecord] /\ \A p \in Ops : OpStep(p)
      BY <1>3, <1>7, PhaseMoves
  <2>2. epoch' \in 1..MaxEpoch
      BY <1>3, <1>7, BoundsAssumption
  <2> QED  BY <1>1, <1>3, <1>7, <2>1, <2>2, DoneStep, CoreResult
<1> QED  BY <1>5, <1>6, <1>7

-----------------------------------------------------------------------------
(* Requests on their way                                                     *)

LEMMA SendInv ==
  ASSUME LifecycleInv, NEW x \in Executors, SendExecute(x)
  PROVE  LifecycleInv'
<1>1. TypeOK /\ NodeInv /\ (\A p \in Ops : OpOK(p)) /\ (\A y \in Executors : FrameOK(y))
    BY DEF LifecycleInv
<1>2. /\ wk[x].pc = "execute" /\ net' = net \cup {wk[x].op} /\ wk' = [wk EXCEPT ![x].pc = "await"]
      /\ UNCHANGED <<epoch, op, lease, nd, row, io, drv, effects, spawned, raced, faults>>
    BY DEF SendExecute, coreVars, nodeVars
<1>3. PICK o \in Ops : o = wk[x].op
    BY <1>1, <1>2 DEF FrameOK
<1>4. wk \in [Executors -> Frame] /\ wk[x] \in Frame
    BY <1>1 DEF TypeOK
<1>5. /\ wk' \in [Executors -> Frame] /\ wk'[x].pc = "await" /\ wk'[x].op = o
      /\ \A y \in Executors : y # x => wk'[y] = wk[y]
    BY <1>2, <1>3, <1>4 DEF Frame
<1>6. TypeOK'
    BY <1>1, <1>2, <1>3, <1>5 DEF TypeOK
<1>7. NodeInv'
    BY <1>1, <1>2 DEF NodeInv
<1>8. op[o].act # "none" /\ Outstanding(o) /\ Outstanding(o)'
    BY <1>1, <1>2, <1>3 DEF FrameOK, Permitted, Outstanding
<1>9. ASSUME NEW p \in Ops, Closed(p) PROVE Closed(p)'
  <2>1. Outstanding(p)' => Outstanding(p)
      BY <1>2, <1>3, <1>5 DEF Outstanding
  <2> QED  BY <1>2, <1>9, <2>1 DEF Closed, Dead
<1>10. ASSUME NEW p \in Ops PROVE OpOK(p)'
    BY <1>1, <1>2, <1>3, <1>8, <1>9 DEF OpOK
<1>11. ASSUME NEW y \in Executors PROVE FrameOK(y)'
  <2>1. CASE y = x
      BY <1>2, <1>3, <1>5, <1>8, <2>1 DEF FrameOK
  <2>2. CASE y # x
    <3>1. FrameOK(y) /\ wk'[y] = wk[y] /\ (wk[y].pc = "execute" => wk[y].op # o)
        BY <1>1, <1>2, <1>3, <1>5, <2>2 DEF FrameOK
    <3>2. wk[y].pc = "execute" => \A z \in Executors : wk'[z].pc = "execute" /\ wk'[z].op = wk[y].op => z = y
        BY <1>5, <3>1 DEF FrameOK
    <3> QED  BY <1>2, <1>3, <1>9, <3>1, <3>2 DEF FrameOK
  <2> QED  BY <2>1, <2>2
<1> QED  BY <1>6, <1>7, <1>10, <1>11 DEF LifecycleInv

LEMMA LossInv ==
  ASSUME LifecycleInv, NEW o \in Ops, RequestLost(o)
  PROVE  LifecycleInv'
<1>1. TypeOK /\ NodeInv /\ (\A p \in Ops : OpOK(p)) /\ (\A y \in Executors : FrameOK(y))
    BY DEF LifecycleInv
<1>2. /\ net' = net \ {o} /\ Fault
      /\ UNCHANGED <<epoch, op, lease, wk, nd, row, io, drv, effects, spawned, raced>>
    BY DEF RequestLost, coreVars, nodeVars
<1>3. TypeOK'
    BY <1>1, <1>2, FaultTypes DEF TypeOK
<1>4. NodeInv'
    BY <1>1, <1>2 DEF NodeInv
<1>5. ASSUME NEW p \in Ops, Closed(p) PROVE Closed(p)'
    BY <1>2, <1>5 DEF Closed, Dead, Outstanding
<1>6. ASSUME NEW p \in Ops PROVE OpOK(p)'
    BY <1>1, <1>2, <1>5 DEF OpOK
<1>7. ASSUME NEW y \in Executors PROVE FrameOK(y)'
    BY <1>1, <1>2, <1>5 DEF FrameOK, Permitted
<1> QED  BY <1>3, <1>4, <1>6, <1>7 DEF LifecycleInv

-----------------------------------------------------------------------------
(* Steps of the Node                                                         *)

(* An executor gets an answer that the journal bears out.                    *)
Answered(x) ==
  /\ wk[x].pc \in {"await", "readback"} /\ wk'[x].pc = "receipt" /\ wk'[x].op = wk[x].op
  /\ \A o \in Ops : o = wk[x].op => /\ wk'[x].reply = "acknowledged" => row'[o] = "acknowledged"
                                    /\ wk'[x].reply = "not_started" => Closed(o)'

(* A row the Node may still write: its permit is out, and nobody was or can  *)
(* be told that it did not start.                                            *)
Open(o) == /\ op[o].act # "none" /\ row[o] # "acknowledged" /\ ~Dead(o)
           /\ row[o] # "none" \/ o \in net

LEMMA StillClosed ==
  ASSUME raced \subseteq raced', net' \subseteq net, UNCHANGED op,
         \A x \in Executors : wk'[x].pc = "execute" => Same(x),
         NEW o \in Ops, (row'[o] = row[o] /\ effects'[o] = effects[o]) \/ ~Dead(o), Closed(o)
  PROVE  Closed(o)'
<1>1. Outstanding(o)' => Outstanding(o)
    BY DEF Outstanding, Same
<1> QED  BY <1>1 DEF Closed, Dead

LEMMA NodeMoves ==
  ASSUME LifecycleInv, TypeOK', NodeInv', UNCHANGED op, raced \subseteq raced', net' \subseteq net,
         \A o \in Ops : (row'[o] = row[o] /\ effects'[o] = effects[o]) \/ Open(o),
         \A x \in Executors : Same(x) \/ Answered(x)
  PROVE  LifecycleInv'
<1>1. TypeOK /\ NodeInv /\ (\A p \in Ops : OpOK(p)) /\ (\A y \in Executors : FrameOK(y))
    BY DEF LifecycleInv
<1>2. \A x \in Executors : wk'[x].pc = "execute" => Same(x)
    BY DEF Answered
<1>3. ASSUME NEW o \in Ops, Closed(o) PROVE Closed(o)'
    BY <1>2, <1>3, StillClosed DEF Open
<1>4. ASSUME NEW o \in Ops PROVE OpOK(o)'
    BY <1>1, <1>3 DEF OpOK, Open
<1>5. ASSUME NEW x \in Executors PROVE FrameOK(x)'
  <2>1. CASE Same(x)
    <3>1. wk'[x].pc = "execute" => \A y \in Executors : wk'[y].pc = "execute" /\ wk'[y].op = wk'[x].op => y = x
        BY <1>1, <1>2, <2>1 DEF Same, FrameOK
    <3>2. wk[x].pc = "execute" => row'[wk[x].op] = row[wk[x].op]
        BY <1>1 DEF FrameOK, Open
    <3>3. wk[x].pc # "idle" /\ row[wk[x].op] = "acknowledged" => row'[wk[x].op] = "acknowledged"
        BY <1>1 DEF FrameOK, Open
    <3> QED  BY <1>1, <1>3, <2>1, <3>1, <3>2, <3>3 DEF FrameOK, Same, Permitted
  <2>2. CASE Answered(x)
    <3>1. PICK o \in Ops : o = wk[x].op
        BY <1>1, <2>2 DEF Answered, FrameOK
    <3>2. op[o].act # "none" /\ wk'[x].op = o /\ wk'[x].pc = "receipt"
        BY <1>1, <2>2, <3>1 DEF Answered, FrameOK, Permitted
    <3> QED  BY <2>2, <3>1, <3>2 DEF Answered, FrameOK
  <2> QED  BY <2>1, <2>2
<1> QED  BY <1>4, <1>5 DEF LifecycleInv

(* The operation in the Driver is open, and its row is an intent.            *)
LEMMA InDriverOpen ==
  ASSUME LifecycleInv, NEW o \in Ops, nd.op = o, nd.pc # "free"
  PROVE  Open(o) /\ row[o] = "intent"
BY DEF LifecycleInv, NodeInv, Open, Dead

(* The Node's answers reach the executors that wait for them.                *)
LEMMA ReplyStep ==
  ASSUME TypeOK, NEW o \in Ops, NEW r \in {"acknowledged", "not_started", "unknown", "error"}, Reply(o, r),
         r = "acknowledged" => row'[o] = "acknowledged", r = "not_started" => Closed(o)'
  PROVE  wk' \in [Executors -> Frame] /\ \A x \in Executors : Same(x) \/ Answered(x)
<1>1. wk \in [Executors -> Frame]
    BY DEF TypeOK
<1>2. ASSUME NEW x \in Executors PROVE wk'[x] \in Frame /\ (Same(x) \/ Answered(x))
  <2>1. CASE wk[x].pc = "await" /\ wk[x].op = o
    <3>1. wk'[x] = [wk[x] EXCEPT !.pc = "receipt", !.reply = r] /\ wk[x] \in Frame
        BY <1>1, <2>1 DEF Reply
    <3>2. wk'[x] \in Frame /\ wk'[x].pc = "receipt" /\ wk'[x].op = o /\ wk'[x].reply = r
        BY <2>1, <3>1 DEF Frame
    <3> QED  BY <2>1, <3>2 DEF Answered
  <2>2. CASE ~(wk[x].pc = "await" /\ wk[x].op = o)
      BY <1>1, <2>2 DEF Reply, Same
  <2> QED  BY <2>1, <2>2
<1>3. wk' = [x \in Executors |-> wk'[x]]
    BY DEF Reply
<1> QED  BY <1>2, <1>3

(* Steps inside the Driver that write no row: the journal first, then the    *)
(* Native.                                                                   *)
LEMMA DriverInv ==
  ASSUME LifecycleInv, NEW o \in Ops,
         \/ NodeIntend(o) \/ NodeDispatch(o) \/ NodeAuthorizeLaunch(o) \/ NodeLaunch(o)
         \/ NodeStartThread(o) \/ NodeResumeThread(o)
  PROVE  LifecycleInv'
<1>1. TypeOK /\ NodeInv /\ (\A p \in Ops : OpOK(p)) /\ (\A y \in Executors : FrameOK(y))
    BY DEF LifecycleInv
<1>2. UNCHANGED <<epoch, op, lease, wk, net, row, raced, faults>> /\ nd.op = o /\ nd.pc # "free"
    BY DEF NodeIntend, NodeDispatch, NodeAuthorizeLaunch, NodeLaunch, NodeStartThread, NodeResumeThread, coreVars
<1>3. Open(o) /\ row[o] = "intent"
    BY <1>2, InDriverOpen
<1>4. /\ nd'.op = o
      /\ nd' \in [pc : {"free", "begun", "intended", "dispatched", "authorized", "launched",
                        "threading"}, op : Ops \cup {"none"}]
    BY <1>1, <1>2 DEF NodeIntend, NodeDispatch, NodeAuthorizeLaunch, NodeLaunch, NodeStartThread, NodeResumeThread, TypeOK
<1>5. drv' \in DriverState
  <2>1. drv \in DriverState
      BY <1>1 DEF TypeOK
  <2>2. CASE NodeLaunch(o)
    <3>1. drv' = [drv EXCEPT !.own = "owned", !.proc = "live", !.inc = drv.inc + 1, !.stop = FALSE]
        BY <2>2 DEF NodeLaunch
    <3>2. drv.inc + 1 \in Nat
        BY <2>1 DEF DriverState
    <3> QED  BY <2>1, <3>1, <3>2, Zenon DEF DriverState
  <2> QED  BY <2>1, <2>2 DEF NodeIntend, NodeDispatch, NodeAuthorizeLaunch, NodeStartThread, NodeResumeThread
<1>6. io' \in [Ops -> {"none", "intended", "dispatched"}] /\ effects' \in [Ops -> Nat] /\ spawned' \subseteq Ops
    BY <1>1 DEF NodeIntend, NodeDispatch, NodeAuthorizeLaunch, NodeLaunch, NodeStartThread, NodeResumeThread, TypeOK
<1>7. TypeOK'
    BY <1>1, <1>2, <1>4, <1>5, <1>6 DEF TypeOK
<1>8. NodeInv'
  <2>1. CASE NodeIntend(o)
      BY <1>1, <1>2, <1>4, <2>1 DEF NodeIntend, NodeInv, TypeOK, InDriver
  <2>2. CASE NodeDispatch(o)
      BY <1>1, <1>2, <1>4, <2>2 DEF NodeDispatch, NodeInv, TypeOK, InDriver
  <2>3. CASE NodeAuthorizeLaunch(o)
      BY <1>1, <1>2, <1>4, <2>3 DEF NodeAuthorizeLaunch, NodeInv, TypeOK, InDriver
  <2>4. CASE NodeLaunch(o)
    <3>1. effects[o] = 0 /\ effects'[o] = 1 /\ (\A p \in Ops : p # o => effects'[p] = effects[p])
        BY <1>1, <1>2, <2>4 DEF NodeLaunch, NodeInv, TypeOK
    <3>2. io[o] = "dispatched" /\ nd'.pc \in {"launched", "threading"} /\ UNCHANGED <<io, spawned>>
        BY <1>1, <1>2, <2>4 DEF NodeLaunch, NodeInv, InDriver, TypeOK
    <3> QED  BY <1>1, <1>2, <1>4, <3>1, <3>2 DEF NodeInv
  <2>5. CASE NodeStartThread(o)
      BY <1>1, <1>2, <1>4, <2>5 DEF NodeStartThread, NodeInv, TypeOK, InDriver
  <2>6. CASE NodeResumeThread(o)
    <3>1. effects[o] = 0 /\ effects'[o] = 1 /\ (\A p \in Ops : p # o => effects'[p] = effects[p])
        BY <1>1, <1>2, <2>6 DEF NodeResumeThread, NodeInv, TypeOK
    <3>2. io[o] = "dispatched" /\ nd'.pc \in {"launched", "threading"} /\ UNCHANGED <<io, spawned>>
        BY <1>1, <1>2, <2>6 DEF NodeResumeThread, NodeInv, InDriver, TypeOK
    <3> QED  BY <1>1, <1>2, <1>4, <3>1, <3>2 DEF NodeInv
  <2> QED  BY <2>1, <2>2, <2>3, <2>4, <2>5, <2>6
<1>9. \A p \in Ops : (row'[p] = row[p] /\ effects'[p] = effects[p]) \/ Open(p)
    BY <1>1, <1>2, <1>3 DEF NodeIntend, NodeDispatch, NodeAuthorizeLaunch, NodeLaunch, NodeStartThread, NodeResumeThread, TypeOK
<1>10. \A x \in Executors : Same(x) \/ Answered(x)
    BY <1>2 DEF Same
<1> QED  BY <1>2, <1>7, <1>8, <1>9, <1>10, NodeMoves

LEMMA DeliverTypes ==
  ASSUME TypeOK, NEW o \in Ops, Deliver(o)
  PROVE  net' \subseteq net /\ net' \subseteq Ops /\ faults' \in 0..MaxFaults /\ (o \in net' \/ net' = net \ {o})
BY FaultTypes DEF Deliver, TypeOK

(* A plan to spawn saw an endpoint without any earlier effect, and the Node  *)
(* still sees one: no session was created yet.                               *)
LEMMA ExecuteInv ==
  ASSUME LifecycleInv, NEW o \in Ops, NodeExecute(o)
  PROVE  LifecycleInv'
<1>1. TypeOK /\ NodeInv /\ (\A p \in Ops : OpOK(p)) /\ (\A y \in Executors : FrameOK(y))
    BY DEF LifecycleInv
<1>2. /\ o \in net /\ row[o] = "none" /\ op[o].cap \in Capacities /\ Deliver(o)
      /\ nd' = [pc |-> "begun", op |-> o] /\ row' = [row EXCEPT ![o] = "intent"]
      /\ UNCHANGED <<epoch, op, lease, wk, io, drv, effects, spawned, raced>>
    BY DEF NodeExecute, coreVars
<1>3. op[o].act # "none" /\ (op[o].act = "spawn" => op[o].cap = "fresh") /\ io[o] = "none"
    BY <1>1, <1>2 DEF OpOK, NodeInv
<1>4. op[o].act = "spawn" => spawned = {}
  <2>1. op[o].cap = "fresh" => ~PriorEffect
      BY <1>2 DEF Capacities
  <2>2. ~PriorEffect => spawned = {}
      BY <1>1 DEF PriorEffect, NodeInv, TypeOK
  <2> QED  BY <1>3, <2>1, <2>2
<1>5. TypeOK'
  <2>1. nd' \in [pc : {"free", "begun", "intended", "dispatched", "authorized", "launched",
                       "threading"}, op : Ops \cup {"none"}]
      BY <1>2
  <2>2. row' \in [Ops -> {"none", "intent", "rejected", "uncertain", "acknowledged"}]
      BY <1>1, <1>2 DEF TypeOK
  <2> QED  BY <1>1, <1>2, <2>1, <2>2, DeliverTypes DEF TypeOK
<1>6. row'[o] = "intent" /\ \A p \in Ops : p # o => row'[p] = row[p]
    BY <1>1, <1>2 DEF TypeOK
<1>7. NodeInv'
    BY <1>1, <1>2, <1>3, <1>4, <1>6 DEF NodeInv, InDriver
<1>8. Open(o)
    BY <1>2, <1>3 DEF Open, Dead, Outstanding
<1>9. net' \subseteq net /\ \A x \in Executors : Same(x) \/ Answered(x)
    BY <1>1, <1>2, DeliverTypes DEF Same
<1> QED  BY <1>2, <1>5, <1>6, <1>7, <1>8, <1>9, NodeMoves

LEMMA AcknowledgeInv ==
  ASSUME LifecycleInv, NEW o \in Ops, NodeAcknowledge(o)
  PROVE  LifecycleInv'
<1>1. TypeOK /\ NodeInv /\ (\A p \in Ops : OpOK(p)) /\ (\A y \in Executors : FrameOK(y))
    BY DEF LifecycleInv
<1>2. /\ nd.op = o /\ nd.pc # "free" /\ row' = [row EXCEPT ![o] = "acknowledged"]
      /\ drv' = [drv EXCEPT !.session = TRUE] /\ Reply(o, "acknowledged") /\ nd' = [pc |-> "free", op |-> "none"]
      /\ UNCHANGED <<epoch, op, lease, net, io, effects, spawned, raced, faults>>
    BY DEF NodeAcknowledge, Release, coreVars
<1>3. Open(o) /\ row[o] = "intent"
    BY <1>2, InDriverOpen
<1>4. /\ row' \in [Ops -> {"none", "intent", "rejected", "uncertain", "acknowledged"}]
      /\ row'[o] = "acknowledged" /\ \A p \in Ops : p # o => row'[p] = row[p]
    BY <1>1, <1>2 DEF TypeOK
<1>5. wk' \in [Executors -> Frame] /\ \A x \in Executors : Same(x) \/ Answered(x)
    BY <1>1, <1>2, <1>4, ReplyStep
<1>6. TypeOK'
  <2>1. drv \in DriverState
      BY <1>1 DEF TypeOK
  <2>2. drv' \in DriverState
      BY <1>2, <2>1 DEF DriverState
  <2>3. nd' \in [pc : {"free", "begun", "intended", "dispatched", "authorized", "launched",
                       "threading"}, op : Ops \cup {"none"}]
      BY <1>2
  <2> QED  BY <1>1, <1>2, <1>4, <1>5, <2>2, <2>3 DEF TypeOK
<1>7. NodeInv'
    BY <1>1, <1>2, <1>4 DEF NodeInv, InDriver
<1> QED  BY <1>2, <1>3, <1>4, <1>5, <1>6, <1>7, NodeMoves

LEMMA FailsInv ==
  ASSUME LifecycleInv, NEW o \in Ops, NodeFails(o)
  PROVE  LifecycleInv'
<1>1. TypeOK /\ NodeInv /\ (\A p \in Ops : OpOK(p)) /\ (\A y \in Executors : FrameOK(y))
    BY DEF LifecycleInv
<1>2. /\ nd.op = o /\ nd.pc # "free" /\ Reply(o, "unknown") /\ nd' = [pc |-> "free", op |-> "none"]
      /\ UNCHANGED <<epoch, op, lease, net, io, drv, effects, spawned, raced, faults>>
    BY DEF NodeFails, Release, coreVars
<1>3. Open(o) /\ row[o] = "intent"
    BY <1>2, InDriverOpen
<1>4. PICK result \in {"rejected", "uncertain"} : row' = [row EXCEPT ![o] = result]
    BY DEF NodeFails
<1>5. /\ row' \in [Ops -> {"none", "intent", "rejected", "uncertain", "acknowledged"}]
      /\ row'[o] = result /\ \A p \in Ops : p # o => row'[p] = row[p]
    BY <1>1, <1>4 DEF TypeOK
<1>6. wk' \in [Executors -> Frame] /\ \A x \in Executors : Same(x) \/ Answered(x)
    BY <1>1, <1>2, ReplyStep
<1>7. TypeOK'
  <2>1. nd' \in [pc : {"free", "begun", "intended", "dispatched", "authorized", "launched",
                       "threading"}, op : Ops \cup {"none"}]
      BY <1>2
  <2> QED  BY <1>1, <1>2, <1>5, <1>6, <2>1 DEF TypeOK
<1>8. NodeInv'
    BY <1>1, <1>2, <1>5 DEF NodeInv, InDriver
<1> QED  BY <1>2, <1>3, <1>5, <1>6, <1>7, <1>8, NodeMoves

(* "not_started" from the journal: the permit is out, and the row was        *)
(* rejected before its dispatch, or there is none and none can follow.       *)
LEMMA NotStarted ==
  ASSUME LifecycleInv, NEW o \in Ops, op[o].act # "none", row[o] = "none" \/ ReadRow(o) = "not_started",
         UNCHANGED <<op, row, effects>>, (row[o] = "none" /\ Outstanding(o)') => o \in raced'
  PROVE  Closed(o)'
<1>1. (row[o] = "rejected" /\ io[o] # "dispatched") \/ row[o] = "none"
    BY DEF ReadRow
<1>2. effects[o] = 0
    BY <1>1 DEF LifecycleInv, NodeInv
<1> QED  BY <1>1, <1>2 DEF Closed, Dead

LEMMA RefuseInv ==
  ASSUME LifecycleInv, NEW o \in Ops, NodeRefuse(o)
  PROVE  LifecycleInv'
<1>1. TypeOK /\ NodeInv /\ (\A p \in Ops : OpOK(p)) /\ (\A y \in Executors : FrameOK(y))
    BY DEF LifecycleInv
<1>2. o \in net /\ Deliver(o) /\ UNCHANGED <<epoch, op, lease, nd, row, io, drv, effects, spawned>>
    BY DEF NodeRefuse, coreVars, nodeVars
<1>3. PICK r : /\ r \in Refusals(o) /\ Reply(o, r)
               /\ raced' = IF r = "not_started" /\ o \in net' THEN raced \cup {o} ELSE raced
    BY DEF NodeRefuse
<1>4. /\ r \in {"acknowledged", "not_started", "unknown", "error"}
      /\ r = "acknowledged" => row[o] = "acknowledged"
      /\ r = "not_started" => row[o] = "none" \/ ReadRow(o) = "not_started"
    BY <1>3 DEF Refusals, ReadRow
<1>5. net' \subseteq net /\ net' \subseteq Ops /\ faults' \in 0..MaxFaults /\ (o \in net' \/ net' = net \ {o})
    BY <1>1, <1>2, DeliverTypes
<1>6. r = "not_started" => Closed(o)'
  <2>1. op[o].act # "none"
      BY <1>1, <1>2 DEF OpOK
  <2>2. \A x \in Executors : wk[x].pc = "execute" => wk[x].op # o
      BY <1>1, <1>2 DEF FrameOK
  <2>3. \A x \in Executors : wk'[x].pc = "execute" => wk'[x] = wk[x]
    <3> SUFFICES ASSUME NEW x \in Executors, wk'[x].pc = "execute" PROVE wk'[x] = wk[x]
        OBVIOUS
    <3>1. wk[x] \in Frame
        BY <1>1 DEF TypeOK
    <3>2. [wk[x] EXCEPT !.pc = "receipt", !.reply = r].pc = "receipt"
        BY <3>1 DEF Frame
    <3> QED  BY <1>3, <3>2 DEF Reply
  <2>4. r = "not_started" /\ Outstanding(o)' => o \in raced'
      BY <1>3, <1>5, <2>2, <2>3 DEF Outstanding
  <2> QED  BY <1>2, <1>4, <2>1, <2>4, NotStarted
<1>7. wk' \in [Executors -> Frame] /\ \A x \in Executors : Same(x) \/ Answered(x)
    BY <1>1, <1>2, <1>3, <1>4, <1>6, ReplyStep
<1>8. TypeOK' /\ raced \subseteq raced'
    BY <1>1, <1>2, <1>3, <1>5, <1>7 DEF TypeOK
<1>9. NodeInv'
    BY <1>1, <1>2 DEF NodeInv
<1> QED  BY <1>2, <1>5, <1>7, <1>8, <1>9, NodeMoves

LEMMA ReconcileInv ==
  ASSUME LifecycleInv, NEW x \in Executors, NodeReconcile(x)
  PROVE  LifecycleInv'
<1>1. TypeOK /\ NodeInv /\ (\A p \in Ops : OpOK(p)) /\ (\A y \in Executors : FrameOK(y))
    BY DEF LifecycleInv
<1>2. wk[x].pc = "readback" /\ UNCHANGED <<epoch, op, lease, net, nd, row, io, drv, effects, spawned, faults>>
    BY DEF NodeReconcile, coreVars, nodeVars
<1>3. PICK o \in Ops : o = wk[x].op
    BY <1>1, <1>2 DEF FrameOK
<1>4. PICK r : r = ReadRow(o)
    OBVIOUS
<1>5. r \in {"acknowledged", "not_started", "unknown"} /\ (r = "acknowledged" => row[o] = "acknowledged")
    BY <1>4 DEF ReadRow
<1>6. /\ wk' = [wk EXCEPT ![x].pc = "receipt", ![x].reply = r]
      /\ raced' = IF r = "not_started" /\ Outstanding(o) THEN raced \cup {o} ELSE raced
    BY <1>3, <1>4 DEF NodeReconcile
<1>7. wk \in [Executors -> Frame] /\ wk[x] \in Frame
    BY <1>1 DEF TypeOK
<1>8. /\ wk' \in [Executors -> Frame] /\ wk'[x].pc = "receipt" /\ wk'[x].op = o /\ wk'[x].reply = r
      /\ \A y \in Executors : y # x => wk'[y] = wk[y]
    BY <1>3, <1>5, <1>6, <1>7 DEF Frame
<1>9. r = "not_started" => Closed(o)'
  <2>1. op[o].act # "none"
      BY <1>1, <1>2, <1>3 DEF FrameOK, Permitted
  <2>2. Outstanding(o)' => Outstanding(o)
      BY <1>2, <1>8 DEF Outstanding
  <2> QED  BY <1>2, <1>4, <1>6, <2>1, <2>2, NotStarted
<1>10. \A y \in Executors : Same(y) \/ Answered(y)
    BY <1>2, <1>3, <1>5, <1>8, <1>9 DEF Same, Answered
<1>11. TypeOK' /\ raced \subseteq raced'
    BY <1>1, <1>2, <1>6, <1>8 DEF TypeOK
<1>12. NodeInv'
    BY <1>1, <1>2 DEF NodeInv
<1> QED  BY <1>2, <1>10, <1>11, <1>12, NodeMoves

(* The Native process, and the Node process, stop and start: the journal and *)
(* the history stay.                                                         *)
LEMMA ProcessInv ==
  ASSUME LifecycleInv, ProcessExits \/ Terminate \/ NodeCrash \/ NodeRecover
  PROVE  LifecycleInv'
<1>1. TypeOK /\ NodeInv /\ (\A p \in Ops : OpOK(p)) /\ (\A y \in Executors : FrameOK(y))
    BY DEF LifecycleInv
<1>2. UNCHANGED <<epoch, op, lease, wk, net, row, io, effects, spawned, raced>>
    BY DEF ProcessExits, Terminate, NodeCrash, NodeRecover, coreVars
<1>3. nd' = nd \/ nd' = [pc |-> "free", op |-> "none"]
    BY DEF ProcessExits, Terminate, NodeCrash, NodeRecover, Release
<1>4. faults' \in 0..MaxFaults
    BY <1>1, FaultTypes DEF ProcessExits, Terminate, NodeCrash, NodeRecover, TypeOK
<1>5. drv' \in DriverState
  <2>1. drv \in DriverState
      BY <1>1 DEF TypeOK
  <2>2. CASE drv' = [drv EXCEPT !.proc = "exited"]
      BY <2>1, <2>2 DEF DriverState
  <2>3. CASE drv' = [drv EXCEPT !.proc = "exited", !.stop = TRUE]
      BY <2>1, <2>3, Zenon DEF DriverState
  <2>4. CASE drv' = [drv EXCEPT !.own = "unbound", !.session = FALSE, !.profile = FALSE]
      BY <2>1, <2>4, Zenon DEF DriverState
  <2>5. CASE drv' = [drv EXCEPT !.profile = TRUE]
      BY <2>1, <2>5 DEF DriverState
  <2>6. CASE drv' = [drv EXCEPT !.profile = TRUE, !.own = "restore", !.session = TRUE]
      BY <2>1, <2>6, Zenon DEF DriverState
  <2> QED  BY <2>2, <2>3, <2>4, <2>5, <2>6, Zenon DEF ProcessExits, Terminate, NodeCrash, NodeRecover
<1>6. TypeOK'
    BY <1>1, <1>2, <1>3, <1>4, <1>5 DEF TypeOK
<1>7. NodeInv'
    BY <1>1, <1>2, <1>3 DEF NodeInv, InDriver
<1>8. \A x \in Executors : Same(x) \/ Answered(x)
    BY <1>2 DEF Same
<1> QED  BY <1>2, <1>6, <1>7, <1>8, NodeMoves

-----------------------------------------------------------------------------
LEMMA StepInv == LifecycleInv /\ [Next]_vars => LifecycleInv'
<1> SUFFICES ASSUME LifecycleInv, [Next]_vars PROVE LifecycleInv'
    OBVIOUS
<1>1. ASSUME NEW o \in Ops, NEW k \in Kinds, Submit(o, k) PROVE LifecycleInv'
    BY <1>1, SubmitInv
<1>2. ASSUME NEW o \in Ops, NEW x \in Executors, ClaimWork(x, o) \/ CallerAdvance(x, o) PROVE LifecycleInv'
    BY <1>2, ClaimInv
<1>3. ASSUME NEW o \in Ops, LeaseExpires(o) PROVE LifecycleInv'
    BY <1>3, LeaseInv
<1>4. ASSUME NEW o \in Ops, ChallengeExpires(o) PROVE LifecycleInv'
    BY <1>4, ExpiryInv
<1>5. ASSUME NEW o \in Ops, NodeRefuse(o) \/ NodeExecute(o) \/ RequestLost(o) PROVE LifecycleInv'
    BY <1>5, RefuseInv, ExecuteInv, LossInv
<1>6. ASSUME NEW o \in Ops, NodeStep(o) PROVE LifecycleInv'
    BY <1>6, DriverInv, AcknowledgeInv, FailsInv, Zenon DEF NodeStep
<1>7. ASSUME NEW x \in Executors, FinishWork(x) \/ ExecutorDies(x) PROVE LifecycleInv'
    BY <1>7, LeaseInv
<1>8. ASSUME NEW x \in Executors, Begin(x) \/ Observe(x) \/ ObserveFails(x) PROVE LifecycleInv'
    BY <1>8, BeginInv, ObserveInv, ObserveFailsInv
<1>9. ASSUME NEW x \in Executors, Record(x) \/ RecordRefused(x) \/ SendExecute(x) PROVE LifecycleInv'
    BY <1>9, RecordInv, RecordRefusedInv, SendInv
<1>10. ASSUME NEW x \in Executors, NodeReconcile(x) \/ RecordReceipt(x) \/ ExchangeFails(x) PROVE LifecycleInv'
    BY <1>10, ReconcileInv, ReceiptInv, ExchangeFailsInv
<1>11. ASSUME EndpointRevised \/ ProcessExits \/ Terminate \/ NodeCrash \/ NodeRecover PROVE LifecycleInv'
    BY <1>11, LeaseInv, ProcessInv
<1>12. ASSUME UNCHANGED vars PROVE LifecycleInv'
    BY <1>12 DEF vars, LifecycleInv, TypeOK, NodeInv, OpOK, FrameOK, Closed, Dead, Outstanding
<1> QED  BY <1>1, <1>2, <1>3, <1>4, <1>5, <1>6, <1>7, <1>8, <1>9, <1>10, <1>11, <1>12, Zenon DEF Next

-----------------------------------------------------------------------------
(* The Native process                                                        *)

(* Between the acceptance of a request that launches a process and the       *)
(* launch there is no live one: it is known to have stopped, or no effect    *)
(* was ever journalled.                                                      *)
ProcessOK ==
  /\ drv.stop => drv.proc # "live"
  /\ drv.own = "restore" => drv.stop
  /\ drv.proc = "live" => \E o \in Ops : io[o] = "dispatched"
  /\ nd.pc \in {"begun", "intended", "dispatched"} /\ RestoresProcess(nd.op) => drv.proc # "live"
  /\ nd.pc = "authorized" => drv.proc # "live"

(* A permit is issued once: what it permits does not change afterwards.      *)
LEMMA PermitsStand ==
  ASSUME LifecycleInv, [Next]_vars, NEW o \in Ops, op[o].act # "none"
  PROVE  op'[o].act = op[o].act /\ op'[o].cap = op[o].cap
<1>1. op \in [Ops -> OpRecord] /\ \A p \in Ops : op[p] \in OpRecord
    BY DEF LifecycleInv, TypeOK
<1>2. ASSUME NEW p \in Ops, NEW k \in Kinds, Submit(p, k) PROVE op'[o] = op[o]
  <2>1. op[p].act = "none"
      BY <1>2 DEF Submit, LifecycleInv, OpOK
  <2> QED  BY <1>1, <1>2, <2>1 DEF Submit
<1>3. ASSUME NEW p \in Ops, NEW b \in BOOLEAN, op' = Failure(p, b)
      PROVE  op'[o].act = op[o].act /\ op'[o].cap = op[o].cap
    BY <1>1, <1>3 DEF Failure, OpRecord
<1>4. ASSUME NEW p \in Ops, ChallengeExpires(p) PROVE op'[o].act = op[o].act /\ op'[o].cap = op[o].cap
    BY <1>1, <1>4 DEF ChallengeExpires, OpRecord
<1>5. ASSUME NEW x \in Executors, wk[x].pc # "idle" PROVE wk[x].op \in Ops
    BY <1>5 DEF LifecycleInv, FrameOK
<1>6. ASSUME NEW x \in Executors, Begin(x) PROVE op'[o].act = op[o].act /\ op'[o].cap = op[o].cap
  <2>1. wk[x].op \in Ops
      BY <1>5, <1>6 DEF Begin
  <2>2. UNCHANGED op \/ IssueChallenge(x, wk[x].op)
      BY <1>6 DEF Begin
  <2> QED  BY <1>1, <2>1, <2>2 DEF IssueChallenge, OpRecord
<1>7. ASSUME NEW x \in Executors, ObserveFails(x) \/ RecordRefused(x) \/ ExchangeFails(x)
      PROVE  op'[o].act = op[o].act /\ op'[o].cap = op[o].cap
  <2>1. wk[x].op \in Ops
      BY <1>5, <1>7 DEF ObserveFails, RecordRefused, ExchangeFails
  <2>2. UNCHANGED op \/ op' = Failure(wk[x].op, FALSE) \/ op' = Failure(wk[x].op, TRUE)
      BY <1>7 DEF ObserveFails, RecordRefused, ExchangeFails
  <2> QED  BY <1>3, <2>1, <2>2
<1>8. ASSUME NEW x \in Executors, Record(x) PROVE op'[o] = op[o]
  <2>1. wk[x].op \in Ops
      BY <1>5, <1>8 DEF Record
  <2>2. op[wk[x].op].act = "none"
      BY <1>8 DEF Record, Possible
  <2> QED  BY <1>1, <1>8, <2>1, <2>2 DEF Record
<1>9. ASSUME NEW x \in Executors, RecordReceipt(x) PROVE op'[o].act = op[o].act /\ op'[o].cap = op[o].cap
  <2>1. PICK p \in Ops : p = wk[x].op
      BY <1>5, <1>9 DEF RecordReceipt
  <2>2. \/ op' = Failure(p, TRUE)
        \/ op' = [op EXCEPT ![p].state = "completed", ![p].phase = "settled"]
        \/ op' = [op EXCEPT ![p].state = "definitively_rejected", ![p].phase = "settled"]
        \/ op' = [op EXCEPT ![p].state = "unknown"]
      BY <1>9, <2>1, Zenon DEF RecordReceipt
  <2>3. CASE op' = Failure(p, TRUE)
      BY <1>3, <2>3
  <2>4. CASE op' = [op EXCEPT ![p].state = "completed", ![p].phase = "settled"]
      BY <1>1, <2>4 DEF OpRecord
  <2>5. CASE op' = [op EXCEPT ![p].state = "definitively_rejected", ![p].phase = "settled"]
      BY <1>1, <2>5 DEF OpRecord
  <2>6. CASE op' = [op EXCEPT ![p].state = "unknown"]
      BY <1>1, <2>6 DEF OpRecord
  <2> QED  BY <2>2, <2>3, <2>4, <2>5, <2>6
<1>10. ASSUME NEW x \in Executors,
              \/ FinishWork(x) \/ ExecutorDies(x) \/ Observe(x) \/ SendExecute(x) \/ NodeReconcile(x)
       PROVE  op'[o] = op[o]
    BY <1>10 DEF FinishWork, ExecutorDies, Observe, SendExecute, NodeReconcile, coreVars
<1>11. ASSUME NEW p \in Ops,
              \/ \E x \in Executors : ClaimWork(x, p) \/ CallerAdvance(x, p)
              \/ LeaseExpires(p) \/ NodeRefuse(p) \/ NodeExecute(p) \/ RequestLost(p)
       PROVE  op'[o] = op[o]
    BY <1>11 DEF ClaimWork, CallerAdvance, LeaseExpires, NodeRefuse, NodeExecute, RequestLost, coreVars
<1>12. ASSUME NEW p \in Ops, NodeStep(p) PROVE op'[o] = op[o]
    BY <1>12 DEF NodeStep, NodeIntend, NodeDispatch, NodeAuthorizeLaunch, NodeLaunch, NodeStartThread,
                 NodeResumeThread, NodeAcknowledge, NodeFails, coreVars
<1>13. ASSUME EndpointRevised \/ ProcessExits \/ Terminate \/ NodeCrash \/ NodeRecover \/ UNCHANGED vars
       PROVE  op'[o] = op[o]
    BY <1>13 DEF EndpointRevised, ProcessExits, Terminate, NodeCrash, NodeRecover, coreVars, vars
<1> QED  BY <1>2, <1>4, <1>6, <1>7, <1>8, <1>9, <1>10, <1>11, <1>12, <1>13, Zenon DEF Next

(* A step outside the Driver.                                                *)
LEMMA OutsideDriver ==
  ASSUME LifecycleInv, ProcessOK, [Next]_vars, UNCHANGED <<nd, io, drv>>
  PROVE  ProcessOK'
<1>1. nd.pc # "free" => nd.op \in Ops /\ op[nd.op].act # "none"
    BY DEF LifecycleInv, NodeInv
<1>2. nd.pc # "free" => op'[nd.op].act = op[nd.op].act /\ op'[nd.op].cap = op[nd.op].cap
    BY <1>1, PermitsStand
<1> QED  BY <1>2 DEF ProcessOK, RestoresProcess

(* The Node accepts a request to launch only where its own evidence excludes *)
(* a live process.                                                           *)
LEMMA AcceptanceExcludes ==
  ASSUME LifecycleInv, ProcessOK, NEW o \in Ops, NodeExecute(o), RestoresProcess(o)
  PROVE  drv.proc # "live"
<1>1. op[o].cap \in Capacities /\ o \in net
    BY DEF NodeExecute
<1>2. op[o].act = "spawn" => op[o].cap = "fresh"
    BY DEF LifecycleInv, OpOK
<1>3. CASE op[o].cap = "stopped"
  <2>1. drv.own = "restore" \/ drv.proc = "exited"
      BY <1>1, <1>3 DEF Capacities
  <2> QED  BY <2>1 DEF ProcessOK
<1>4. CASE op[o].cap = "fresh"
  <2>1. ~PriorEffect
      BY <1>1, <1>4 DEF Capacities
  <2> QED  BY <2>1 DEF ProcessOK, PriorEffect
<1> QED  BY <1>2, <1>3, <1>4 DEF RestoresProcess

LEMMA InsideDriver ==
  ASSUME LifecycleInv, ProcessOK, NEW o \in Ops, NodeExecute(o) \/ NodeStep(o)
  PROVE  ProcessOK'
<1>1. /\ drv \in DriverState /\ io \in [Ops -> {"none", "intended", "dispatched"}]
      /\ nd \in [pc : {"free", "begun", "intended", "dispatched", "authorized", "launched", "threading"},
                 op : Ops \cup {"none"}]
    BY DEF LifecycleInv, TypeOK
<1>2. nd.pc \in InDriver => nd.op \in Ops /\ io[nd.op] = "dispatched"
    BY DEF LifecycleInv, NodeInv, InDriver
<1>3. CASE NodeExecute(o)
  <2>1. UNCHANGED <<op, io, drv>> /\ nd' = [pc |-> "begun", op |-> o]
      BY <1>3 DEF NodeExecute, coreVars
  <2>2. RestoresProcess(o)' => drv'.proc # "live"
      BY <1>3, <2>1, AcceptanceExcludes DEF RestoresProcess
  <2> QED  BY <2>1, <2>2 DEF ProcessOK
<1>4. CASE NodeIntend(o) \/ NodeDispatch(o)
  <2>1. /\ UNCHANGED <<op, drv>> /\ nd'.op = nd.op /\ nd.pc \in {"begun", "intended"}
        /\ nd'.pc \in {"intended", "dispatched"}
        /\ io' = [io EXCEPT ![o] = "intended"] \/ io' = [io EXCEPT ![o] = "dispatched"]
        /\ nd.op = o
      BY <1>1, <1>4 DEF NodeIntend, NodeDispatch, coreVars
  <2>2. drv.proc = "live" => \E p \in Ops : io'[p] = "dispatched"
    <3> SUFFICES ASSUME drv.proc = "live" PROVE \E p \in Ops : io'[p] = "dispatched"
        OBVIOUS
    <3>1. PICK p \in Ops : io[p] = "dispatched"
        BY DEF ProcessOK
    <3>2. p # o
        BY <2>1, <3>1 DEF LifecycleInv, NodeInv
    <3> QED  BY <1>1, <2>1, <3>1, <3>2
  <2> QED  BY <2>1, <2>2 DEF ProcessOK, RestoresProcess
<1>5. CASE NodeAuthorizeLaunch(o)
  <2>1. /\ UNCHANGED <<op, io, drv>> /\ nd.pc = "dispatched" /\ nd.op = o /\ nd'.pc = "authorized"
        /\ RestoresProcess(o)
      BY <1>1, <1>5 DEF NodeAuthorizeLaunch, coreVars
  <2> QED  BY <2>1 DEF ProcessOK
<1>6. CASE NodeLaunch(o)
  <2>1. /\ UNCHANGED io /\ nd.pc = "authorized" /\ nd'.pc = "launched"
        /\ drv' = [drv EXCEPT !.own = "owned", !.proc = "live", !.inc = @ + 1, !.stop = FALSE]
      BY <1>1, <1>6 DEF NodeLaunch
  <2>2. drv'.own = "owned" /\ drv'.stop = FALSE
      BY <1>1, <2>1 DEF DriverState
  <2> QED  BY <1>2, <2>1, <2>2 DEF ProcessOK, InDriver
<1>7. CASE NodeStartThread(o) \/ NodeResumeThread(o)
  <2>1. UNCHANGED <<io, drv>> /\ nd'.pc = "threading"
      BY <1>1, <1>7 DEF NodeStartThread, NodeResumeThread
  <2> QED  BY <2>1 DEF ProcessOK
<1>8. CASE NodeAcknowledge(o) \/ NodeFails(o)
  <2>1. UNCHANGED io /\ nd'.pc = "free" /\ (UNCHANGED drv \/ drv' = [drv EXCEPT !.session = TRUE])
      BY <1>8 DEF NodeAcknowledge, NodeFails, Release
  <2>2. drv'.stop = drv.stop /\ drv'.own = drv.own /\ drv'.proc = drv.proc
      BY <1>1, <2>1 DEF DriverState
  <2> QED  BY <2>1, <2>2 DEF ProcessOK
<1> QED  BY <1>3, <1>4, <1>5, <1>6, <1>7, <1>8 DEF NodeStep

LEMMA ProcessMoves ==
  ASSUME LifecycleInv, ProcessOK, ProcessExits \/ Terminate \/ NodeCrash \/ NodeRecover
  PROVE  ProcessOK'
<1>1. drv \in DriverState /\ UNCHANGED <<op, io>>
    BY DEF LifecycleInv, TypeOK, ProcessExits, Terminate, NodeCrash, NodeRecover, coreVars
<1>2. CASE ProcessExits
  <2>1. UNCHANGED nd /\ drv'.proc = "exited" /\ drv'.own = drv.own /\ drv'.stop = drv.stop
      BY <1>1, <1>2 DEF ProcessExits, DriverState
  <2> QED  BY <1>1, <2>1 DEF ProcessOK
<1>3. CASE Terminate
  <2>1. UNCHANGED nd /\ drv'.proc = "exited" /\ drv'.own = drv.own /\ drv'.stop = TRUE
      BY <1>1, <1>3 DEF Terminate, DriverState
  <2> QED  BY <1>1, <2>1 DEF ProcessOK
<1>4. CASE NodeCrash
  <2>1. nd'.pc = "free" /\ drv'.proc = drv.proc /\ drv'.own = "unbound" /\ drv'.stop = drv.stop
      BY <1>1, <1>4 DEF NodeCrash, Release, DriverState
  <2> QED  BY <1>1, <2>1 DEF ProcessOK
<1>5. CASE NodeRecover
  <2>1. /\ UNCHANGED nd /\ drv'.proc = drv.proc /\ drv'.stop = drv.stop
        /\ drv'.own = drv.own \/ drv.stop
      BY <1>1, <1>5 DEF NodeRecover, DriverState
  <2> QED  BY <1>1, <2>1 DEF ProcessOK, RestoresProcess
<1> QED  BY <1>2, <1>3, <1>4, <1>5

LEMMA ProcessStep == LifecycleInv /\ ProcessOK /\ [Next]_vars => ProcessOK'
<1> SUFFICES ASSUME LifecycleInv, ProcessOK, [Next]_vars PROVE ProcessOK'
    OBVIOUS
<1>1. ASSUME NEW o \in Ops, NodeExecute(o) \/ NodeStep(o) PROVE ProcessOK'
    BY <1>1, InsideDriver
<1>2. ASSUME ProcessExits \/ Terminate \/ NodeCrash \/ NodeRecover PROVE ProcessOK'
    BY <1>2, ProcessMoves
<1>3. ASSUME NEW x \in Executors,
             \/ FinishWork(x) \/ ExecutorDies(x) \/ Begin(x) \/ Observe(x) \/ ObserveFails(x)
             \/ Record(x) \/ RecordRefused(x) \/ SendExecute(x) \/ NodeReconcile(x)
             \/ RecordReceipt(x) \/ ExchangeFails(x)
      PROVE  UNCHANGED <<nd, io, drv>>
    BY <1>3 DEF FinishWork, ExecutorDies, Begin, Observe, ObserveFails, Record, RecordRefused, SendExecute,
                NodeReconcile, RecordReceipt, ExchangeFails, nodeVars
<1>4. ASSUME NEW o \in Ops,
             \/ \E k \in Kinds : Submit(o, k)
             \/ \E x \in Executors : ClaimWork(x, o) \/ CallerAdvance(x, o)
             \/ LeaseExpires(o) \/ ChallengeExpires(o) \/ NodeRefuse(o) \/ RequestLost(o)
      PROVE  UNCHANGED <<nd, io, drv>>
    BY <1>4 DEF Submit, ClaimWork, CallerAdvance, LeaseExpires, ChallengeExpires, NodeRefuse, RequestLost, nodeVars
<1>5. ASSUME EndpointRevised \/ UNCHANGED vars PROVE UNCHANGED <<nd, io, drv>>
    BY <1>5 DEF EndpointRevised, vars, nodeVars
<1> QED  BY <1>1, <1>2, <1>3, <1>4, <1>5, OutsideDriver, Zenon DEF Next

-----------------------------------------------------------------------------
(* The theorems                                                              *)

(* Whatever executors die, requests are lost or copied, leases expire and    *)
(* Node processes restart, the journal is ahead of the Native at every step  *)
(* of the Driver, a request is held by one executor before it is sent, and   *)
(* an answer that a waiting executor holds is borne out by the journal.      *)
THEOREM LifecycleInvariant == Spec => []LifecycleInv
BY InitInv, StepInv, PTL DEF Spec

(* An accepted operation performs at most one Native mutation, for any       *)
(* number of operations, executors and faults: its row leaves "none" once,   *)
(* and the row is an intent until the mutation is journalled as dispatched.  *)
THEOREM OneEffectAlways == Spec => []OneEffect
<1>1. LifecycleInv => OneEffect
    BY DEF LifecycleInv, NodeInv, OneEffect
<1> QED  BY <1>1, LifecycleInvariant, PTL

(* At most one operation ever creates a Native session for the endpoint, and *)
(* no process is launched beside a live one: the Node enters the Driver to   *)
(* spawn only while no journalled effect exists, and to restore a session    *)
(* only when it saw the process exit or its journal holds the stop.          *)
THEOREM OneSessionAlways == Spec => []OneSession
<1>1. LifecycleInv /\ ProcessOK => OneSession
  <2> SUFFICES ASSUME LifecycleInv, ProcessOK PROVE Cardinality(spawned) <= 1
      BY DEF OneSession, ProcessOK
  <2>1. \A o, p \in spawned : o = p
      BY DEF LifecycleInv, NodeInv
  <2>2. CASE spawned = {}
      BY <2>2, FS_EmptySet
  <2>3. CASE spawned # {}
    <3>1. PICK o : o \in spawned
        BY <2>3
    <3>2. spawned = {o}
        BY <2>1, <3>1
    <3>3. Cardinality({o}) = 1
        BY FS_Singleton
    <3> QED  BY <3>2, <3>3
  <2> QED  BY <2>2, <2>3
<1>2. Init => ProcessOK
    BY DEF Init, ProcessOK
<1>3. LifecycleInv /\ ProcessOK /\ [Next]_vars => ProcessOK'
    BY ProcessStep
<1> QED  BY <1>1, <1>2, <1>3, LifecycleInvariant, PTL DEF Spec

(* What an operation is settled as is true of the Native: "completed" after  *)
(* a permit only with the acknowledgement in the journal, and                *)
(* "definitively_rejected" only when nothing was or will be done, unless a   *)
(* readback overtook the execute request of the same permit.                 *)
THEOREM SettledReportsHold == Spec => []ReportsAreTrue
<1>1. LifecycleInv => ReportsAreTrue
  <2> SUFFICES ASSUME LifecycleInv PROVE ReportsAreTrue
      OBVIOUS
  <2>1. CompletedHasEvidence
      BY DEF LifecycleInv, OpOK, CompletedHasEvidence
  <2>2. RejectionHoldsUnlessRaced
      BY DEF LifecycleInv, OpOK, Closed, Dead, RejectionHoldsUnlessRaced
  <2> QED  BY <2>1, <2>2 DEF ReportsAreTrue
<1> QED  BY <1>1, LifecycleInvariant, PTL

===========================================================================
