-------------------------- MODULE Recovery_proofs --------------------------
(* Proofs about Recovery for any number of incidents, packets, responses,    *)
(* commands and calls.  Happened says what the result of a command claims;   *)
(* it stays true, since records are written once and settled incidents do    *)
(* not move (Later).  CallInv and ClaimInv use it for results on their way   *)
(* to a claim and for completed claims, and BridgeInv relates incidents,     *)
(* packets, confirmations and receipts.                                      *)
EXTENDS Recovery, TLAPS

Settled == {"resolved_automatic", "resolved_manual", "expired", "cancelled"}

Happened(c, out) ==
  /\ out \in Results
  /\ c.op = "open" => incident[c.of].state # "none"
  /\ c.op = "request" => request[c.of] = c
  /\ c.op = "receive" => out = packet[c.of]
  /\ c.op = "confirm" => incident[PacketOf[c.of]].state = "resolved_manual"
  /\ c.op = "expire" => out = incident[c.of].state /\ out \in Settled
  /\ c.op = "reprobe" /\ out = "resolved_automatic" => incident[c.of].state = "resolved_automatic"
  /\ c.op = "project" => out = shown[c.of]
  /\ c.op = "consume" => consumer[c.of] = c

Stored == {"open", "project", "consume"}

CallInv ==
  \A k \in Calls :
    /\ call[k].pc # "idle" /\ call[k].cmd.op \notin Stored => incident[IncidentOf(call[k].cmd)].state # "none"
    /\ call[k].pc \in {"acted", "answered"} => Happened(call[k].cmd, call[k].out)
    /\ call[k].pc = "answered" => claim[call[k].cmd] = call[k].out

ClaimInv == \A c \in Commands : claim[c] # "none" => Happened(c, claim[c])

BridgeInv ==
  /\ \A i \in Incidents :
       /\ incident[i].state \in {"none", "open", "human_requested"} => incident[i].packet = Nothing
       /\ incident[i].state \in {"manual_packet_committed", "resolved_manual"} => incident[i].packet # Nothing
       /\ incident[i].packet # Nothing => PacketOf[incident[i].packet] = i
  /\ \A p \in Packets : packet[p] = "committed" <=> incident[PacketOf[p]].packet = p
  /\ \A l \in Layers : confirmed[l] # Nothing => incident[PacketOf[confirmed[l]]].state = "resolved_manual"
  /\ \A l \in Layers : receipt[l].by = "native" => receipt[l].of = Nothing
  /\ ResolvedByItsReceipt

RecoveryInv == TypeOK /\ CallInv /\ ClaimInv /\ BridgeInv /\ DispositionsAgree


(* What no step takes back.                                                  *)
Later ==
  /\ \A i \in Incidents :
       /\ incident[i].state # "none" => incident'[i].state # "none"
       /\ incident[i].state \in Settled => incident'[i].state = incident[i].state
       /\ request[i] # Nothing => request'[i] = request[i]
  /\ \A p \in Packets : packet[p] # "none" => packet'[p] = packet[p]
  /\ \A r \in Responses :
       /\ shown[r] # "none" => shown'[r] = shown[r]
       /\ consumer[r] # Nothing => consumer'[r] = consumer[r]

(* The part of TypeOK that an action of the service may change.              *)
StoreTypes ==
  /\ incident \in [Incidents -> IncidentRow]
  /\ request \in [Incidents -> Commands \cup {Nothing}]
  /\ probe \in [Commands -> {"none", "observed", "fenced_late"}]
  /\ packet \in [Packets -> {"none", "committed", "fenced_late"}]
  /\ confirmed \in [Layers -> Packets \cup {Nothing}]
  /\ receipt \in [Layers -> ReceiptRow]
  /\ message \in {"uncertain", "delivered"}
  /\ shown \in [Responses -> Dispositions \cup {"none"}]
  /\ consumer \in [Responses -> Commands \cup {Nothing}]

(* A step of the workflow or none.                                           *)
WorkflowStep == [Workflow!Next]_<<[i \in Incidents |-> incident[i].state],
                                  {p \in Packets : packet[p] = "committed"}>>

-----------------------------------------------------------------------------
(* Commands, results and calls                                               *)

LEMMA CommandTypes ==
  ASSUME NEW c \in Commands
  PROVE  /\ c # Nothing /\ c.op \in Ops
         /\ c.op \in {"receive", "confirm"} => c.of \in Packets /\ IncidentOf(c) = PacketOf[c.of]
         /\ c.op \in {"project", "consume"} => c.of \in Responses
         /\ c.op \in {"open", "request", "reprobe", "expire"} => c.of \in Incidents /\ IncidentOf(c) = c.of
         /\ c.op \notin {"project", "consume"} => IncidentOf(c) \in Incidents
BY RecoveryAssumption DEF IncidentOf, Ops

LEMMA InitInv == Init => RecoveryInv
<1> SUFFICES ASSUME Init PROVE RecoveryInv
    OBVIOUS
<1> USE RecoveryAssumption DEF Init
<1>1. TypeOK
  <2>1. Idle \in Executions /\ NoIncident \in IncidentRow /\ NoReceipt \in ReceiptRow
      BY DEF Idle, Executions, NoIncident, IncidentRow, NoReceipt, ReceiptRow
  <2>2. Idle.cmd = Nothing /\ Idle.pc = "idle"
      BY DEF Idle
  <2> QED  BY <2>1, <2>2 DEF TypeOK
<1>2. CallInv /\ ClaimInv /\ DispositionsAgree
    BY DEF CallInv, Idle, ClaimInv, DispositionsAgree, Dispositions
<1>3. BridgeInv
    BY DEF BridgeInv, NoIncident, NoReceipt, ResolvedByItsReceipt
<1> QED  BY <1>1, <1>2, <1>3 DEF RecoveryInv

(* What happened stays so.                                                   *)
LEMMA HappenedStays ==
  ASSUME NEW c \in Commands, NEW out, Happened(c, out), Later, StoreTypes
  PROVE  Happened(c, out)'
<1>1. out # "none"
    BY DEF Happened, Results, IncidentStates, Dispositions
<1>2. c.op = "request" => c.of \in Incidents /\ request[c.of] # Nothing
    BY CommandTypes DEF Happened
<1>3. c.op = "consume" => c.of \in Responses /\ consumer[c.of] # Nothing
    BY CommandTypes DEF Happened
<1>4. c.op = "confirm" => PacketOf[c.of] \in Incidents
    BY CommandTypes
<1> QED  BY <1>1, <1>2, <1>3, <1>4, CommandTypes DEF Happened, Later, Settled

LEMMA ClaimsStand ==
  ASSUME ClaimInv, Later, StoreTypes, UNCHANGED claim
  PROVE  ClaimInv'
BY HappenedStays DEF ClaimInv

(* The other calls, and a call that goes on with what happened.              *)
LEMMA CallsStand ==
  ASSUME RecoveryInv, Later, NEW k \in Calls,
         call' \in [Calls -> Executions],
         \A j \in Calls \ {k} : call'[j] = call[j],
         \A c \in Commands : claim[c] # "none" => claim'[c] = claim[c],
         call'[k].pc # "idle" => call'[k].cmd \in Commands,
         call'[k].pc # "idle" /\ call'[k].cmd.op \notin Stored =>
           incident'[IncidentOf(call'[k].cmd)].state # "none",
         call'[k].pc \in {"acted", "answered"} => Happened(call[k].cmd, call[k].out)',
         call'[k].pc = "answered" => claim'[call'[k].cmd] = call'[k].out
  PROVE  CallInv'
<1> USE DEF RecoveryInv
<1>0. StoreTypes
    BY DEF TypeOK, StoreTypes
<1> SUFFICES ASSUME NEW j \in Calls
             PROVE  /\ call'[j].pc # "idle" /\ call'[j].cmd.op \notin Stored =>
                         incident'[IncidentOf(call'[j].cmd)].state # "none"
                    /\ call'[j].pc \in {"acted", "answered"} => Happened(call[j].cmd, call[j].out)'
                    /\ call'[j].pc = "answered" => claim'[call'[j].cmd] = call'[j].out
    BY DEF CallInv, IncidentOf
<1>1. CASE j = k
    BY <1>1
<1>2. CASE j # k
  <2>1. call'[j] = call[j]
      BY <1>2
  <2>2. CASE call[j].pc = "idle"
      BY <2>1, <2>2
  <2>3. CASE call[j].pc # "idle"
    <3>1. PICK c \in Commands : c = call[j].cmd
        BY <2>3 DEF TypeOK, Executions
    <3>2. PICK out \in Results \cup {"none"} : out = call[j].out
        BY DEF TypeOK, Executions
    <3>3. c.op \notin Stored => incident'[IncidentOf(c)].state # "none"
        BY <2>3, <3>1, CommandTypes DEF CallInv, Later, Stored
    <3>4. call[j].pc \in {"acted", "answered"} => Happened(c, out)
        BY <3>1, <3>2 DEF CallInv
    <3>5. call[j].pc \in {"acted", "answered"} => Happened(c, out)' /\ out # "none"
        BY <1>0, <3>4, HappenedStays DEF Happened, Results, IncidentStates, Dispositions
    <3>6. call[j].pc \in {"acted", "answered"} => Happened(call[j].cmd, call[j].out)'
        BY <2>1, <3>1, <3>2, <3>5 DEF Happened
    <3>7. call[j].pc = "answered" => claim[c] = out
        BY <3>1, <3>2 DEF CallInv
    <3> QED  BY <2>1, <3>1, <3>2, <3>3, <3>5, <3>6, <3>7
  <2> QED  BY <2>2, <2>3
<1> QED  BY <1>1, <1>2

(* A call that acts: what it claims has happened, and nothing is taken back. *)
LEMMA ActInv ==
  ASSUME RecoveryInv, NEW k \in Calls, NEW op, NEW c, c = call[k].cmd, NEW out,
         Acts(k, op, out), Later, StoreTypes', Happened(c, out)', BridgeInv'
  PROVE  RecoveryInv'
<1> USE DEF RecoveryInv
<1>0. call[k] \in Executions /\ call[k].pc = "reserved" /\ c \in Commands /\ out \in Results
    BY DEF TypeOK, Acts, Executions, Happened
<1>1. call' = [call EXCEPT ![k].pc = "acted", ![k].out = out] /\ UNCHANGED <<claim, observed, late, plan>>
    BY DEF Acts, outside
<1>2. call'[k] = [pc |-> "acted", cmd |-> c, out |-> out]
    BY <1>0, <1>1 DEF TypeOK, Executions
<1>3. call' \in [Calls -> Executions] /\ \A j \in Calls \ {k} : call'[j] = call[j]
  <2>1. call'[k] \in Executions
      BY <1>0, <1>2 DEF Executions
  <2> QED  BY <1>1, <2>1 DEF TypeOK
<1>4. c # Nothing
    BY <1>0, CommandTypes
<1>5. \A j \in Calls : call'[j].cmd = Nothing <=> call'[j].pc = "idle"
    BY <1>2, <1>3, <1>4 DEF TypeOK
<1>6. TypeOK'
    BY <1>1, <1>3, <1>5 DEF TypeOK, StoreTypes
<1>7. StoreTypes
    BY DEF TypeOK, StoreTypes
<1>8. ClaimInv'
    BY <1>1, <1>7, ClaimsStand
<1>9. CallInv'
  <2>1. c.op \notin Stored => incident'[IncidentOf(c)].state # "none"
      BY <1>0, CommandTypes DEF CallInv, Later, Stored
  <2>2. Happened(call[k].cmd, call[k].out)'
      BY <1>2 DEF Happened
  <2> QED  BY <1>0, <1>1, <1>2, <1>3, <2>1, <2>2, CallsStand
<1>10. DispositionsAgree'
    BY <1>1 DEF DispositionsAgree, Later, Dispositions, StoreTypes, TypeOK
<1> QED  BY <1>6, <1>8, <1>9, <1>10

(* Results of calls that find everything stored.                             *)
LEMMA NothingNew ==
  ASSUME RecoveryInv, UNCHANGED <<bridge, response>>
  PROVE  Later /\ StoreTypes' /\ BridgeInv' /\ WorkflowStep
<1> USE DEF RecoveryInv, bridge, response
<1>1. Later /\ StoreTypes'
    BY DEF Later, StoreTypes, TypeOK
<1>2. BridgeInv'
    BY DEF BridgeInv, ResolvedByItsReceipt
<1>3. WorkflowStep
    BY DEF WorkflowStep
<1> QED  BY <1>1, <1>2, <1>3

LEMMA BridgeKept ==
  ASSUME BridgeInv, UNCHANGED <<incident, packet, confirmed, receipt>>
  PROVE  BridgeInv' /\ WorkflowStep
<1>1. BridgeInv'
    BY DEF BridgeInv, ResolvedByItsReceipt
<1>2. WorkflowStep
    BY DEF WorkflowStep
<1> QED  BY <1>1, <1>2

(* Where an incident moves.                                                  *)
LEMMA MovedTo ==
  ASSUME TypeOK, NEW i \in Incidents, NEW s \in IncidentStates \cup {"none"}, Move(i, s)
  PROVE  /\ incident' \in [Incidents -> IncidentRow]
         /\ incident'[i].state = s /\ incident'[i].packet = incident[i].packet
         /\ \A j \in Incidents \ {i} : incident'[j] = incident[j]
<1>1. incident[i] \in IncidentRow /\ incident' = [incident EXCEPT ![i].state = s]
    BY DEF TypeOK, Move
<1>2. incident'[i] = [state |-> s, packet |-> incident[i].packet]
    BY <1>1 DEF TypeOK, IncidentRow
<1>3. incident'[i] \in IncidentRow
    BY <1>1, <1>2 DEF IncidentRow
<1> QED  BY <1>1, <1>2, <1>3 DEF TypeOK

(* An incident that is not resolved by hand may move anywhere but there.     *)
LEMMA BridgeMoves ==
  ASSUME RecoveryInv, NEW i \in Incidents, NEW s \in IncidentStates \ {"manual_packet_committed", "resolved_manual"},
         Move(i, s), UNCHANGED <<packet, confirmed, receipt>>, incident[i].state # "resolved_manual",
         s \in {"none", "open", "human_requested"} => incident[i].packet = Nothing
  PROVE  BridgeInv'
<1> USE DEF RecoveryInv
<1>1. /\ incident'[i].state = s /\ incident'[i].packet = incident[i].packet
      /\ \A j \in Incidents \ {i} : incident'[j] = incident[j]
    BY MovedTo
<1>2. \A j \in Incidents : incident'[j].packet = incident[j].packet
    BY <1>1
<1>3. \A l \in Layers : confirmed[l] # Nothing => confirmed[l] \in Packets /\ PacketOf[confirmed[l]] # i
    BY DEF BridgeInv, TypeOK
<1>4. \A p \in Packets : PacketOf[p] \in Incidents
    BY RecoveryAssumption
<1>5. ResolvedByItsReceipt'
    BY <1>1 DEF BridgeInv, ResolvedByItsReceipt
<1> QED  BY <1>1, <1>2, <1>3, <1>4, <1>5 DEF BridgeInv

(* The view of the workflow after a move.                                    *)
LEMMA WorkflowMoves ==
  ASSUME TypeOK, NEW i \in Incidents, NEW s \in IncidentStates, Move(i, s), UNCHANGED packet,
         \/ s = incident[i].state
         \/ /\ s = "open" /\ incident[i].state = "none"
            /\ \A j \in Incidents : incident[j].state \notin ActiveStates
         \/ s = "human_requested" /\ incident[i].state = "open"
         \/ s = "resolved_automatic" /\ incident[i].state \in {"open", "human_requested"}
         \/ s = "expired" /\ incident[i].state \in ActiveStates
  PROVE  WorkflowStep
<1> DEFINE st == [j \in Incidents |-> incident[j].state]
<1>1. [j \in Incidents |-> incident'[j].state] = [st EXCEPT ![i] = s]
    BY MovedTo
<1>2. {p \in Packets : packet'[p] = "committed"} = {p \in Packets : packet[p] = "committed"}
    OBVIOUS
<1>3. CASE s = incident[i].state
  <2>1. [st EXCEPT ![i] = s] = st
      BY <1>3
  <2> QED  BY <1>1, <1>2, <2>1 DEF WorkflowStep
<1>4. CASE s # incident[i].state
  <2>1. Workflow!Open(i) \/ Workflow!Request(i) \/ Workflow!Restore(i) \/ Workflow!Expire(i)
      BY <1>1, <1>2, <1>4 DEF Workflow!Open, Workflow!Request, Workflow!Restore, Workflow!Expire,
           Workflow!Step, Workflow!Active, ActiveStates
  <2> QED  BY <2>1 DEF WorkflowStep, Workflow!Next
<1> QED  BY <1>3, <1>4

-----------------------------------------------------------------------------
(* The incident commands                                                     *)

LEMMA OpenInv ==
  ASSUME RecoveryInv, NEW k \in Calls, NEW ok, OpenIncident(k, ok)
  PROVE  RecoveryInv' /\ WorkflowStep
<1> USE DEF RecoveryInv
<1>0. Acts(k, "open", "open") /\ call[k].cmd # Nothing /\ call[k].cmd.op = "open"
    BY DEF OpenIncident, Acts, TypeOK
<1>1. PICK c \in Commands : c = call[k].cmd
    BY <1>0 DEF TypeOK, Executions
<1>2. PICK i \in Incidents : i = c.of /\ i = IncidentOf(c)
    BY <1>0, <1>1, CommandTypes
<1>3. "open" \in Results /\ UNCHANGED <<request, probe, packet, confirmed, response>>
    BY DEF OpenIncident, Results, IncidentStates
<1>4. CASE incident[i].state # "none"
  <2>1. UNCHANGED <<bridge, response>>
      BY <1>1, <1>2, <1>3, <1>4 DEF OpenIncident, bridge
  <2>2. Happened(c, "open")'
      BY <1>0, <1>1, <1>2, <1>3, <1>4, <2>1 DEF Happened, bridge
  <2> QED  BY <1>0, <1>1, <2>1, <2>2, ActInv, NothingNew
<1>5. CASE incident[i].state = "none"
  <2>1. Move(i, "open") /\ \A j \in Incidents : incident[j].state \notin ActiveStates
      BY <1>1, <1>2, <1>5 DEF OpenIncident
  <2>2. /\ incident' \in [Incidents -> IncidentRow] /\ incident'[i].state = "open"
        /\ \A j \in Incidents \ {i} : incident'[j] = incident[j]
      BY <2>1, MovedTo DEF IncidentStates
  <2>3. Later /\ StoreTypes'
      BY <1>3, <1>5, <2>2 DEF Later, StoreTypes, TypeOK, response, Settled
  <2>4. Happened(c, "open")'
      BY <1>0, <1>1, <1>2, <1>3, <2>2 DEF Happened
  <2>5. BridgeInv'
    <3>1. incident[i].packet = Nothing
        BY <1>5 DEF BridgeInv
    <3> QED  BY <1>3, <1>5, <2>1, <3>1, BridgeMoves DEF response, IncidentStates
  <2>6. WorkflowStep
      BY <1>3, <1>5, <2>1, WorkflowMoves DEF IncidentStates
  <2> QED  BY <1>0, <1>1, <2>3, <2>4, <2>5, <2>6, ActInv
<1> QED  BY <1>4, <1>5

LEMMA RequestInv ==
  ASSUME RecoveryInv, NEW k \in Calls, NEW ok, RequestHuman(k, ok)
  PROVE  RecoveryInv' /\ WorkflowStep
<1> USE DEF RecoveryInv
<1>0. Acts(k, "request", "human_requested") /\ call[k].cmd # Nothing /\ call[k].cmd.op = "request"
    BY DEF RequestHuman, Acts, TypeOK
<1>1. PICK c \in Commands : c = call[k].cmd
    BY <1>0 DEF TypeOK, Executions
<1>2. PICK i \in Incidents : i = c.of /\ i = IncidentOf(c)
    BY <1>0, <1>1, CommandTypes
<1>3. "human_requested" \in Results /\ UNCHANGED <<probe, packet, confirmed, response>>
    BY DEF RequestHuman, Results, IncidentStates
<1>4. CASE request[i] = c /\ UNCHANGED <<incident, request>>
  <2>1. UNCHANGED <<bridge, response>>
      BY <1>3, <1>4 DEF bridge
  <2>2. Happened(c, "human_requested")'
      BY <1>0, <1>1, <1>2, <1>3, <1>4 DEF Happened
  <2> QED  BY <1>0, <1>1, <2>1, <2>2, ActInv, NothingNew
<1>5. CASE /\ request[i] = Nothing /\ incident[i].state = "open"
           /\ request' = [request EXCEPT ![i] = c] /\ Move(i, "human_requested")
  <2>2. /\ incident' \in [Incidents -> IncidentRow] /\ incident'[i].state = "human_requested"
        /\ \A j \in Incidents \ {i} : incident'[j] = incident[j]
      BY <1>5, MovedTo DEF IncidentStates
  <2>3. Later /\ StoreTypes'
      BY <1>3, <1>5, <2>2 DEF Later, StoreTypes, TypeOK, response, Settled
  <2>4. Happened(c, "human_requested")'
      BY <1>0, <1>1, <1>2, <1>3, <1>5 DEF Happened, TypeOK
  <2>5. BridgeInv'
    <3>1. incident[i].packet = Nothing
        BY <1>5 DEF BridgeInv
    <3> QED  BY <1>3, <1>5, <3>1, BridgeMoves DEF response, IncidentStates
  <2>6. WorkflowStep
      BY <1>3, <1>5, WorkflowMoves DEF IncidentStates
  <2> QED  BY <1>0, <1>1, <2>3, <2>4, <2>5, <2>6, ActInv
<1> QED  BY <1>1, <1>2, <1>4, <1>5 DEF RequestHuman

LEMMA ReprobeAgainInv ==
  ASSUME RecoveryInv, NEW k \in Calls, ReprobeAgain(k)
  PROVE  RecoveryInv' /\ WorkflowStep
<1> USE DEF RecoveryInv
<1>0. call[k].cmd # Nothing /\ call[k].pc = "reserved" /\ call[k].cmd.op = "reprobe"
    BY DEF ReprobeAgain, Acts
<1>1. PICK c \in Commands : c = call[k].cmd
    BY <1>0 DEF TypeOK, Executions
<1>2. PICK i \in Incidents : i = c.of /\ i = IncidentOf(c)
    BY <1>0, <1>1, CommandTypes
<1>3. PICK out : out = IF probe[c] = "fenced_late" THEN "fenced_late" ELSE incident[i].state
    OBVIOUS
<1>4. Acts(k, "reprobe", out) /\ UNCHANGED <<bridge, response>>
    BY <1>1, <1>2, <1>3 DEF ReprobeAgain
<1>5. incident[i].state # "none"
    BY <1>0, <1>1, <1>2 DEF CallInv, Stored
<1>6. out \in Results /\ (out = "resolved_automatic" => incident[i].state = "resolved_automatic")
    BY <1>3, <1>5 DEF TypeOK, IncidentRow, Results, Dispositions
<1>7. Happened(c, out)'
    BY <1>0, <1>1, <1>2, <1>4, <1>6 DEF Happened, bridge
<1> QED  BY <1>1, <1>4, <1>7, ActInv, NothingNew

LEMMA ReprobeInv ==
  ASSUME RecoveryInv, NEW k \in Calls, NEW ok, Reprobe(k, ok)
  PROVE  RecoveryInv' /\ WorkflowStep
<1> USE DEF RecoveryInv
<1>0. call[k].cmd # Nothing /\ call[k].pc = "reserved" /\ call[k].cmd.op = "reprobe"
    BY DEF Reprobe, Acts
<1>1. PICK c \in Commands : c = call[k].cmd
    BY <1>0 DEF TypeOK, Executions
<1>2. PICK i \in Incidents : i = c.of /\ i = IncidentOf(c)
    BY <1>0, <1>1, CommandTypes
<1>a. incident[i].state # "none" /\ incident[i].state \in IncidentStates
    BY <1>0, <1>1, <1>2 DEF CallInv, Stored, TypeOK, IncidentRow
<1> DEFINE now == BridgeCurrent(i, ok) /\ incident[i].state \in {"open", "human_requested"}
<1>3. PICK s \in IncidentStates : s = IF now /\ c.id = "succeeded" THEN "resolved_automatic" ELSE incident[i].state
    BY <1>a DEF IncidentStates
<1>4. PICK out : out = IF now THEN s ELSE "fenced_late"
    OBVIOUS
<1>5. /\ Acts(k, "reprobe", out) /\ Move(i, s)
      /\ probe' = [probe EXCEPT ![c] = IF now THEN "observed" ELSE "fenced_late"]
      /\ UNCHANGED <<request, packet, confirmed, response>>
    BY <1>1, <1>2, <1>3, <1>4 DEF Reprobe
<1>6. \/ s = incident[i].state
      \/ s = "resolved_automatic" /\ incident[i].state \in {"open", "human_requested"}
    BY <1>3
<1>7. out \in Results /\ (out = "resolved_automatic" => s = "resolved_automatic")
    BY <1>3, <1>4 DEF Results, Dispositions
<1> HIDE DEF now
<1>8. /\ incident' \in [Incidents -> IncidentRow] /\ incident'[i].state = s
      /\ incident'[i].packet = incident[i].packet
      /\ \A j \in Incidents \ {i} : incident'[j] = incident[j]
    BY <1>5, MovedTo
<1>9. Later /\ StoreTypes'
  <2>1. s # "none" /\ (incident[i].state \in Settled => s = incident[i].state)
      BY <1>a, <1>6 DEF Settled
  <2> QED  BY <1>5, <1>8, <2>1 DEF Later, StoreTypes, TypeOK, response
<1>10. Happened(c, out)'
    BY <1>0, <1>1, <1>2, <1>7, <1>8 DEF Happened
<1>11. BridgeInv'
  <2>1. CASE s = incident[i].state
    <3>1. incident' = incident
        BY <1>8, <2>1 DEF TypeOK, IncidentRow
    <3> QED  BY <1>5, <3>1, BridgeKept DEF response
  <2>2. CASE s = "resolved_automatic" /\ incident[i].state \in {"open", "human_requested"}
      BY <1>5, <2>2, BridgeMoves DEF response, IncidentStates
  <2> QED  BY <1>6, <2>1, <2>2
<1>12. WorkflowStep
    BY <1>5, <1>6, WorkflowMoves
<1> QED  BY <1>1, <1>5, <1>9, <1>10, <1>11, <1>12, ActInv

LEMMA ReceiveAgainInv ==
  ASSUME RecoveryInv, NEW k \in Calls, ReceiveAgain(k)
  PROVE  RecoveryInv' /\ WorkflowStep
<1> USE DEF RecoveryInv
<1>0. call[k].cmd # Nothing /\ call[k].pc = "reserved" /\ call[k].cmd.op = "receive"
    BY DEF ReceiveAgain, TypeOK
<1>1. PICK c \in Commands : c = call[k].cmd
    BY <1>0 DEF TypeOK, Executions
<1>2. PICK p \in Packets : p = c.of
    BY <1>0, <1>1, CommandTypes
<1>3. PICK out : out = packet[p]
    OBVIOUS
<1>4. Acts(k, "receive", out) /\ UNCHANGED <<bridge, response>> /\ packet[p] # "none"
    BY <1>1, <1>2, <1>3 DEF ReceiveAgain
<1>5. out \in Results
    BY <1>3, <1>4 DEF TypeOK, Results, Dispositions
<1>6. Happened(c, out)'
    BY <1>0, <1>1, <1>2, <1>3, <1>4, <1>5 DEF Happened, bridge
<1> QED  BY <1>1, <1>4, <1>6, ActInv, NothingNew

(* At most one packet of an incident is committed, since it is the one the   *)
(* incident has applied.                                                     *)
LEMMA ReceiveInv ==
  ASSUME RecoveryInv, NEW k \in Calls, NEW ok, ReceiveManual(k, ok)
  PROVE  RecoveryInv' /\ WorkflowStep
<1> USE DEF RecoveryInv
<1>0. call[k].cmd # Nothing /\ call[k].pc = "reserved" /\ call[k].cmd.op = "receive"
    BY DEF ReceiveManual, TypeOK
<1>1. PICK c \in Commands : c = call[k].cmd
    BY <1>0 DEF TypeOK, Executions
<1>2. PICK p \in Packets : p = c.of
    BY <1>0, <1>1, CommandTypes
<1>3. PICK i \in Incidents : i = PacketOf[p]
    BY RecoveryAssumption
<1> DEFINE now == BridgeCurrent(i, ok) /\ incident[i].state = "human_requested"
<1>4. PICK out \in {"committed", "fenced_late"} : out = IF now THEN "committed" ELSE "fenced_late"
    OBVIOUS
<1>5. /\ Acts(k, "receive", out) /\ packet[p] = "none" /\ packet' = [packet EXCEPT ![p] = out]
      /\ UNCHANGED <<request, probe, confirmed, response>>
    BY <1>1, <1>2, <1>3, <1>4 DEF ReceiveManual
<1>6. Happened(c, out)'
    BY <1>0, <1>1, <1>2, <1>5 DEF Happened, TypeOK, Results, Dispositions
<1>7. packet' \in [Packets -> {"none", "committed", "fenced_late"}]
    BY <1>5 DEF TypeOK
<1>8. CASE now
  <2>1. out = "committed" /\ incident[i].state = "human_requested"
        /\ incident' = [incident EXCEPT ![i] = [state |-> "manual_packet_committed", packet |-> p]]
      BY <1>1, <1>2, <1>3, <1>4, <1>8 DEF ReceiveManual
  <2>2. [state |-> "manual_packet_committed", packet |-> p] \in IncidentRow
      BY DEF IncidentRow, IncidentStates
  <2>3. /\ incident' \in [Incidents -> IncidentRow] /\ incident'[i].state = "manual_packet_committed"
        /\ incident'[i].packet = p /\ \A j \in Incidents \ {i} : incident'[j] = incident[j]
      BY <2>1, <2>2 DEF TypeOK
  <2>4. incident[i].packet = Nothing
      BY <2>1 DEF BridgeInv
  <2>5. Later /\ StoreTypes'
      BY <1>5, <1>7, <2>1, <2>3 DEF Later, StoreTypes, TypeOK, response, Settled
  <2>6. \A q \in Packets : PacketOf[q] = i => packet[q] # "committed"
      BY <2>4, RecoveryAssumption DEF BridgeInv
  <2>7. BridgeInv'
    <3>1. \A j \in Incidents :
            /\ incident'[j].state \in {"none", "open", "human_requested"} => incident'[j].packet = Nothing
            /\ incident'[j].state \in {"manual_packet_committed", "resolved_manual"} => incident'[j].packet # Nothing
            /\ incident'[j].packet # Nothing => PacketOf[incident'[j].packet] = j
        BY <1>3, <2>3, RecoveryAssumption DEF BridgeInv
    <3>2. ASSUME NEW q \in Packets PROVE packet'[q] = "committed" <=> incident'[PacketOf[q]].packet = q
      <4>1. PacketOf[q] \in Incidents
          BY RecoveryAssumption
      <4>2. CASE q = p
          BY <1>3, <1>5, <2>1, <2>3, <4>2 DEF TypeOK
      <4>3. CASE q # p
        <5>1. packet'[q] = packet[q]
            BY <1>5, <4>3 DEF TypeOK
        <5>2. CASE PacketOf[q] = i
            BY <2>3, <2>6, <4>3, <5>1, <5>2
        <5>3. CASE PacketOf[q] # i
            BY <2>3, <4>1, <5>1, <5>3 DEF BridgeInv
        <5> QED  BY <5>2, <5>3
      <4> QED  BY <4>2, <4>3
    <3>3. \A l \in Layers : confirmed'[l] # Nothing => incident'[PacketOf[confirmed'[l]]].state = "resolved_manual"
      <4>1. \A l \in Layers : confirmed[l] # Nothing => confirmed[l] \in Packets /\ PacketOf[confirmed[l]] \in Incidents
          BY RecoveryAssumption DEF TypeOK
      <4> QED  BY <1>5, <2>1, <2>3, <4>1 DEF BridgeInv
    <3>4. ResolvedByItsReceipt'
      <4> SUFFICES ASSUME NEW j \in Incidents, incident'[j].state = "resolved_manual"
                   PROVE  LET q == incident'[j].packet
                          IN q \in Packets /\ packet'[q] = "committed" /\ confirmed'[LayerOf[q]] = q
                             /\ receipt'[LayerOf[q]] \in {[by |-> "bridge", of |-> q], [by |-> "native", of |-> Nothing]}
          BY DEF ResolvedByItsReceipt
      <4>1. j # i /\ incident'[j] = incident[j]
          BY <2>3
      <4>2. incident[j].packet \in Packets /\ packet[incident[j].packet] = "committed"
          BY <4>1 DEF BridgeInv, ResolvedByItsReceipt
      <4>3. packet'[incident[j].packet] = "committed"
          BY <1>5, <2>1, <4>2 DEF TypeOK
      <4> QED  BY <1>5, <4>1, <4>3 DEF BridgeInv, ResolvedByItsReceipt, response
    <3> QED  BY <1>5, <3>1, <3>2, <3>3, <3>4 DEF BridgeInv, response
  <2>8. WorkflowStep
    <3> DEFINE st == [j \in Incidents |-> incident[j].state]
               done == {q \in Packets : packet[q] = "committed"}
    <3>1. [j \in Incidents |-> incident'[j].state] = [st EXCEPT ![PacketOf[p]] = "manual_packet_committed"]
        BY <1>3, <2>3
    <3>2. {q \in Packets : packet'[q] = "committed"} = done \cup {p}
        BY <1>5, <2>1 DEF TypeOK
    <3>3. \A q \in done : PacketOf[q] # PacketOf[p]
        BY <1>3, <2>6
    <3>4. st[PacketOf[p]] = "human_requested"
        BY <1>3, <2>1
    <3>5. Workflow!Commit(p)
        BY <3>1, <3>2, <3>3, <3>4 DEF Workflow!Commit
    <3> QED  BY <3>5 DEF WorkflowStep, Workflow!Next
  <2> QED  BY <1>1, <1>5, <1>6, <2>5, <2>7, <2>8, ActInv
<1>9. CASE ~now
  <2>1. out = "fenced_late" /\ UNCHANGED incident
      BY <1>1, <1>2, <1>3, <1>4, <1>9 DEF ReceiveManual
  <2>2. Later /\ StoreTypes'
      BY <1>5, <1>7, <2>1 DEF Later, StoreTypes, TypeOK, response
  <2>3. \A q \in Packets : packet'[q] = "committed" <=> packet[q] = "committed"
      BY <1>5, <2>1 DEF TypeOK
  <2>4. ResolvedByItsReceipt'
      BY <1>5, <2>1, <2>3 DEF BridgeInv, ResolvedByItsReceipt, response
  <2>5. BridgeInv'
      BY <1>5, <2>1, <2>3, <2>4 DEF BridgeInv, response
  <2>6. WorkflowStep
    <3>1. {q \in Packets : packet'[q] = "committed"} = {q \in Packets : packet[q] = "committed"}
        BY <2>3
    <3> QED  BY <2>1, <3>1 DEF WorkflowStep
  <2> QED  BY <1>1, <1>5, <1>6, <2>2, <2>5, <2>6, ActInv
<1> QED  BY <1>8, <1>9

(* A layer's receipt confirms one packet, and its incident is then resolved. *)
LEMMA ConfirmInv ==
  ASSUME RecoveryInv, NEW k \in Calls, ConfirmManual(k)
  PROVE  RecoveryInv' /\ WorkflowStep
<1> USE DEF RecoveryInv
<1>0. call[k].cmd # Nothing /\ call[k].pc = "reserved" /\ call[k].cmd.op = "confirm"
    BY DEF ConfirmManual, TypeOK
<1>1. PICK c \in Commands : c = call[k].cmd
    BY <1>0 DEF TypeOK, Executions
<1>2. PICK p \in Packets : p = c.of
    BY <1>0, <1>1, CommandTypes
<1>3. PICK i \in Incidents : i = PacketOf[p]
    BY RecoveryAssumption
<1>4. PICK l \in Layers : l = LayerOf[p]
    BY RecoveryAssumption
<1>5. /\ Acts(k, "confirm", "resolved_manual") /\ confirmed' = [confirmed EXCEPT ![l] = p]
      /\ incident[i].packet = p /\ incident[i].state \in {"manual_packet_committed", "resolved_manual"}
      /\ Binds(l, p) /\ confirmed[l] \in {Nothing, p}
      /\ UNCHANGED <<request, probe, packet, response>>
    BY <1>1, <1>2, <1>3, <1>4 DEF ConfirmManual
<1>6. IF confirmed[l] = p THEN UNCHANGED incident ELSE Move(i, "resolved_manual")
    BY <1>1, <1>2, <1>3, <1>4 DEF ConfirmManual
<1>7. "resolved_manual" \in Results /\ p # Nothing
    BY RecoveryAssumption DEF Results, IncidentStates
<1>8. CASE confirmed[l] = p
  <2>1. UNCHANGED <<bridge, response>>
    <3>1. confirmed' = confirmed
        BY <1>5, <1>8 DEF TypeOK
    <3> QED  BY <1>5, <1>6, <1>8, <3>1 DEF bridge
  <2>2. incident[i].state = "resolved_manual"
      BY <1>3, <1>7, <1>8 DEF BridgeInv
  <2>3. Happened(c, "resolved_manual")'
      BY <1>0, <1>1, <1>2, <1>3, <1>7, <2>1, <2>2 DEF Happened, bridge
  <2> QED  BY <1>1, <1>5, <2>1, <2>3, ActInv, NothingNew
<1>9. CASE confirmed[l] = Nothing
  <2>1. Move(i, "resolved_manual")
      BY <1>6, <1>7, <1>9
  <2>2. incident[i].state = "manual_packet_committed"
      BY <1>4, <1>5, <1>7, <1>9 DEF BridgeInv, ResolvedByItsReceipt
  <2>3. /\ incident' \in [Incidents -> IncidentRow] /\ incident'[i].state = "resolved_manual"
        /\ incident'[i].packet = p /\ \A j \in Incidents \ {i} : incident'[j] = incident[j]
      BY <1>5, <2>1, MovedTo DEF IncidentStates
  <2>4. confirmed' \in [Layers -> Packets \cup {Nothing}] /\ confirmed'[l] = p
        /\ \A m \in Layers \ {l} : confirmed'[m] = confirmed[m]
      BY <1>5 DEF TypeOK
  <2>5. Later /\ StoreTypes'
      BY <1>5, <2>2, <2>3, <2>4 DEF Later, StoreTypes, TypeOK, response, Settled
  <2>6. Happened(c, "resolved_manual")'
      BY <1>0, <1>1, <1>2, <1>3, <1>7, <2>3 DEF Happened
  <2>7. BridgeInv'
    <3>1. \A j \in Incidents : incident'[j].packet = incident[j].packet
        BY <1>5, <2>3
    <3>2. \A j \in Incidents :
            /\ incident'[j].state \in {"none", "open", "human_requested"} => incident'[j].packet = Nothing
            /\ incident'[j].state \in {"manual_packet_committed", "resolved_manual"} => incident'[j].packet # Nothing
            /\ incident'[j].packet # Nothing => PacketOf[incident'[j].packet] = j
        BY <1>3, <1>7, <2>3 DEF BridgeInv
    <3>3. \A q \in Packets : packet'[q] = "committed" <=> incident'[PacketOf[q]].packet = q
        BY <1>5, <3>1, RecoveryAssumption DEF BridgeInv
    <3>4. \A m \in Layers : confirmed'[m] # Nothing => incident'[PacketOf[confirmed'[m]]].state = "resolved_manual"
      <4>1. \A m \in Layers : confirmed[m] # Nothing => confirmed[m] \in Packets /\ PacketOf[confirmed[m]] \in Incidents
          BY RecoveryAssumption DEF TypeOK
      <4> QED  BY <1>3, <2>3, <2>4, <4>1 DEF BridgeInv
    <3>5. \A m \in Layers : receipt'[m].by = "native" => receipt'[m].of = Nothing
        BY <1>5 DEF BridgeInv, response
    <3>6. ResolvedByItsReceipt'
      <4> SUFFICES ASSUME NEW j \in Incidents, incident'[j].state = "resolved_manual"
                   PROVE  LET q == incident'[j].packet
                          IN q \in Packets /\ packet'[q] = "committed" /\ confirmed'[LayerOf[q]] = q
                             /\ receipt'[LayerOf[q]] \in {[by |-> "bridge", of |-> q], [by |-> "native", of |-> Nothing]}
          BY DEF ResolvedByItsReceipt
      <4>1. CASE j = i
        <5>1. receipt[l] \in ReceiptRow
            BY DEF TypeOK
        <5>2. receipt[l] \in {[by |-> "bridge", of |-> p], [by |-> "native", of |-> Nothing]}
            BY <1>5, <5>1 DEF Binds, BridgeInv, ReceiptRow
        <5>3. packet[p] = "committed"
            BY <1>3, <1>5 DEF BridgeInv
        <5> QED  BY <1>4, <1>5, <2>3, <2>4, <4>1, <5>2, <5>3 DEF response
      <4>2. CASE j # i
        <5>1. PICK q \in Packets : q = incident[j].packet
            BY <2>3, <4>2 DEF BridgeInv, ResolvedByItsReceipt
        <5>2. packet[q] = "committed" /\ confirmed[LayerOf[q]] = q
              /\ receipt[LayerOf[q]] \in {[by |-> "bridge", of |-> q], [by |-> "native", of |-> Nothing]}
            BY <2>3, <4>2, <5>1 DEF BridgeInv, ResolvedByItsReceipt
        <5>3. q # Nothing /\ LayerOf[q] \in Layers
            BY RecoveryAssumption
        <5>4. LayerOf[q] # l
            BY <1>9, <5>2, <5>3
        <5> QED  BY <1>5, <2>3, <2>4, <4>2, <5>1, <5>2, <5>3, <5>4 DEF response
      <4> QED  BY <4>1, <4>2
    <3> QED  BY <3>2, <3>3, <3>4, <3>5, <3>6 DEF BridgeInv
  <2>8. WorkflowStep
    <3> DEFINE st == [j \in Incidents |-> incident[j].state]
    <3>1. [j \in Incidents |-> incident'[j].state] = [st EXCEPT ![PacketOf[p]] = "resolved_manual"]
        BY <1>3, <2>3
    <3>2. packet' = packet /\ packet[p] = "committed" /\ st[PacketOf[p]] = "manual_packet_committed"
        BY <1>3, <1>5, <2>2 DEF BridgeInv
    <3>3. Workflow!Confirm(p)
        BY <3>1, <3>2 DEF Workflow!Confirm, Workflow!Step
    <3> QED  BY <3>3 DEF WorkflowStep, Workflow!Next
  <2> QED  BY <1>1, <1>5, <2>5, <2>6, <2>7, <2>8, ActInv
<1> QED  BY <1>5, <1>8, <1>9

LEMMA ExpireInv ==
  ASSUME RecoveryInv, NEW k \in Calls, ExpireIncident(k)
  PROVE  RecoveryInv' /\ WorkflowStep
<1> USE DEF RecoveryInv
<1>0. call[k].cmd # Nothing /\ call[k].pc = "reserved" /\ call[k].cmd.op = "expire"
    BY DEF ExpireIncident, TypeOK
<1>1. PICK c \in Commands : c = call[k].cmd
    BY <1>0 DEF TypeOK, Executions
<1>2. PICK i \in Incidents : i = c.of /\ i = IncidentOf(c)
    BY <1>0, <1>1, CommandTypes
<1>3. incident[i].state # "none" /\ incident[i].state \in IncidentStates
    BY <1>0, <1>1, <1>2 DEF CallInv, Stored, TypeOK, IncidentRow
<1>4. UNCHANGED <<request, probe, packet, confirmed, response>>
    BY DEF ExpireIncident
<1>5. CASE incident[i].state \notin ActiveStates
  <2>1. PICK out : out = incident[i].state
      OBVIOUS
  <2>2. Acts(k, "expire", out) /\ UNCHANGED <<bridge, response>>
      BY <1>1, <1>2, <1>4, <1>5, <2>1 DEF ExpireIncident, bridge
  <2>3. out \in Settled /\ out \in Results
      BY <1>3, <1>5, <2>1 DEF Settled, IncidentStates, ActiveStates, Results
  <2>4. Happened(c, out)'
      BY <1>0, <1>1, <1>2, <2>1, <2>2, <2>3 DEF Happened, bridge
  <2> QED  BY <1>1, <2>2, <2>4, ActInv, NothingNew
<1>6. CASE incident[i].state \in ActiveStates
  <2>1. Acts(k, "expire", "expired") /\ Move(i, "expired")
      BY <1>1, <1>2, <1>6 DEF ExpireIncident
  <2>2. /\ incident' \in [Incidents -> IncidentRow] /\ incident'[i].state = "expired"
        /\ \A j \in Incidents \ {i} : incident'[j] = incident[j]
      BY <2>1, MovedTo DEF IncidentStates
  <2>3. Later /\ StoreTypes'
      BY <1>4, <1>6, <2>2 DEF Later, StoreTypes, TypeOK, response, Settled, ActiveStates
  <2>4. Happened(c, "expired")'
      BY <1>0, <1>1, <1>2, <2>2 DEF Happened, Results, IncidentStates, Settled
  <2>5. BridgeInv'
      BY <1>4, <1>6, <2>1, BridgeMoves DEF response, IncidentStates, ActiveStates
  <2>6. WorkflowStep
      BY <1>4, <1>6, <2>1, WorkflowMoves DEF IncidentStates
  <2> QED  BY <1>1, <2>1, <2>3, <2>4, <2>5, <2>6, ActInv
<1> QED  BY <1>5, <1>6

-----------------------------------------------------------------------------
(* The response commands                                                     *)

LEMMA ProjectAgainInv ==
  ASSUME RecoveryInv, NEW k \in Calls, ProjectAgain(k)
  PROVE  RecoveryInv' /\ WorkflowStep
<1> USE DEF RecoveryInv
<1>0. call[k].cmd # Nothing /\ call[k].pc = "reserved" /\ call[k].cmd.op = "project"
    BY DEF ProjectAgain, TypeOK
<1>1. PICK c \in Commands : c = call[k].cmd
    BY <1>0 DEF TypeOK, Executions
<1>2. PICK r \in Responses : r = c.of
    BY <1>0, <1>1, CommandTypes
<1>3. PICK out : out = shown[r]
    OBVIOUS
<1>4. Acts(k, "project", out) /\ UNCHANGED <<bridge, response>> /\ shown[r] # "none"
    BY <1>1, <1>2, <1>3 DEF ProjectAgain
<1>5. out \in Results
    BY <1>3, <1>4 DEF TypeOK, Results
<1>6. Happened(c, out)'
    BY <1>0, <1>1, <1>2, <1>3, <1>4, <1>5 DEF Happened, response
<1> QED  BY <1>1, <1>4, <1>6, ActInv, NothingNew

(* A receipt is stored where there was none.                                 *)
LEMMA ReceiptAdded ==
  ASSUME RecoveryInv, NEW l \in Layers, NEW r \in ReceiptRow, receipt[l] = NoReceipt,
         receipt' = [receipt EXCEPT ![l] = r], r.by = "native" => r.of = Nothing, UNCHANGED bridge
  PROVE  receipt' \in [Layers -> ReceiptRow] /\ BridgeInv' /\ WorkflowStep
<1> USE DEF RecoveryInv, bridge
<1>1. receipt' \in [Layers -> ReceiptRow] /\ receipt'[l] = r /\ \A m \in Layers \ {l} : receipt'[m] = receipt[m]
    BY DEF TypeOK
<1>2. ResolvedByItsReceipt'
  <2> SUFFICES ASSUME NEW j \in Incidents, incident[j].state = "resolved_manual", NEW q \in Packets,
                      q = incident[j].packet
               PROVE  receipt'[LayerOf[q]] = receipt[LayerOf[q]]
      BY DEF BridgeInv, ResolvedByItsReceipt
  <2>1. receipt[LayerOf[q]] \in {[by |-> "bridge", of |-> q], [by |-> "native", of |-> Nothing]}
      BY DEF BridgeInv, ResolvedByItsReceipt
  <2>2. receipt[LayerOf[q]].by # "none" /\ receipt[l].by = "none" /\ LayerOf[q] \in Layers
      BY <2>1, RecoveryAssumption DEF NoReceipt
  <2> QED  BY <1>1, <2>2
<1>3. \A m \in Layers : receipt'[m].by = "native" => receipt'[m].of = Nothing
    BY <1>1 DEF BridgeInv
<1>4. BridgeInv'
    BY <1>2, <1>3 DEF BridgeInv
<1>5. WorkflowStep
    BY DEF WorkflowStep
<1> QED  BY <1>1, <1>4, <1>5

LEMMA ProjectAppliedInv ==
  ASSUME RecoveryInv, NEW k \in Calls, ProjectApplied(k)
  PROVE  RecoveryInv' /\ WorkflowStep
<1> USE DEF RecoveryInv
<1>0. call[k].cmd # Nothing /\ call[k].pc = "reserved" /\ call[k].cmd.op = "project"
    BY DEF ProjectApplied, TypeOK
<1>1. PICK c \in Commands : c = call[k].cmd
    BY <1>0 DEF TypeOK, Executions
<1>2. PICK r \in Responses : r = c.of
    BY <1>0, <1>1, CommandTypes
<1>3. /\ Acts(k, "project", "applied") /\ UNCHANGED <<bridge, consumer>> /\ shown[r] = "none"
      /\ shown' = [shown EXCEPT ![r] = "applied"] /\ message' = "delivered"
      /\ receipt["response_received"] = NoReceipt
      /\ receipt' = [receipt EXCEPT !["response_received"] = [by |-> "projection", of |-> r]]
    BY <1>1, <1>2 DEF ProjectApplied
<1>4. [by |-> "projection", of |-> r] \in ReceiptRow /\ "response_received" \in Layers
    BY DEF ReceiptRow, Layers
<1>5. receipt' \in [Layers -> ReceiptRow] /\ BridgeInv' /\ WorkflowStep
    BY <1>3, <1>4, ReceiptAdded
<1>6. Later /\ StoreTypes'
    BY <1>3, <1>5 DEF Later, StoreTypes, TypeOK, bridge, Dispositions
<1>7. Happened(c, "applied")'
    BY <1>0, <1>1, <1>2, <1>3 DEF Happened, TypeOK, Results, Dispositions
<1> QED  BY <1>1, <1>3, <1>5, <1>6, <1>7, ActInv

LEMMA ProjectFencedInv ==
  ASSUME RecoveryInv, NEW k \in Calls, ProjectFenced(k)
  PROVE  RecoveryInv' /\ WorkflowStep
<1> USE DEF RecoveryInv
<1>0. call[k].cmd # Nothing /\ call[k].pc = "reserved" /\ call[k].cmd.op = "project"
    BY DEF ProjectFenced, TypeOK
<1>1. PICK c \in Commands : c = call[k].cmd
    BY <1>0 DEF TypeOK, Executions
<1>2. PICK r \in Responses : r = c.of
    BY <1>0, <1>1, CommandTypes
<1>3. /\ Acts(k, "project", "fenced_late") /\ UNCHANGED <<bridge, receipt, message, consumer>>
      /\ shown[r] = "none" /\ shown' = [shown EXCEPT ![r] = "fenced_late"]
    BY <1>1, <1>2 DEF ProjectFenced
<1>4. BridgeInv' /\ WorkflowStep
    BY <1>3, BridgeKept DEF bridge
<1>5. Later /\ StoreTypes'
    BY <1>3 DEF Later, StoreTypes, TypeOK, bridge, Dispositions
<1>6. Happened(c, "fenced_late")'
    BY <1>0, <1>1, <1>2, <1>3 DEF Happened, TypeOK, Results, Dispositions
<1> QED  BY <1>1, <1>3, <1>4, <1>5, <1>6, ActInv

LEMMA ConsumeInv ==
  ASSUME RecoveryInv, NEW k \in Calls, Consume(k)
  PROVE  RecoveryInv' /\ WorkflowStep
<1> USE DEF RecoveryInv
<1>0. call[k].cmd # Nothing /\ call[k].pc = "reserved" /\ call[k].cmd.op = "consume"
    BY DEF Consume, TypeOK
<1>1. PICK c \in Commands : c = call[k].cmd
    BY <1>0 DEF TypeOK, Executions
<1>2. PICK r \in Responses : r = c.of
    BY <1>0, <1>1, CommandTypes
<1>3. /\ Acts(k, "consume", "response_consumed") /\ UNCHANGED <<bridge, receipt, message, shown>>
      /\ consumer[r] \in {Nothing, c} /\ consumer' = [consumer EXCEPT ![r] = c]
    BY <1>1, <1>2 DEF Consume
<1>4. BridgeInv' /\ WorkflowStep
    BY <1>3, BridgeKept DEF bridge
<1>5. Later /\ StoreTypes'
    BY <1>3 DEF Later, StoreTypes, TypeOK, bridge
<1>6. Happened(c, "response_consumed")'
    BY <1>0, <1>1, <1>2, <1>3 DEF Happened, TypeOK, Results
<1> QED  BY <1>1, <1>3, <1>4, <1>5, <1>6, ActInv

-----------------------------------------------------------------------------
(* Reserving, recording and the environment                                  *)

(* Nothing but one call and the claims change.                               *)
LEMMA CallStep ==
  ASSUME RecoveryInv, NEW k \in Calls, NEW e \in Executions, call' = [call EXCEPT ![k] = e],
         UNCHANGED <<bridge, response, late, plan>>,
         claim' \in [Commands -> Results \cup {"none"}],
         \A c \in Commands : claim[c] # "none" => claim'[c] = claim[c],
         ClaimInv', observed' \in [Responses -> Dispositions \cup {"none", "pending"}], DispositionsAgree',
         e.cmd = Nothing <=> e.pc = "idle",
         e.pc # "idle" /\ e.cmd.op \notin Stored => incident[IncidentOf(e.cmd)].state # "none",
         e.pc \in {"acted", "answered"} => Happened(e.cmd, e.out),
         e.pc = "answered" => claim'[e.cmd] = e.out
  PROVE  RecoveryInv' /\ WorkflowStep
<1> USE DEF RecoveryInv
<1>1. Later /\ StoreTypes' /\ BridgeInv' /\ WorkflowStep
    BY NothingNew
<1>2. call' \in [Calls -> Executions] /\ call'[k] = e /\ \A j \in Calls \ {k} : call'[j] = call[j]
    BY DEF TypeOK
<1>3. \A j \in Calls : call'[j].cmd = Nothing <=> call'[j].pc = "idle"
    BY <1>2 DEF TypeOK
<1>4. TypeOK'
    BY <1>1, <1>2, <1>3 DEF TypeOK, StoreTypes
<1>5. CallInv'
  <2>1. e.pc # "idle" => e.cmd \in Commands
      BY DEF Executions
  <2>2. e.pc # "idle" /\ e.cmd.op \notin Stored => incident'[IncidentOf(e.cmd)].state # "none"
      BY DEF bridge
  <2>3. e.pc \in {"acted", "answered"} => Happened(call[k].cmd, call[k].out)'
      BY <1>2 DEF Happened, bridge, response
  <2> QED  BY <1>1, <1>2, <2>1, <2>2, <2>3, CallsStand
<1> QED  BY <1>1, <1>4, <1>5

LEMMA AdmittedIncident ==
  ASSUME NEW c \in Commands, Admissible(c), c.op \notin Stored
  PROVE  incident[IncidentOf(c)].state # "none"
BY DEF Admissible, Stored

LEMMA QuietClaims ==
  ASSUME RecoveryInv, UNCHANGED <<claim, bridge, response, observed>>
  PROVE  ClaimInv' /\ DispositionsAgree' /\ claim' \in [Commands -> Results \cup {"none"}]
         /\ observed' \in [Responses -> Dispositions \cup {"none", "pending"}]
<1> USE DEF RecoveryInv
<1>1. ClaimInv'
  <2>1. Later /\ StoreTypes
      BY NothingNew DEF TypeOK, StoreTypes
  <2> QED  BY <2>1, ClaimsStand
<1> QED  BY <1>1 DEF DispositionsAgree, response, TypeOK

LEMMA ReserveInv ==
  ASSUME RecoveryInv, NEW k \in Calls, NEW c \in plan, Reserve(k, c)
  PROVE  RecoveryInv' /\ WorkflowStep
<1> USE DEF RecoveryInv
<1> DEFINE e == [pc |-> "reserved", cmd |-> c, out |-> "none"]
<1>1. c \in Commands /\ c # Nothing
    BY RecoveryAssumption DEF TypeOK
<1>2. e \in Executions /\ e.pc = "reserved" /\ e.cmd = c
    BY <1>1 DEF Executions
<1>3. call' = [call EXCEPT ![k] = e] /\ UNCHANGED <<claim, bridge, response, observed, late, plan>>
    BY DEF Reserve, outside
<1>4. c.op \notin Stored => incident[IncidentOf(c)].state # "none"
    BY <1>1, AdmittedIncident DEF Reserve
<1> HIDE DEF e
<1>5. ClaimInv' /\ DispositionsAgree' /\ claim' \in [Commands -> Results \cup {"none"}]
         /\ observed' \in [Responses -> Dispositions \cup {"none", "pending"}]
    BY <1>3, QuietClaims
<1> QED  BY <1>1, <1>2, <1>3, <1>4, <1>5, CallStep

LEMMA ReplayInv ==
  ASSUME RecoveryInv, NEW k \in Calls, NEW c \in plan, Replay(k, c)
  PROVE  RecoveryInv' /\ WorkflowStep
<1> USE DEF RecoveryInv
<1> DEFINE e == [pc |-> "answered", cmd |-> c, out |-> claim[c]]
<1>1. c \in Commands /\ c # Nothing
    BY RecoveryAssumption DEF TypeOK
<1>2. e \in Executions /\ e.pc = "answered" /\ e.cmd = c /\ e.out = claim[c]
    BY <1>1 DEF Executions, TypeOK
<1>3. call' = [call EXCEPT ![k] = e] /\ UNCHANGED <<claim, bridge, response, observed, late, plan>>
    BY DEF Replay, outside
<1>4. c.op \notin Stored => incident[IncidentOf(c)].state # "none"
    BY <1>1, AdmittedIncident DEF Replay
<1>5. Happened(c, claim[c])
    BY <1>1 DEF Replay, ClaimInv
<1> HIDE DEF e
<1>6. ClaimInv' /\ DispositionsAgree' /\ claim' \in [Commands -> Results \cup {"none"}]
         /\ observed' \in [Responses -> Dispositions \cup {"none", "pending"}]
    BY <1>3, QuietClaims
<1> QED  BY <1>1, <1>2, <1>3, <1>4, <1>5, <1>6, CallStep

LEMMA LeaveInv ==
  ASSUME RecoveryInv, NEW k \in Calls, Leave(k)
  PROVE  RecoveryInv' /\ WorkflowStep
<1>1. Idle \in Executions /\ Idle.pc = "idle" /\ Idle.cmd = Nothing
    BY DEF Idle, Executions
<1>2. call' = [call EXCEPT ![k] = Idle] /\ UNCHANGED <<claim, bridge, response, observed, late, plan>>
    BY DEF Leave, outside
<1>3. ClaimInv' /\ DispositionsAgree' /\ claim' \in [Commands -> Results \cup {"none"}]
         /\ observed' \in [Responses -> Dispositions \cup {"none", "pending"}]
    BY <1>2, QuietClaims
<1> QED  BY <1>1, <1>2, <1>3, CallStep

(* The result that a claim completed meanwhile holds has happened as well.   *)
LEMMA RecordInv ==
  ASSUME RecoveryInv, NEW k \in Calls, Record(k)
  PROVE  RecoveryInv' /\ WorkflowStep
<1> USE DEF RecoveryInv
<1>0. call[k].pc = "acted" /\ call[k].cmd # Nothing /\ call[k] \in Executions
    BY DEF Record, TypeOK
<1>1. PICK c \in Commands : c = call[k].cmd
    BY <1>0 DEF TypeOK, Executions
<1>2. PICK done : done = IF claim[c] # "none" THEN claim[c] ELSE call[k].out
    OBVIOUS
<1>3. /\ claim' = [claim EXCEPT ![c] = done] /\ call' = [call EXCEPT ![k].pc = "answered", ![k].out = done]
      /\ UNCHANGED <<bridge, response, observed, late, plan>>
    BY <1>1, <1>2 DEF Record, outside
<1>4. Happened(c, done) /\ done \in Results
  <2>1. CASE claim[c] # "none"
      BY <1>2, <2>1 DEF ClaimInv, Happened
  <2>2. CASE claim[c] = "none"
      BY <1>0, <1>1, <1>2, <2>2 DEF CallInv, Happened
  <2> QED  BY <2>1, <2>2
<1> DEFINE e == [pc |-> "answered", cmd |-> c, out |-> done]
<1>5. e \in Executions /\ e.pc = "answered" /\ e.cmd = c /\ e.out = done
    BY <1>4 DEF Executions
<1>6. call' = [call EXCEPT ![k] = e]
  <2>1. call'[k] = e
      BY <1>0, <1>1, <1>3 DEF TypeOK, Executions
  <2>2. call' = [call EXCEPT ![k] = call'[k]]
      BY <1>3 DEF TypeOK
  <2> QED  BY <2>1, <2>2
<1>7. claim' \in [Commands -> Results \cup {"none"}] /\ claim'[c] = done
      /\ \A d \in Commands \ {c} : claim'[d] = claim[d]
    BY <1>3, <1>4 DEF TypeOK
<1>8. \A d \in Commands : claim[d] # "none" => claim'[d] = claim[d]
    BY <1>2, <1>7
<1>9. ClaimInv'
  <2> SUFFICES ASSUME NEW d \in Commands, claim'[d] # "none"
               PROVE  Happened(d, claim'[d])
      BY <1>3 DEF ClaimInv, Happened, bridge, response
  <2> QED  BY <1>4, <1>7 DEF ClaimInv
<1>10. DispositionsAgree' /\ observed' \in [Responses -> Dispositions \cup {"none", "pending"}]
    BY <1>3 DEF DispositionsAgree, response, TypeOK
<1>11. c.op \notin Stored => incident[IncidentOf(c)].state # "none"
    BY <1>0, <1>1 DEF CallInv
<1>12. c # Nothing
    BY CommandTypes
<1> HIDE DEF e
<1>13. /\ e.cmd = Nothing <=> e.pc = "idle"
       /\ e.cmd.op \notin Stored => incident[IncidentOf(e.cmd)].state # "none"
       /\ Happened(e.cmd, e.out) /\ claim'[e.cmd] = e.out
    BY <1>4, <1>5, <1>7, <1>11, <1>12
<1>14. UNCHANGED <<bridge, response, late, plan>>
    BY <1>3
<1> QED  BY <1>5, <1>6, <1>7, <1>8, <1>9, <1>10, <1>13, <1>14, CallStep

(* The Node marks what the Domain answered, which has happened.              *)
LEMMA MarkInv ==
  ASSUME RecoveryInv, NEW k \in Calls, MarkNode(k)
  PROVE  RecoveryInv' /\ WorkflowStep
<1> USE DEF RecoveryInv
<1>0. call[k].pc = "answered" /\ call[k].cmd.op = "project" /\ call[k].cmd # Nothing
    BY DEF MarkNode, TypeOK
<1>1. PICK c \in Commands : c = call[k].cmd
    BY <1>0 DEF TypeOK, Executions
<1>2. PICK r \in Responses : r = c.of
    BY <1>0, <1>1, CommandTypes
<1>3. /\ observed' = [observed EXCEPT ![r] = call[k].out] /\ call' = [call EXCEPT ![k] = Idle]
      /\ UNCHANGED <<claim, bridge, response, late, plan>>
    BY <1>1, <1>2 DEF MarkNode, outside
<1>4. call[k].out = shown[r] /\ call[k].out \in Results
    BY <1>0, <1>1, <1>2 DEF CallInv, Happened
<1>5. call[k].out \in Dispositions
    BY <1>4 DEF TypeOK, Results, IncidentStates, Dispositions
<1>6. observed' \in [Responses -> Dispositions \cup {"none", "pending"}] /\ DispositionsAgree'
    BY <1>3, <1>4, <1>5 DEF TypeOK, DispositionsAgree, response
<1>7. Idle \in Executions /\ Idle.pc = "idle" /\ Idle.cmd = Nothing
    BY DEF Idle, Executions
<1>8. ClaimInv'
  <2>1. Later /\ StoreTypes
      BY <1>3, NothingNew DEF TypeOK, StoreTypes
  <2> QED  BY <1>3, <2>1, ClaimsStand
<1>9. claim' \in [Commands -> Results \cup {"none"}]
    BY <1>3 DEF TypeOK
<1> QED  BY <1>3, <1>6, <1>7, <1>8, <1>9, CallStep

(* Steps of the environment leave calls and claims alone.                    *)
LEMMA OutsideStep ==
  ASSUME RecoveryInv, UNCHANGED <<claim, call, incident, request, packet, shown, consumer>>,
         TypeOK', BridgeInv', DispositionsAgree'
  PROVE  RecoveryInv'
<1> USE DEF RecoveryInv
<1>1. CallInv'
    BY DEF CallInv, Happened, IncidentOf
<1>2. ClaimInv'
    BY DEF ClaimInv, Happened
<1> QED  BY <1>1, <1>2

LEMMA CollectInv ==
  ASSUME RecoveryInv, NEW r \in Responses, Collect(r)
  PROVE  RecoveryInv' /\ WorkflowStep
<1> USE DEF RecoveryInv
<1>1. /\ observed[r] = "none" /\ observed' = [observed EXCEPT ![r] = "pending"]
      /\ UNCHANGED <<claim, call, bridge, response, late, plan>>
    BY DEF Collect, outside
<1>2. TypeOK'
    BY <1>1 DEF TypeOK, bridge, response
<1>3. DispositionsAgree'
    BY <1>1 DEF TypeOK, DispositionsAgree, response, Dispositions
<1> QED  BY <1>1, <1>2, <1>3, NothingNew, OutsideStep DEF bridge, response

LEMMA BridgeReceiptInv ==
  ASSUME RecoveryInv, NEW p \in Packets, BridgeReceipt(p)
  PROVE  RecoveryInv' /\ WorkflowStep
<1> USE DEF RecoveryInv
<1>1. PICK l \in Layers : l = LayerOf[p]
    BY RecoveryAssumption
<1> DEFINE r == [by |-> "bridge", of |-> p]
<1>2. /\ receipt[l] = NoReceipt /\ receipt' = [receipt EXCEPT ![l] = r]
      /\ UNCHANGED <<claim, call, bridge, message, shown, consumer, observed, late, plan>>
    BY <1>1 DEF BridgeReceipt, outside
<1>3. r \in ReceiptRow /\ r.by # "native"
    BY DEF ReceiptRow
<1> HIDE DEF r
<1>4. receipt' \in [Layers -> ReceiptRow] /\ BridgeInv' /\ WorkflowStep
    BY <1>2, <1>3, ReceiptAdded
<1>5. TypeOK'
    BY <1>2, <1>4 DEF TypeOK, bridge
<1>6. DispositionsAgree'
    BY <1>2 DEF DispositionsAgree
<1> QED  BY <1>2, <1>4, <1>5, <1>6, OutsideStep DEF bridge

LEMMA NativeReceiptInv ==
  ASSUME RecoveryInv, NativeReceipt
  PROVE  RecoveryInv' /\ WorkflowStep
<1> USE DEF RecoveryInv
<1> DEFINE l == "response_received"
           r == [by |-> "native", of |-> Nothing]
<1>2. /\ receipt[l] = NoReceipt /\ receipt' = [receipt EXCEPT ![l] = r]
      /\ UNCHANGED <<claim, call, bridge, message, shown, consumer, observed, late, plan>>
    BY DEF NativeReceipt, outside
<1>3. r \in ReceiptRow /\ r.of = Nothing /\ l \in Layers
    BY DEF ReceiptRow, Layers
<1> HIDE DEF r, l
<1>4. receipt' \in [Layers -> ReceiptRow] /\ BridgeInv' /\ WorkflowStep
    BY <1>2, <1>3, ReceiptAdded
<1>5. TypeOK'
    BY <1>2, <1>4 DEF TypeOK, bridge
<1>6. DispositionsAgree'
    BY <1>2 DEF DispositionsAgree
<1> QED  BY <1>2, <1>4, <1>5, <1>6, OutsideStep DEF bridge

LEMMA ExpiryInv ==
  ASSUME RecoveryInv, NEW i \in Incidents, ExpiryPasses(i)
  PROVE  RecoveryInv' /\ WorkflowStep
<1> USE DEF RecoveryInv
<1>1. late' = late \cup {i} /\ UNCHANGED <<claim, call, bridge, response, observed, plan>>
    BY DEF ExpiryPasses
<1>2. TypeOK'
    BY <1>1 DEF TypeOK, bridge, response
<1>3. DispositionsAgree'
    BY <1>1 DEF DispositionsAgree, response
<1> QED  BY <1>1, <1>2, <1>3, NothingNew, OutsideStep DEF bridge, response

-----------------------------------------------------------------------------
LEMMA StepInv ==
  ASSUME RecoveryInv, [Next]_vars
  PROVE  RecoveryInv' /\ WorkflowStep
<1>1. ASSUME NEW k \in Calls, NEW c \in plan, Reserve(k, c) \/ Replay(k, c)
      PROVE  RecoveryInv' /\ WorkflowStep
    BY <1>1, ReserveInv, ReplayInv
<1>2. ASSUME NEW k \in Calls, NEW ok \in BOOLEAN,
             OpenIncident(k, ok) \/ RequestHuman(k, ok) \/ Reprobe(k, ok) \/ ReceiveManual(k, ok)
      PROVE  RecoveryInv' /\ WorkflowStep
    BY <1>2, OpenInv, RequestInv, ReprobeInv, ReceiveInv
<1>3. ASSUME NEW k \in Calls, ReprobeAgain(k) \/ ReceiveAgain(k) \/ ConfirmManual(k) \/ ExpireIncident(k)
      PROVE  RecoveryInv' /\ WorkflowStep
    BY <1>3, ReprobeAgainInv, ReceiveAgainInv, ConfirmInv, ExpireInv
<1>4. ASSUME NEW k \in Calls, ProjectAgain(k) \/ ProjectApplied(k) \/ ProjectFenced(k) \/ Consume(k)
      PROVE  RecoveryInv' /\ WorkflowStep
    BY <1>4, ProjectAgainInv, ProjectAppliedInv, ProjectFencedInv, ConsumeInv
<1>5. ASSUME NEW k \in Calls, Record(k) \/ MarkNode(k) \/ Leave(k)
      PROVE  RecoveryInv' /\ WorkflowStep
    BY <1>5, RecordInv, MarkInv, LeaveInv
<1>6. CASE UNCHANGED vars
  <2>1. UNCHANGED <<claim, call, incident, request, packet, confirmed, receipt, shown, consumer>>
      BY <1>6 DEF vars, bridge, response
  <2>2. TypeOK' /\ DispositionsAgree'
      BY <1>6 DEF RecoveryInv, TypeOK, DispositionsAgree, vars, bridge, response, outside
  <2> QED  BY <2>1, <2>2, BridgeKept, OutsideStep DEF RecoveryInv
<1>7. ASSUME NEW r \in Responses, Collect(r) PROVE RecoveryInv' /\ WorkflowStep
    BY <1>7, CollectInv
<1>8. ASSUME NEW p \in Packets, BridgeReceipt(p) PROVE RecoveryInv' /\ WorkflowStep
    BY <1>8, BridgeReceiptInv
<1>9. ASSUME NEW i \in Incidents, ExpiryPasses(i) PROVE RecoveryInv' /\ WorkflowStep
    BY <1>9, ExpiryInv
<1>10. CASE NativeReceipt
    BY <1>10, NativeReceiptInv
<1> QED  BY <1>1, <1>2, <1>3, <1>4, <1>5, <1>6, <1>7, <1>8, <1>9, <1>10, Zenon DEF Next

(* RecoveryInv holds of every reachable state: the tables are well typed,    *)
(* what calls and claims say has happened, and incidents, packets,           *)
(* confirmations and receipts refer to each other.                           *)
THEOREM RecoveryInvariant == Spec => []RecoveryInv
<1>1. RecoveryInv /\ [Next]_vars => RecoveryInv'
    BY StepInv
<1> QED  BY <1>1, InitInv, PTL DEF Spec

(* confirm_manual: an incident resolved by hand was resolved by the receipt  *)
(* of its own packet or by a Native terminal receipt that confirmed no other.*)
THEOREM ManualNeedsItsReceipt == Spec => []ResolvedByItsReceipt
<1>1. RecoveryInv => ResolvedByItsReceipt
    BY DEF RecoveryInv, BridgeInv
<1> QED  BY <1>1, RecoveryInvariant, PTL

(* RecoveryService.execute: what a completed claim reports has happened and  *)
(* still stands, whichever calls raced or died between act and record.       *)
THEOREM ClaimedResultsHappened == Spec => []ResultsHappened
<1>1. RecoveryInv => ResultsHappened
  <2> SUFFICES ASSUME RecoveryInv, NEW c \in Commands, claim[c] # "none"
               PROVE  CASE c.op = "open"    -> incident[c.of].state # "none"
                        [] c.op = "request" -> request[c.of] = c
                        [] c.op = "receive" -> claim[c] = packet[c.of]
                        [] c.op = "confirm" -> incident[PacketOf[c.of]].state = "resolved_manual"
                        [] c.op = "expire"  -> claim[c] = incident[c.of].state
                        [] c.op = "reprobe" -> (claim[c] = "resolved_automatic" => incident[c.of].state = "resolved_automatic")
                        [] c.op = "project" -> claim[c] = shown[c.of]
                        [] c.op = "consume" -> consumer[c.of] = c
      BY DEF ResultsHappened
  <2>1. Happened(c, claim[c]) /\ c.op \in Ops
      BY CommandTypes DEF RecoveryInv, ClaimInv
  <2> QED  BY <2>1 DEF Happened, Ops
<1> QED  BY <1>1, RecoveryInvariant, PTL

(* NodeResponseOutbox.mark: the Node's disposition of an observation is the  *)
(* Domain's, after any number of retried projections.                        *)
THEOREM NodeAndDomainAgree == Spec => []DispositionsAgree
<1>1. RecoveryInv => DispositionsAgree
    BY DEF RecoveryInv
<1> QED  BY <1>1, RecoveryInvariant, PTL

(* The incidents implement IncidentWorkflow: its order of states, one active *)
(* incident at a time and one committed packet per incident.                 *)
THEOREM IncidentsFollowWorkflow == Spec => FollowsWorkflow
<1>1. Init => Workflow!Init
    BY DEF Init, Workflow!Init, NoIncident
<1>2. RecoveryInv /\ [Next]_vars => [Workflow!Next]_<<[i \in Incidents |-> incident[i].state],
                                                     {p \in Packets : packet[p] = "committed"}>>
    BY StepInv DEF WorkflowStep
<1> QED  BY <1>1, <1>2, RecoveryInvariant, PTL DEF Spec, FollowsWorkflow, Workflow!Spec, Workflow!vars

LEMMA ClaimsAreFinal ==
  ASSUME RecoveryInv, [Next]_vars, NEW c \in Commands, claim[c] # "none"
  PROVE  claim'[c] = claim[c]
<1>1. CASE UNCHANGED claim
    BY <1>1
<1>2. ASSUME NEW k \in Calls, Record(k) PROVE claim'[c] = claim[c]
    BY <1>2 DEF Record, RecoveryInv, TypeOK
<1>3. UNCHANGED claim \/ \E k \in Calls : Record(k)
  <2>1. ASSUME NEW k \in Calls, NEW d \in plan, Reserve(k, d) \/ Replay(k, d) PROVE UNCHANGED claim
      BY <2>1 DEF Reserve, Replay
  <2>2. ASSUME NEW k \in Calls, NEW op, NEW out, Acts(k, op, out) PROVE UNCHANGED claim
      BY <2>2 DEF Acts
  <2>3. ASSUME NEW k \in Calls, NEW ok \in BOOLEAN,
               OpenIncident(k, ok) \/ RequestHuman(k, ok) \/ Reprobe(k, ok) \/ ReceiveManual(k, ok)
        PROVE  UNCHANGED claim
      BY <2>2, <2>3 DEF OpenIncident, RequestHuman, Reprobe, ReceiveManual
  <2>4. ASSUME NEW k \in Calls,
               \/ ReprobeAgain(k) \/ ReceiveAgain(k) \/ ConfirmManual(k) \/ ExpireIncident(k)
               \/ ProjectAgain(k) \/ ProjectApplied(k) \/ ProjectFenced(k) \/ Consume(k)
        PROVE  UNCHANGED claim
      BY <2>2, <2>4 DEF ReprobeAgain, ReceiveAgain, ConfirmManual, ExpireIncident,
           ProjectAgain, ProjectApplied, ProjectFenced, Consume
  <2>5. ASSUME NEW k \in Calls, MarkNode(k) \/ Leave(k) PROVE UNCHANGED claim
      BY <2>5 DEF MarkNode, Leave
  <2>6. ASSUME UNCHANGED vars \/ NativeReceipt \/ (\E r \in Responses : Collect(r))
                 \/ (\E p \in Packets : BridgeReceipt(p)) \/ (\E i \in Incidents : ExpiryPasses(i))
        PROVE  UNCHANGED claim
      BY <2>6 DEF vars, NativeReceipt, Collect, BridgeReceipt, ExpiryPasses
  <2> QED  BY <2>1, <2>3, <2>4, <2>5, <2>6, Zenon DEF Next
<1> QED  BY <1>1, <1>2, <1>3

(* RecoveryService._record: a completed claim is final and is the answer of  *)
(* every execution of the command, also of two that acted at the same time.  *)
THEOREM ExecutionsAgree == Spec => AnswersAgree
<1>1. RecoveryInv /\ [Next]_vars =>
        [ /\ \A c \in Commands : claim[c] # "none" => claim'[c] = claim[c]
          /\ \A k \in Calls : call'[k].pc = "answered" => claim'[call'[k].cmd] = call'[k].out ]_vars
  <2> SUFFICES ASSUME RecoveryInv, [Next]_vars
               PROVE  /\ \A c \in Commands : claim[c] # "none" => claim'[c] = claim[c]
                      /\ \A k \in Calls : call'[k].pc = "answered" => claim'[call'[k].cmd] = call'[k].out
      OBVIOUS
  <2>1. CallInv'
      BY StepInv DEF RecoveryInv
  <2> QED  BY <2>1, ClaimsAreFinal DEF CallInv
<1> QED  BY <1>1, RecoveryInvariant, PTL DEF Spec, AnswersAgree

=============================================================================
