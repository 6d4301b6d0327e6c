------------------------------ MODULE Recovery ------------------------------
(***************************************************************************)
(* Delayed responses and Human Bridge incidents of one message:            *)
(* RecoveryService with its command claims (recovery_service.py), the      *)
(* response and incident authorities behind it (recovery.py) and the       *)
(* Node's response Outbox with its collector (response_collector.py).      *)
(*                                                                         *)
(* A command is executed in three transactions: reserve its claim, act,    *)
(* record the result.  Its caller may be refused, fail or die after each   *)
(* and execute the same command again, at the same time even.              *)
(*                                                                         *)
(* A command is a record: op the command type, of the incident, packet or  *)
(* response it names, id what tells commands alike apart; of a reprobe,    *)
(* id also says whether it succeeded.                                      *)
(***************************************************************************)
EXTENDS Naturals, FiniteSets

CONSTANTS
  Incidents,   \* incidents of the message, one per generation
  Packets,     \* manual packets
  Responses,   \* terminal observations of the Native
  Commands,    \* commands
  Plans,       \* sets of commands that callers may issue together
  Calls,       \* executions that may be under way at a time
  PacketOf,    \* packet -> incident it answers
  LayerOf,     \* packet -> layer of the receipt that confirms its direction
  Nothing      \* no command, no packet, no response

VARIABLES
  claim,      \* recovery_command_claims: result of a completed command
  call,       \* executions under way
  incident,   \* recovery_incidents: state, applied_packet_id
  request,    \* human_bridge_requests: command that made the incident's request
  probe,      \* recovery_reprobes: disposition, by command
  packet,     \* human_bridge_packets: disposition
  confirmed,  \* human_bridge_normal_receipts: packet the layer's receipt confirmed
  receipt,    \* delivery_receipts: evidence, by layer
  message,    \* state of delivery_messages and of the attempt
  shown,      \* native_response_observations of the Domain: disposition
  consumer,   \* native_response_consumptions
  observed,   \* native_response_observations of the Node: state
  late,       \* incidents whose expiry has passed
  plan        \* the commands issued, a member of Plans

bridge   == <<incident, request, probe, packet, confirmed>>
response == <<receipt, message, shown, consumer>>
outside  == <<late, plan>>
vars == <<claim, call, bridge, response, observed, outside>>

IncidentStates == {"open", "human_requested", "manual_packet_committed", "resolved_automatic",
                   "resolved_manual", "expired", "cancelled"}

ActiveStates == {"open", "human_requested", "manual_packet_committed"}

Dispositions == {"applied", "fenced_late"}

Layers == {"target_inbox_committed", "response_received"}

Results == IncidentStates \cup Dispositions \cup {"committed", "response_consumed"}

Ops == {"open", "request", "reprobe", "receive", "confirm", "expire", "project", "consume"}

IncidentOf(c) == IF c.op \in {"receive", "confirm"} THEN PacketOf[c.of] ELSE c.of

NoIncident == [state |-> "none", packet |-> Nothing]
NoReceipt  == [by |-> "none", of |-> Nothing]
Idle       == [pc |-> "idle", cmd |-> Nothing, out |-> "none"]

ASSUME RecoveryAssumption ==
  /\ PacketOf \in [Packets -> Incidents] /\ LayerOf \in [Packets -> Layers]
  /\ Nothing \notin Commands \cup Packets \cup Responses
  /\ Plans \subseteq SUBSET Commands
  /\ \A c \in Commands :
       /\ c.op \in Ops
       /\ c.of \in CASE c.op \in {"receive", "confirm"} -> Packets
                     [] c.op \in {"project", "consume"} -> Responses
                     [] OTHER -> Incidents

Init ==
  /\ claim = [c \in Commands |-> "none"] /\ call = [k \in Calls |-> Idle]
  /\ incident = [i \in Incidents |-> NoIncident] /\ request = [i \in Incidents |-> Nothing]
  /\ probe = [c \in Commands |-> "none"] /\ packet = [p \in Packets |-> "none"]
  /\ confirmed = [l \in Layers |-> Nothing] /\ receipt = [l \in Layers |-> NoReceipt]
  /\ message = "uncertain" /\ shown = [r \in Responses |-> "none"]
  /\ consumer = [r \in Responses |-> Nothing] /\ observed = [r \in Responses |-> "none"]
  /\ late = {} /\ plan \in Plans

-----------------------------------------------------------------------------
(* RecoveryService.execute: reserve, act, record.                          *)

\* What _reserve checks besides the Grant: a scope to authorize for, the Node's
\* own copy of the observation, a response nobody else consumed.
Admissible(c) ==
  CASE c.op = "open"    -> TRUE
    [] c.op = "project" -> observed[c.of] # "none"
    [] c.op = "consume" -> shown[c.of] = "applied" /\ consumer[c.of] \in {Nothing, c}
    [] OTHER            -> incident[IncidentOf(c)].state # "none"

\* _reserve for a command that is new, or whose pending claim an earlier call left.
Reserve(k, c) ==
  /\ call[k].pc = "idle" /\ Admissible(c) /\ claim[c] = "none"
  /\ call' = [call EXCEPT ![k] = [pc |-> "reserved", cmd |-> c, out |-> "none"]]
  /\ UNCHANGED <<claim, bridge, response, observed, outside>>

\* _reserve for a completed command: the stored result, as a duplicate.
Replay(k, c) ==
  /\ call[k].pc = "idle" /\ Admissible(c) /\ claim[c] # "none"
  /\ call' = [call EXCEPT ![k] = [pc |-> "answered", cmd |-> c, out |-> claim[c]]]
  /\ UNCHANGED <<claim, bridge, response, observed, outside>>

\* A call that reserved command c of type op acts, with result out.
Acts(k, op, out) ==
  /\ call[k].pc = "reserved" /\ call[k].cmd.op = op
  /\ call' = [call EXCEPT ![k].pc = "acted", ![k].out = out]
  /\ UNCHANGED <<claim, observed, outside>>

\* Mutant: _record stores and returns what this call saw, whatever the claim says.
RecordOverwrites(k) ==
  /\ call[k].pc = "acted"
  /\ claim' = [claim EXCEPT ![call[k].cmd] = call[k].out]
  /\ call' = [call EXCEPT ![k].pc = "answered"]
  /\ UNCHANGED <<bridge, response, observed, outside>>

\* _record: a claim completed meanwhile answers with the stored result.
Record(k) ==
  LET c == call[k].cmd
      done == IF claim[c] # "none" THEN claim[c] ELSE call[k].out
  IN /\ call[k].pc = "acted"
     /\ claim' = [claim EXCEPT ![c] = done]
     /\ call' = [call EXCEPT ![k].pc = "answered", ![k].out = done]
     /\ UNCHANGED <<bridge, response, observed, outside>>

\* The caller has its answer; or the call is denied, refused or lost on the way.
Leave(k) ==
  /\ call[k].pc # "idle"
  /\ call' = [call EXCEPT ![k] = Idle]
  /\ UNCHANGED <<claim, bridge, response, observed, outside>>

-----------------------------------------------------------------------------
(* PostgresHumanBridgeAuthority.                                           *)

\* The clock and _bridge_snapshot, read again under the incident's lock; ok is
\* what the snapshot says of the work item.
BridgeCurrent(i, ok) == ok /\ i \notin late

Move(i, state) == incident' = [incident EXCEPT ![i].state = state]

\* open_incident: the incident is stored once. That a message has one active
\* incident is the unique index of the legacy schema, not a test of the code.
OpenIncident(k, ok) ==
  LET i == IncidentOf(call[k].cmd)
  IN /\ Acts(k, "open", "open") /\ BridgeCurrent(i, ok)
     /\ \/ incident[i].state # "none" /\ UNCHANGED incident
        \/ incident[i].state = "none" /\ Move(i, "open")
           /\ \A j \in Incidents : incident[j].state \notin ActiveStates
     /\ UNCHANGED <<request, probe, packet, confirmed, response>>

\* request_human: one request per incident, which goes to the Outbox.
RequestHuman(k, ok) ==
  LET c == call[k].cmd
      i == IncidentOf(c)
  IN /\ Acts(k, "request", "human_requested") /\ BridgeCurrent(i, ok)
     /\ \/ request[i] = c /\ UNCHANGED <<incident, request>>
        \/ /\ request[i] = Nothing /\ incident[i].state = "open"
           /\ request' = [request EXCEPT ![i] = c] /\ Move(i, "human_requested")
     /\ UNCHANGED <<probe, packet, confirmed, response>>

\* reprobe for a reprobe that is stored already.
ReprobeAgain(k) ==
  LET c == call[k].cmd
  IN /\ call[k].cmd # Nothing /\ probe[c] # "none"
     /\ Acts(k, "reprobe", IF probe[c] = "fenced_late" THEN "fenced_late"
                           ELSE incident[IncidentOf(c)].state)
     /\ UNCHANGED <<bridge, response>>

\* Mutant: an observation of the automatic path counts in every state.
ReprobeAnytime(k, ok) ==
  LET c == call[k].cmd
      i == IncidentOf(c)
      now == BridgeCurrent(i, ok)
      state == IF now /\ c.id = "succeeded" THEN "resolved_automatic" ELSE incident[i].state
  IN /\ c # Nothing /\ probe[c] = "none"
     /\ Acts(k, "reprobe", IF now THEN state ELSE "fenced_late")
     /\ probe' = [probe EXCEPT ![c] = IF now THEN "observed" ELSE "fenced_late"]
     /\ Move(i, state)
     /\ UNCHANGED <<request, packet, confirmed, response>>

\* reprobe: a success resolves an incident nobody has answered yet.
Reprobe(k, ok) ==
  LET c == call[k].cmd
      i == IncidentOf(c)
      now == BridgeCurrent(i, ok) /\ incident[i].state \in {"open", "human_requested"}
      state == IF now /\ c.id = "succeeded" THEN "resolved_automatic" ELSE incident[i].state
  IN /\ c # Nothing /\ probe[c] = "none"
     /\ Acts(k, "reprobe", IF now THEN state ELSE "fenced_late")
     /\ probe' = [probe EXCEPT ![c] = IF now THEN "observed" ELSE "fenced_late"]
     /\ Move(i, state)
     /\ UNCHANGED <<request, packet, confirmed, response>>

\* receive_manual for a packet that is stored already, by whichever command.
ReceiveAgain(k) ==
  LET p == call[k].cmd.of
  IN /\ call[k].pc = "reserved" /\ call[k].cmd.op = "receive" /\ packet[p] # "none"
     /\ Acts(k, "receive", packet[p])
     /\ UNCHANGED <<bridge, response>>

\* receive_manual: the packet is committed for a requested incident, else fenced.
ReceiveManual(k, ok) ==
  LET p == call[k].cmd.of
      i == PacketOf[p]
      now == BridgeCurrent(i, ok) /\ incident[i].state = "human_requested"
  IN /\ call[k].pc = "reserved" /\ call[k].cmd.op = "receive" /\ packet[p] = "none"
     /\ Acts(k, "receive", IF now THEN "committed" ELSE "fenced_late")
     /\ packet' = [packet EXCEPT ![p] = IF now THEN "committed" ELSE "fenced_late"]
     /\ incident' = IF now THEN [incident EXCEPT ![i] = [state |-> "manual_packet_committed", packet |-> p]]
                    ELSE incident
     /\ UNCHANGED <<request, probe, confirmed, response>>

\* Mutant: any receipt of the layer will do.
BindsAny(l, p) == receipt[l].by # "none"

\* The normal receipt names the packet, or is a completed Native terminal receipt.
Binds(l, p) == receipt[l] = [by |-> "bridge", of |-> p] \/ receipt[l].by = "native"

\* confirm_manual: the receipt of the packet's layer resolves its incident.
ConfirmManual(k) ==
  LET p == call[k].cmd.of
      i == PacketOf[p]
      l == LayerOf[p]
  IN /\ call[k].pc = "reserved" /\ call[k].cmd.op = "confirm"
     /\ incident[i].packet = p /\ incident[i].state \in {"manual_packet_committed", "resolved_manual"}
     /\ Binds(l, p) /\ confirmed[l] \in {Nothing, p}
     /\ Acts(k, "confirm", "resolved_manual")
     /\ confirmed' = [confirmed EXCEPT ![l] = p]
     /\ IF confirmed[l] = p THEN UNCHANGED incident ELSE Move(i, "resolved_manual")
     /\ UNCHANGED <<request, probe, packet, response>>

\* expire: an incident that is not settled expires once its time has passed.
ExpireIncident(k) ==
  LET i == IncidentOf(call[k].cmd)
      settled == incident[i].state \notin ActiveStates
  IN /\ call[k].pc = "reserved" /\ call[k].cmd.op = "expire"
     /\ settled \/ i \in late
     /\ Acts(k, "expire", IF settled THEN incident[i].state ELSE "expired")
     /\ IF settled THEN UNCHANGED incident ELSE Move(i, "expired")
     /\ UNCHANGED <<request, probe, packet, confirmed, response>>

-----------------------------------------------------------------------------
(* Delayed responses: the Node's Outbox and the Domain's projection.       *)

\* NativeResponseCollector._collect, record: the terminal observation of a response
\* that is to be projected is stored once.
Collect(r) ==
  /\ \E c \in plan : c.op = "project" /\ c.of = r
  /\ observed[r] = "none" /\ observed' = [observed EXCEPT ![r] = "pending"]
  /\ UNCHANGED <<claim, call, bridge, response, outside>>

\* Mutant: a second projection judges the observation afresh.
ProjectAnew(k) ==
  LET r == call[k].cmd.of
  IN /\ call[k].pc = "reserved" /\ call[k].cmd.op = "project" /\ shown[r] = "applied"
     /\ Acts(k, "project", "fenced_late")
     /\ shown' = [shown EXCEPT ![r] = "fenced_late"]
     /\ UNCHANGED <<bridge, receipt, message, consumer>>

\* project for an observation that has a disposition.
ProjectAgain(k) ==
  LET r == call[k].cmd.of
  IN /\ call[k].pc = "reserved" /\ call[k].cmd.op = "project" /\ shown[r] # "none"
     /\ Acts(k, "project", shown[r])
     /\ UNCHANGED <<bridge, response>>

\* project when the second snapshot finds everything current: the response receipt, and the message and attempt delivered.
ProjectApplied(k) ==
  LET r == call[k].cmd.of
  IN /\ call[k].pc = "reserved" /\ call[k].cmd.op = "project" /\ shown[r] = "none"
     /\ receipt["response_received"] = NoReceipt
     /\ Acts(k, "project", "applied")
     /\ shown' = [shown EXCEPT ![r] = "applied"]
     /\ receipt' = [receipt EXCEPT !["response_received"] = [by |-> "projection", of |-> r]]
     /\ message' = "delivered"
     /\ UNCHANGED <<bridge, consumer>>

\* project when it finds anything changed: the observation is kept as evidence only.
ProjectFenced(k) ==
  LET r == call[k].cmd.of
  IN /\ call[k].pc = "reserved" /\ call[k].cmd.op = "project" /\ shown[r] = "none"
     /\ Acts(k, "project", "fenced_late")
     /\ shown' = [shown EXCEPT ![r] = "fenced_late"]
     /\ UNCHANGED <<bridge, receipt, message, consumer>>

\* NodeResponseOutbox.mark with the disposition the Domain answered.
MarkNode(k) ==
  LET r == call[k].cmd.of
  IN /\ call[k].pc = "answered" /\ call[k].cmd.op = "project"
     /\ observed[r] \in {"pending", call[k].out}
     /\ observed' = [observed EXCEPT ![r] = call[k].out]
     /\ call' = [call EXCEPT ![k] = Idle]
     /\ UNCHANGED <<claim, bridge, response, outside>>

\* Mutant: the consumption is stored without a look at an earlier one.
ConsumeOver(k) ==
  LET c == call[k].cmd
  IN /\ call[k].pc = "reserved" /\ c.op = "consume" /\ shown[c.of] = "applied"
     /\ Acts(k, "consume", "response_consumed")
     /\ consumer' = [consumer EXCEPT ![c.of] = c]
     /\ UNCHANGED <<bridge, receipt, message, shown>>

\* delivery.response.consume: one command consumes an applied response.
Consume(k) ==
  LET c == call[k].cmd
  IN /\ call[k].pc = "reserved" /\ c.op = "consume" /\ shown[c.of] = "applied"
     /\ consumer[c.of] \in {Nothing, c}
     /\ Acts(k, "consume", "response_consumed")
     /\ consumer' = [consumer EXCEPT ![c.of] = c]
     /\ UNCHANGED <<bridge, receipt, message, shown>>

-----------------------------------------------------------------------------
(* The environment.                                                        *)

\* Delivery commits a receipt that carries the binding of a committed packet.
BridgeReceipt(p) ==
  /\ packet[p] = "committed" /\ receipt[LayerOf[p]] = NoReceipt
  /\ receipt' = [receipt EXCEPT ![LayerOf[p]] = [by |-> "bridge", of |-> p]]
  /\ UNCHANGED <<claim, call, bridge, message, shown, consumer, observed, outside>>

\* Delivery commits the receipt of a completed Native turn.
NativeReceipt ==
  /\ receipt["response_received"] = NoReceipt
  /\ receipt' = [receipt EXCEPT !["response_received"] = [by |-> "native", of |-> Nothing]]
  /\ UNCHANGED <<claim, call, bridge, message, shown, consumer, observed, outside>>

ExpiryPasses(i) ==
  /\ incident[i].state # "none" /\ i \notin late /\ late' = late \cup {i}
  /\ UNCHANGED <<claim, call, bridge, response, observed, plan>>

Next ==
  \/ \E k \in Calls :
       \/ \E c \in plan : Reserve(k, c) \/ Replay(k, c)
       \/ \E ok \in BOOLEAN :
            OpenIncident(k, ok) \/ RequestHuman(k, ok) \/ Reprobe(k, ok) \/ ReceiveManual(k, ok)
       \/ ReprobeAgain(k) \/ ReceiveAgain(k) \/ ConfirmManual(k) \/ ExpireIncident(k)
       \/ ProjectAgain(k) \/ ProjectApplied(k) \/ ProjectFenced(k) \/ Consume(k)
       \/ Record(k) \/ MarkNode(k) \/ Leave(k)
  \/ \E r \in Responses : Collect(r)
  \/ \E p \in Packets : BridgeReceipt(p)
  \/ \E i \in Incidents : ExpiryPasses(i)
  \/ NativeReceipt

Spec == Init /\ [][Next]_vars

-----------------------------------------------------------------------------
(* Properties.                                                             *)

Executions  == [pc : {"idle", "reserved", "acted", "answered"}, cmd : Commands \cup {Nothing},
                out : Results \cup {"none"}]
IncidentRow == [state : IncidentStates \cup {"none"}, packet : Packets \cup {Nothing}]
ReceiptRow  == [by : {"none", "bridge", "native", "projection"}, of : Packets \cup Responses \cup {Nothing}]

TypeOK ==
  /\ claim \in [Commands -> Results \cup {"none"}]
  /\ call \in [Calls -> Executions]
  /\ incident \in [Incidents -> IncidentRow]
  /\ request \in [Incidents -> Commands \cup {Nothing}]
  /\ probe \in [Commands -> {"none", "observed", "fenced_late"}]
  /\ packet \in [Packets -> {"none", "committed", "fenced_late"}]
  /\ confirmed \in [Layers -> Packets \cup {Nothing}]
  /\ receipt \in [Layers -> ReceiptRow]
  /\ message \in {"uncertain", "delivered"}
  /\ shown \in [Responses -> Dispositions \cup {"none"}]
  /\ consumer \in [Responses -> Commands \cup {Nothing}]
  /\ observed \in [Responses -> Dispositions \cup {"none", "pending"}]
  /\ late \subseteq Incidents /\ plan \in Plans
  /\ \A k \in Calls : call[k].cmd = Nothing <=> call[k].pc = "idle"

\* Every incident follows the workflow: whichever reprobes, packets, receipts and
\* expiries race for it, and however often they are repeated.
Workflow == INSTANCE IncidentWorkflow WITH
  state <- [i \in Incidents |-> incident[i].state],
  committed <- {p \in Packets : packet[p] = "committed"}

FollowsWorkflow == Workflow!Spec

\* An incident resolved by hand was resolved by the receipt of its own packet, or
\* by a Native terminal receipt that no other packet has used (confirm_manual).
ResolvedByItsReceipt ==
  \A i \in Incidents : incident[i].state = "resolved_manual" =>
    LET p == incident[i].packet
    IN p \in Packets /\ packet[p] = "committed" /\ confirmed[LayerOf[p]] = p
       /\ receipt[LayerOf[p]] \in {[by |-> "bridge", of |-> p], [by |-> "native", of |-> Nothing]}

\* What a completed command reports has happened and still stands, although the
\* action and its record are separate transactions and calls die in between.
ResultsHappened ==
  \A c \in Commands : claim[c] # "none" =>
    CASE c.op = "open"    -> incident[c.of].state # "none"
      [] c.op = "request" -> request[c.of] = c
      [] c.op = "receive" -> claim[c] = packet[c.of]
      [] c.op = "confirm" -> incident[PacketOf[c.of]].state = "resolved_manual"
      [] c.op = "expire"  -> claim[c] = incident[c.of].state
      [] c.op = "reprobe" -> claim[c] = "resolved_automatic" => incident[c.of].state = "resolved_automatic"
      [] c.op = "project" -> claim[c] = shown[c.of]
      [] c.op = "consume" -> consumer[c.of] = c

\* All executions of one command give one answer, also two at the same time of
\* which each has acted: a completed claim is final and is what every call returns.
AnswersAgree == [][
  /\ \A c \in Commands : claim[c] # "none" => claim'[c] = claim[c]
  /\ \A k \in Calls : call'[k].pc = "answered" =>
       claim'[call'[k].cmd] = call'[k].out]_vars

\* The Node never holds a disposition other than the Domain's, although the
\* context changes between the retries of a projection.
DispositionsAgree ==
  \A r \in Responses : observed[r] \in Dispositions => shown[r] = observed[r]

=============================================================================
