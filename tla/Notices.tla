------------------------------- MODULE Notices -------------------------------
(***************************************************************************)
(* Obstacle notices: who supervises whom, and how the notice about a       *)
(* message that could not be delivered climbs from manager to manager.     *)
(*                                                                         *)
(* Every action is one transaction.  A notice that asks for a Native turn  *)
(* is itself a message of the delivery ledger; of its delivery only the    *)
(* outcomes that Delivery admits are kept: without a dispatch marker it    *)
(* fails or ends in doubt, with one it is delivered or in doubt.           *)
(***************************************************************************)
EXTENDS Naturals, FiniteSets

CONSTANTS
  Slots,      \* Agent slots of one project (collaborator: addresses)
  Clients,    \* Client addresses
  Messages,   \* natural messages that meet an obstacle
  Target,     \* message |-> target Agent slot
  Sender,     \* message |-> sender address
  MaxChain    \* longest manager chain bind_supervisor follows (128)

Addresses == Slots \cup Clients

NoManager == "no manager"

ASSUME NoticesAssumption ==
  /\ Slots \cap Clients = {} /\ NoManager \notin Addresses
  /\ Target \in [Messages -> Slots] /\ Sender \in [Messages -> Addresses]
  /\ MaxChain \in Nat

VARIABLES
  manager,   \* communication_supervisors: slot |-> manager address
  clients,   \* communication_clients of the project
  obstacle,  \* first obstacle of every message, "none" before
  notice     \* communication_notices with their communication_notice_routes

vars == <<manager, clients, obstacle, notice>>

\* The obstacle states; "uncertain" is the one that may have had an effect.
ObstacleStates == {"blocked", "uncertain"}

\* What became of the notice's own message: not queued, open without and with
\* a dispatch marker, and the outcomes.
NoticeStates == {"none", "queued", "dispatched", "delivered", "uncertain", "failed"}

NoticeRows ==
  [sent : BOOLEAN, source : Slots, native : BOOLEAN, delivery : NoticeStates]

NoNotice ==
  [sent |-> FALSE, source |-> CHOOSE s \in Slots : TRUE, native |-> FALSE,
   delivery |-> "none"]

Init ==
  /\ manager  = [s \in Slots |-> NoManager]
  /\ clients  = {}
  /\ obstacle = [m \in Messages |-> "none"]
  /\ notice   = [m \in Messages |-> [a \in Addresses |-> NoNotice]]

---------------------------------------------------------------------------
(* Supervision *)

Closed(C) == \A s \in C \cap Slots : manager[s] # NoManager => manager[s] \in C

\* The addresses bind_supervisor visits from a upwards.
Chain(a) ==
  {x \in Addresses : \A C \in SUBSET Addresses : a \in C /\ Closed(C) => x \in C}

\* Mutant: only the immediate manager is compared.
BindShallow(s, a) ==
  /\ a # s
  /\ manager[s] = NoManager
  /\ a \in Slots => manager[a] # s
  /\ manager' = [manager EXCEPT ![s] = a]
  /\ UNCHANGED <<clients, obstacle, notice>>

\* The configuring manager is adopted once.  configure_team does not bind a
\* manager to itself; a chain that meets s, or is too long, raises.
BindSupervisor(s, a) ==
  /\ a # s
  /\ manager[s] = NoManager
  /\ s \notin Chain(a) /\ Cardinality(Chain(a)) <= MaxChain
  /\ manager' = [manager EXCEPT ![s] = a]
  /\ UNCHANGED <<clients, obstacle, notice>>

AddClient(c) ==
  /\ c \notin clients
  /\ clients' = clients \cup {c}
  /\ UNCHANGED <<manager, obstacle, notice>>

---------------------------------------------------------------------------
(* Recording and forwarding *)

\* _forward: the manager of the slot, else the only Client, else the sender.
Recipients(m, s) ==
  IF manager[s] # NoManager THEN {manager[s]}
  ELSE IF Cardinality(clients) = 1 THEN clients
  ELSE {Sender[m]}

\* Only a managing Agent is invoked.
Invokable(s) == manager[s] \in Slots

\* _insert: ON CONFLICT DO NOTHING on (message, recipient).
Insert(rows, a, s, native) ==
  IF rows[a].sent THEN rows
  ELSE [rows EXCEPT ![a] = [sent |-> TRUE, source |-> s, native |-> native,
                            delivery |-> "none"]]

\* Mutant: an unknown outcome invokes the manager as well.
RecordObstacleAlways(m, state) ==
  /\ obstacle[m] = "none"
  /\ obstacle' = [obstacle EXCEPT ![m] = state]
  /\ \E a \in Recipients(m, Target[m]) :
       notice' = [notice EXCEPT ![m] = Insert(@, a, Target[m], Invokable(Target[m]))]
  /\ UNCHANGED <<manager, clients>>

\* record_obstacle for a natural message.
RecordObstacle(m, state) ==
  /\ obstacle[m] = "none"
  /\ obstacle' = [obstacle EXCEPT ![m] = state]
  /\ \E a \in Recipients(m, Target[m]) :
       notice' = [notice EXCEPT ![m] =
                    Insert(@, a, Target[m], Invokable(Target[m]) /\ state # "uncertain")]
  /\ UNCHANGED <<manager, clients>>

\* Mutant: the request for a Native turn is not withdrawn.
UnreachableRequested(m, a, delivery) ==
  \E next \in Recipients(m, a) :
    notice' = [notice EXCEPT ![m] =
                 Insert([@ EXCEPT ![a].delivery = delivery], next, a, Invokable(a))]

\* _unreachable: a's request is withdrawn and the notice moves one up.
Unreachable(m, a, delivery) ==
  \E next \in Recipients(m, a) :
    notice' = [notice EXCEPT ![m] =
                 Insert([@ EXCEPT ![a].native = FALSE, ![a].delivery = delivery],
                        next, a, Invokable(a))]

---------------------------------------------------------------------------
(* queue_communication_notices and the notice's own delivery *)

Pending(m, a) == notice[m][a].native /\ notice[m][a].delivery = "none"

SetDelivery(m, a, state) == notice' = [notice EXCEPT ![m][a].delivery = state]

QueueNotice(m, a) ==
  /\ Pending(m, a)
  /\ SetDelivery(m, a, "queued")
  /\ UNCHANGED <<manager, clients, obstacle>>

\* Not exactly one manager role and one endpoint, or send_message refuses.
QueueFails(m, a) ==
  /\ Pending(m, a)
  /\ Unreachable(m, a, "none")
  /\ UNCHANGED <<manager, clients, obstacle>>

\* The dispatch marker of the notice.
NoticeDispatched(m, a) ==
  /\ notice[m][a].delivery = "queued"
  /\ SetDelivery(m, a, "dispatched")
  /\ UNCHANGED <<manager, clients, obstacle>>

\* Blocked, expired or out of attempts before the marker: record_obstacle for
\* the notice forwards it.  With a marker there is no such outcome (Delivery:
\* MarkedOnlyReadBack), so its other alternative never applies.
NoticeFails(m, a) ==
  /\ notice[m][a].delivery = "queued"
  /\ Unreachable(m, a, "failed")
  /\ UNCHANGED <<manager, clients, obstacle>>

\* Mutant: doubt about the notice is taken for unreachability.
NoticeDoubtForwards(m, a) ==
  /\ notice[m][a].delivery \in {"queued", "dispatched"}
  /\ Unreachable(m, a, "uncertain")
  /\ UNCHANGED <<manager, clients, obstacle>>

\* record_obstacle leaves an uncertain notice where it is.
NoticeDoubt(m, a) ==
  /\ notice[m][a].delivery \in {"queued", "dispatched"}
  /\ SetDelivery(m, a, "uncertain")
  /\ UNCHANGED <<manager, clients, obstacle>>

\* The acknowledgement, at once or read back after a doubt.
NoticeDelivered(m, a) ==
  /\ notice[m][a].delivery \in {"dispatched", "uncertain"}
  /\ SetDelivery(m, a, "delivered")
  /\ UNCHANGED <<manager, clients, obstacle>>

NoticeStep(m, a) ==
  \/ QueueNotice(m, a) \/ QueueFails(m, a) \/ NoticeDispatched(m, a)
  \/ NoticeFails(m, a) \/ NoticeDoubt(m, a) \/ NoticeDelivered(m, a)

Next ==
  \/ \E s \in Slots, a \in Addresses : BindSupervisor(s, a)
  \/ \E c \in Clients : AddClient(c)
  \/ \E m \in Messages :
       \/ \E state \in ObstacleStates : RecordObstacle(m, state)
       \/ \E a \in Slots : NoticeStep(m, a)

Spec == Init /\ [][Next]_vars

\* The maintenance loop queues pending notices and dispatches queued ones.
FairSpec ==
  Spec /\ \A m \in Messages, a \in Slots : WF_vars(NoticeStep(m, a))

---------------------------------------------------------------------------
(* Properties *)

\* Every component of the state has its type.
TypeOK ==
  /\ manager  \in [Slots -> Addresses \cup {NoManager}]
  /\ clients  \subseteq Clients
  /\ obstacle \in [Messages -> {"none"} \cup ObstacleStates]
  /\ notice   \in [Messages -> [Addresses -> NoticeRows]]

\* Bound one by one in any order, managers never supervise in a circle: no
\* set of slots keeps all of its managers inside itself (bind_supervisor).
SupervisionAcyclic ==
  \A S \in SUBSET Slots : S # {} => \E s \in S : manager[s] \notin S

\* A notice that a manager may have accepted is not forwarded past that
\* manager, however its delivery is settled later (record_obstacle).
AcceptanceStops ==
  \A m \in Messages, a, b \in Addresses :
    /\ notice[m][a].delivery \in {"dispatched", "delivered", "uncertain"}
    /\ notice[m][b].sent
    => notice[m][b].source # a

\* At most one manager at a time is asked to act on a message.
OneManagerActs ==
  \A m \in Messages, a, b \in Addresses :
    notice[m][a].native /\ notice[m][b].native => a = b

\* When the outcome of the message itself is unknown, nobody is invoked about
\* it (record_obstacle, _unreachable).
UnknownInvokesNobody ==
  \A m \in Messages, a \in Addresses :
    obstacle[m] = "uncertain" => ~notice[m][a].native /\ notice[m][a].delivery = "none"

\* Every obstacle comes to rest: it is retained by somebody, and no manager is
\* asked for ever (queue_communication_notices, _unreachable).
EventuallyRetained ==
  \A m \in Messages :
    obstacle[m] # "none" ~>
      /\ \E a \in Addresses : notice[m][a].sent
      /\ \A a \in Addresses :
           notice[m][a].native => notice[m][a].delivery \in {"delivered", "uncertain"}
=============================================================================
