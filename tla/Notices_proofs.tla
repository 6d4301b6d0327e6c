--------------------------- MODULE Notices_proofs ---------------------------
(***************************************************************************)
(* Proofs about Notices for every team, every set of messages and every    *)
(* order in which managers are bound and notices fail.                     *)
(***************************************************************************)
EXTENDS Notices, TLAPS

\* Some notice of n was forwarded on behalf of slot s.
IsSource(n, s) == \E b \in Addresses : n[b].sent /\ n[b].source = s

\* The notices n of one message whose first obstacle is o.
NoticesInv(n, o) ==
  /\ o = "none" => \A a \in Addresses : ~n[a].sent
  /\ o \in {"none", "uncertain"} =>
       \A a \in Addresses : ~n[a].native /\ n[a].delivery = "none"
  /\ \A a \in Addresses :
       n[a].delivery \in {"queued", "dispatched", "uncertain", "delivered"} => n[a].native
  /\ \A a \in Addresses : n[a].native => a \in Slots /\ ~IsSource(n, a)
  /\ \A a, b \in Addresses : n[a].native /\ n[b].native => a = b

\* While a manager is asked, the slots the notice came from are exactly below
\* that manager: each one's manager is another of them or the one asked.
Climbs(n, mgr) ==
  \A a \in Addresses, s \in Slots :
    n[a].native /\ IsSource(n, s) =>
      mgr[s] = a \/ (mgr[s] \in Slots /\ IsSource(n, mgr[s]))

Inv ==
  /\ TypeOK
  /\ SupervisionAcyclic
  /\ \A m \in Messages : NoticesInv(notice[m], obstacle[m]) /\ Climbs(notice[m], manager)

\* Binding s to a manager whose chain avoids s closes no circle: a set that
\* kept its managers after the binding would keep them within that chain
\* before it (bind_supervisor).
LEMMA BindKeepsAcyclic ==
  ASSUME TypeOK, SupervisionAcyclic, NEW s \in Slots, NEW a \in Addresses,
         BindSupervisor(s, a)
  PROVE  SupervisionAcyclic'
<1> SUFFICES ASSUME NEW S \in SUBSET Slots, S # {}, \A x \in S : manager'[x] \in S
             PROVE  FALSE
  BY DEF SupervisionAcyclic
<1>1. manager'[s] = a /\ \A x \in Slots : x # s => manager'[x] = manager[x]
  BY DEF BindSupervisor, TypeOK
<1>2. s \in S
  BY <1>1 DEF SupervisionAcyclic
<1>3. PICK C \in SUBSET Addresses : a \in C /\ Closed(C) /\ s \notin C
  BY DEF BindSupervisor, Chain, Addresses
<1>4. S \cap C \in SUBSET Slots /\ S \cap C # {}
  BY <1>1, <1>2, <1>3
<1>5. \A x \in S \cap C : manager[x] \in S \cap C
  <2> TAKE x \in S \cap C
  <2>1. manager[x] = manager'[x] /\ manager[x] \in S
    BY <1>1, <1>3
  <2>2. manager[x] # NoManager
    BY <2>1, NoticesAssumption DEF Addresses
  <2>3. QED BY <1>3, <2>1, <2>2 DEF Closed
<1>6. QED BY <1>4, <1>5 DEF SupervisionAcyclic

\* A binding is never replaced, so a notice keeps climbing.
LEMMA BindKeepsClimbing ==
  ASSUME TypeOK, NEW s \in Slots, NEW a \in Addresses, BindSupervisor(s, a),
         NEW n, Climbs(n, manager), \A x \in Addresses : n[x].native => x \in Slots
  PROVE  Climbs(n, manager')
<1>1. manager[s] = NoManager /\ \A x \in Slots : x # s => manager'[x] = manager[x]
  BY DEF BindSupervisor, TypeOK
<1>2. \A x \in Slots : manager[x] \in Slots => manager'[x] = manager[x]
  BY <1>1, NoticesAssumption DEF Addresses
<1>3. QED BY <1>2 DEF Climbs

\* _forward names addresses of the project, and a manager where it invokes.
LEMMA RecipientsTyped ==
  ASSUME TypeOK, NEW m \in Messages, NEW s \in Slots
  PROVE  /\ Recipients(m, s) \subseteq Addresses /\ Invokable(s) \in BOOLEAN
         /\ Invokable(s) => Recipients(m, s) = {manager[s]} /\ manager[s] \in Slots
  BY NoticesAssumption DEF Recipients, TypeOK, Addresses, Invokable

\* _insert keeps the rows typed and adds at most one request and one source.
LEMMA InsertTyped ==
  ASSUME NEW n \in [Addresses -> NoticeRows], NEW a \in Addresses, NEW s \in Slots,
         NEW native \in BOOLEAN
  PROVE  LET n2 == Insert(n, a, s, native)
         IN  /\ n2 \in [Addresses -> NoticeRows]
             /\ \A b \in Addresses :
                  \/ n2[b] = n[b]
                  \/ /\ b = a /\ ~n[b].sent /\ n2[b].native = native
                     /\ n2[b].sent /\ n2[b].source = s /\ n2[b].delivery = "none"
             /\ n2[a].sent
  BY DEF Insert, NoticeRows, NoticeStates

\* A first obstacle creates one notice, without a request when the outcome of
\* the message is unknown (record_obstacle).
LEMMA RecordPreserves ==
  ASSUME Inv, NEW m \in Messages, NEW o \in ObstacleStates, RecordObstacle(m, o)
  PROVE  Inv'
<1>1. notice[m] \in [Addresses -> NoticeRows] /\ Target[m] \in Slots
  BY NoticesAssumption DEF Inv, TypeOK
<1>2. PICK a \in Recipients(m, Target[m]) :
        notice' = [notice EXCEPT ![m] =
                     Insert(@, a, Target[m], Invokable(Target[m]) /\ o # "uncertain")]
  BY DEF RecordObstacle
<1> DEFINE req == Invokable(Target[m]) /\ o # "uncertain"
           n == Insert(notice[m], a, Target[m], req)
<1>3. /\ a \in Addresses /\ req \in BOOLEAN /\ (o = "uncertain" => ~req)
      /\ req => a = manager[Target[m]] /\ manager[Target[m]] \in Slots
  BY <1>1, RecipientsTyped DEF Inv
<1>4. notice' = [notice EXCEPT ![m] = n]
  BY <1>2
<1> HIDE DEF req
<1>5. /\ n \in [Addresses -> NoticeRows]
      /\ \A b \in Addresses :
           \/ n[b] = notice[m][b]
           \/ /\ b = a /\ ~notice[m][b].sent /\ n[b].native = req
              /\ n[b].sent /\ n[b].source = Target[m] /\ n[b].delivery = "none"
      /\ n[a].sent
  BY <1>1, <1>3, InsertTyped
<1> HIDE DEF n
<1>6. TypeOK'
  BY <1>4, <1>5 DEF Inv, TypeOK, RecordObstacle, ObstacleStates
<1>7. NoticesInv(notice[m], "none")
  BY DEF Inv, RecordObstacle
<1>8. \A x \in Slots : IsSource(n, x) => x = Target[m]
  BY <1>3, <1>5, <1>7 DEF NoticesInv, IsSource
<1>9. \A b \in Addresses : n[b].native => b = a /\ req
  BY <1>5, <1>7 DEF NoticesInv
<1>10. manager[Target[m]] # Target[m]
  <2>1. {Target[m]} \in SUBSET Slots /\ {Target[m]} # {}
    BY <1>1
  <2>2. QED BY <2>1 DEF Inv, SupervisionAcyclic
<1>11. NoticesInv(n, o)
  <2>1. \A b \in Addresses : n[b].delivery = "none"
    BY <1>5, <1>7 DEF NoticesInv
  <2>2. \A b \in Addresses : n[b].native => b \in Slots /\ ~IsSource(n, b)
    BY <1>3, <1>8, <1>9, <1>10
  <2>3. \A b \in Addresses : o = "uncertain" => ~n[b].native
    BY <1>3, <1>9
  <2>4. QED BY <1>9, <2>1, <2>2, <2>3 DEF NoticesInv, ObstacleStates
<1>12. Climbs(n, manager)
  BY <1>3, <1>8, <1>9 DEF Climbs
<1>13. /\ notice'[m] = n /\ obstacle'[m] = o /\ manager' = manager
       /\ \A x \in Messages : x # m => notice'[x] = notice[x] /\ obstacle'[x] = obstacle[x]
  BY <1>4 DEF Inv, TypeOK, RecordObstacle
<1>14. SupervisionAcyclic'
  BY DEF Inv, SupervisionAcyclic, RecordObstacle
<1>15. QED BY <1>6, <1>11, <1>12, <1>13, <1>14 DEF Inv

\* Withdrawing a's request and forwarding leaves at most one request
\* (_unreachable).
LEMMA UnreachablePreserves ==
  ASSUME Inv, NEW m \in Messages, NEW a \in Slots, NEW d \in {"none", "failed"},
         notice[m][a].native, Unreachable(m, a, d),
         UNCHANGED <<manager, clients, obstacle>>
  PROVE  Inv'
<1>1. notice[m] \in [Addresses -> NoticeRows] /\ a \in Addresses
  BY DEF Inv, TypeOK, Addresses
<1>2. PICK next \in Recipients(m, a) :
        notice' = [notice EXCEPT ![m] =
                     Insert([@ EXCEPT ![a].native = FALSE, ![a].delivery = d],
                            next, a, Invokable(a))]
  BY DEF Unreachable
<1> DEFINE p == [notice[m] EXCEPT ![a].native = FALSE, ![a].delivery = d]
           n == Insert(p, next, a, Invokable(a))
<1>3. /\ p \in [Addresses -> NoticeRows] /\ ~p[a].native /\ p[a].delivery = d
      /\ p[a].sent = notice[m][a].sent /\ p[a].source = notice[m][a].source
      /\ \A b \in Addresses : b # a => p[b] = notice[m][b]
  BY <1>1 DEF NoticeRows, NoticeStates
<1>4. /\ next \in Addresses /\ Invokable(a) \in BOOLEAN
      /\ Invokable(a) => next = manager[a] /\ manager[a] \in Slots
  BY RecipientsTyped DEF Inv
<1>5. notice' = [notice EXCEPT ![m] = n]
  BY <1>2
<1> HIDE DEF p
<1>6. /\ n \in [Addresses -> NoticeRows]
      /\ \A b \in Addresses :
           \/ n[b] = p[b]
           \/ /\ b = next /\ ~p[b].sent /\ n[b].native = Invokable(a)
              /\ n[b].sent /\ n[b].source = a /\ n[b].delivery = "none"
      /\ n[next].sent
  BY <1>3, <1>4, InsertTyped
<1> HIDE DEF n
<1>7. TypeOK'
  BY <1>5, <1>6 DEF Inv, TypeOK
<1>8. NoticesInv(notice[m], obstacle[m]) /\ Climbs(notice[m], manager)
  BY DEF Inv
<1>9. obstacle[m] \notin {"none", "uncertain"}
  BY <1>1, <1>8 DEF NoticesInv
<1>10. \A b \in Addresses : ~p[b].native /\ p[b].delivery \in {"none", "failed"}
  <2>1. \A b \in Addresses : ~p[b].native
    BY <1>1, <1>3, <1>8 DEF NoticesInv
  <2>2. \A b \in Addresses : b # a => ~notice[m][b].native
    BY <1>1, <1>8 DEF NoticesInv
  <2>3. \A b \in Addresses : b # a => p[b].delivery \in {"none", "failed"}
    BY <1>1, <1>3, <1>8, <2>2 DEF NoticesInv, NoticeRows, NoticeStates
  <2>4. QED BY <1>3, <2>1, <2>3
<1>11. \A b \in Addresses : n[b].native => b = next /\ Invokable(a) /\ n[b].source = a
  BY <1>6, <1>10
<1>12. \A x \in Slots : IsSource(notice[m], x) => IsSource(n, x)
  BY <1>3, <1>6 DEF IsSource
<1>13. \A x \in Slots : IsSource(n, x) => IsSource(notice[m], x) \/ x = a
  BY <1>3, <1>6 DEF IsSource
<1>14. \A x \in Slots : IsSource(notice[m], x) =>
         manager[x] = a \/ (manager[x] \in Slots /\ IsSource(notice[m], manager[x]))
  BY <1>1, <1>8 DEF Climbs
<1>15. ASSUME Invokable(a), IsSource(notice[m], next) \/ next = a
       PROVE  FALSE
  <2> DEFINE S == {x \in Slots : IsSource(notice[m], x) \/ x = a}
  <2>1. S \in SUBSET Slots /\ S # {}
    OBVIOUS
  <2>2. \A x \in S : manager[x] \in S
    BY <1>4, <1>14, <1>15
  <2> HIDE DEF S
  <2>3. QED BY <2>1, <2>2 DEF Inv, SupervisionAcyclic
<1>16. NoticesInv(n, obstacle[m])
  <2>1. \A b \in Addresses : n[b].delivery \in {"none", "failed"}
    BY <1>6, <1>10
  <2>2. \A b \in Addresses : n[b].native => b \in Slots /\ ~IsSource(n, b)
    BY <1>4, <1>11, <1>13, <1>15
  <2>3. QED BY <1>9, <1>11, <2>1, <2>2 DEF NoticesInv
<1>17. Climbs(n, manager)
  <2> SUFFICES ASSUME NEW b \in Addresses, NEW s \in Slots, n[b].native, IsSource(n, s)
               PROVE  manager[s] = b \/ (manager[s] \in Slots /\ IsSource(n, manager[s]))
    BY DEF Climbs
  <2>1. b = manager[a] /\ IsSource(n, a)
    BY <1>4, <1>6, <1>11 DEF IsSource
  <2>2. QED BY <1>12, <1>13, <1>14, <2>1
<1>18. /\ notice'[m] = n /\ manager' = manager
       /\ \A x \in Messages : x # m => notice'[x] = notice[x]
  BY <1>5 DEF Inv, TypeOK
<1>19. SupervisionAcyclic'
  BY DEF Inv, SupervisionAcyclic
<1>20. QED BY <1>7, <1>16, <1>17, <1>18, <1>19 DEF Inv

\* Steps of a notice that only move its own delivery.
LEMMA DeliveryPreserves ==
  ASSUME Inv, NEW m \in Messages, NEW a \in Slots,
         NEW d \in {"queued", "dispatched", "uncertain", "delivered"},
         notice[m][a].native, SetDelivery(m, a, d),
         UNCHANGED <<manager, clients, obstacle>>
  PROVE  Inv'
<1> DEFINE n == [notice[m] EXCEPT ![a].delivery = d]
<1>1. notice[m] \in [Addresses -> NoticeRows] /\ a \in Addresses
  BY DEF Inv, TypeOK, Addresses
<1>2. /\ n \in [Addresses -> NoticeRows] /\ n[a].delivery = d
      /\ \A b \in Addresses : b # a => n[b] = notice[m][b]
      /\ n[a].native = notice[m][a].native /\ n[a].sent = notice[m][a].sent
      /\ n[a].source = notice[m][a].source
  BY <1>1 DEF NoticeRows, NoticeStates
<1>3. notice' = [notice EXCEPT ![m] = n]
  BY DEF SetDelivery
<1> HIDE DEF n
<1>4. TypeOK'
  BY <1>2, <1>3 DEF Inv, TypeOK
<1>5. NoticesInv(notice[m], obstacle[m]) /\ Climbs(notice[m], manager)
  BY DEF Inv
<1>6. \A b \in Addresses :
        /\ n[b].native = notice[m][b].native /\ n[b].sent = notice[m][b].sent
        /\ n[b].source = notice[m][b].source
  BY <1>2
<1>7. \A x : IsSource(n, x) <=> IsSource(notice[m], x)
  BY <1>6 DEF IsSource
<1>8. obstacle[m] \notin {"none", "uncertain"}
  BY <1>1, <1>5 DEF NoticesInv
<1>9. NoticesInv(n, obstacle[m])
  <2>1. \A b \in Addresses :
          n[b].delivery \in {"queued", "dispatched", "uncertain", "delivered"} => n[b].native
    BY <1>2, <1>5 DEF NoticesInv
  <2>2. QED BY <1>5, <1>6, <1>7, <1>8, <2>1 DEF NoticesInv
<1>10. Climbs(n, manager)
  BY <1>5, <1>6, <1>7 DEF Climbs
<1>11. /\ notice'[m] = n /\ manager' = manager
       /\ \A x \in Messages : x # m => notice'[x] = notice[x]
  BY <1>3 DEF Inv, TypeOK
<1>12. SupervisionAcyclic'
  BY DEF Inv, SupervisionAcyclic
<1>13. QED BY <1>4, <1>9, <1>10, <1>11, <1>12 DEF Inv

\* Every step of a notice.
LEMMA NoticePreserves ==
  ASSUME Inv, NEW m \in Messages, NEW a \in Slots, NoticeStep(m, a)
  PROVE  Inv'
<1>1. NoticesInv(notice[m], obstacle[m]) /\ a \in Addresses
  BY DEF Inv, Addresses
<1>2. UNCHANGED <<manager, clients, obstacle>>
  BY DEF NoticeStep, QueueNotice, QueueFails, NoticeDispatched, NoticeFails,
         NoticeDoubt, NoticeDelivered
<1>3. notice[m][a].native
  BY <1>1 DEF NoticeStep, QueueNotice, QueueFails, NoticeDispatched, NoticeFails,
         NoticeDoubt, NoticeDelivered, Pending, NoticesInv
<1>4. CASE QueueFails(m, a) \/ NoticeFails(m, a)
  BY <1>2, <1>3, <1>4, UnreachablePreserves DEF QueueFails, NoticeFails
<1>5. CASE \/ QueueNotice(m, a) \/ NoticeDispatched(m, a)
           \/ NoticeDoubt(m, a) \/ NoticeDelivered(m, a)
  BY <1>2, <1>3, <1>5, DeliveryPreserves
     DEF QueueNotice, NoticeDispatched, NoticeDoubt, NoticeDelivered
<1>6. QED BY <1>4, <1>5 DEF NoticeStep

\* Inv holds in every reachable state.
THEOREM NoticesInvariant == Spec => []Inv
<1>1. Init => Inv
  <2> SUFFICES ASSUME Init PROVE Inv
    OBVIOUS
  <2>1. TypeOK
    <3>1. \A m \in Messages : Slots # {}
      BY NoticesAssumption
    <3>2. \A m \in Messages : NoNotice \in NoticeRows
      BY <3>1 DEF NoNotice, NoticeRows, NoticeStates
    <3>3. QED BY <3>2 DEF Init, TypeOK
  <2>2. SupervisionAcyclic
    BY NoticesAssumption DEF Init, SupervisionAcyclic, Addresses
  <2>3. \A m \in Messages : NoticesInv(notice[m], obstacle[m]) /\ Climbs(notice[m], manager)
    BY DEF Init, NoticesInv, NoNotice, Climbs
  <2>4. QED BY <2>1, <2>2, <2>3 DEF Inv
<1>2. Inv /\ [Next]_vars => Inv'
  <2> SUFFICES ASSUME Inv, [Next]_vars PROVE Inv'
    OBVIOUS
  <2>1. CASE UNCHANGED vars
    BY <2>1 DEF Inv, vars, TypeOK, SupervisionAcyclic
  <2>2. ASSUME NEW s \in Slots, NEW a \in Addresses, BindSupervisor(s, a)
        PROVE  Inv'
    <3>1. TypeOK'
      BY <2>2 DEF Inv, TypeOK, BindSupervisor
    <3>2. \A m \in Messages : Climbs(notice[m], manager')
      BY <2>2, BindKeepsClimbing DEF Inv, NoticesInv
    <3>3. UNCHANGED <<notice, obstacle>>
      BY <2>2 DEF BindSupervisor
    <3>4. QED BY <2>2, <3>1, <3>2, <3>3, BindKeepsAcyclic DEF Inv
  <2>3. ASSUME NEW c \in Clients, AddClient(c)
        PROVE  Inv'
    BY <2>3 DEF Inv, AddClient, TypeOK, SupervisionAcyclic
  <2>4. QED BY <2>1, <2>2, <2>3, RecordPreserves, NoticePreserves DEF Next
<1>3. QED BY <1>1, <1>2, PTL DEF Spec

\* However managers are bound, they never supervise in a circle
\* (bind_supervisor).
THEOREM Acyclic == Spec => []SupervisionAcyclic
<1>1. Inv => SupervisionAcyclic
  BY DEF Inv
<1>2. QED BY <1>1, NoticesInvariant, PTL

\* At most one manager at a time is asked to act on a message (_unreachable).
THEOREM OneManager == Spec => []OneManagerActs
<1>1. Inv => OneManagerActs
  BY DEF Inv, NoticesInv, OneManagerActs
<1>2. QED BY <1>1, NoticesInvariant, PTL

\* A notice is never forwarded past a manager that may have accepted it
\* (record_obstacle).
THEOREM AcceptanceIsFinal == Spec => []AcceptanceStops
<1>1. Inv => AcceptanceStops
  BY DEF Inv, NoticesInv, IsSource, AcceptanceStops
<1>2. QED BY <1>1, NoticesInvariant, PTL

\* Nobody is invoked about a message whose own outcome is unknown
\* (record_obstacle).
THEOREM UnknownIsQuiet == Spec => []UnknownInvokesNobody
<1>1. Inv => UnknownInvokesNobody
  BY DEF Inv, NoticesInv, UnknownInvokesNobody
<1>2. QED BY <1>1, NoticesInvariant, PTL
=============================================================================
