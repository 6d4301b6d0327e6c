-------------------------- MODULE IncidentWorkflow --------------------------
(***************************************************************************)
(* What the recovery incidents of a message promise: the states an incident*)
(* goes through, one active incident at a time, and that at most one manual*)
(* packet is ever committed for an incident, never after the automatic path*)
(* was restored.                                                           *)
(***************************************************************************)
CONSTANTS
  Incidents,
  Packets,
  PacketOf   \* packet -> incident it answers

VARIABLES
  state,       \* by incident
  committed    \* packets committed so far

vars == <<state, committed>>

Active == {"open", "human_requested", "manual_packet_committed"}

Init == state = [i \in Incidents |-> "none"] /\ committed = {}

Step(i, from, to) == state[i] \in from /\ state' = [state EXCEPT ![i] = to] /\ UNCHANGED committed

Open(i)    == Step(i, {"none"}, "open") /\ \A j \in Incidents : state[j] \notin Active
Request(i) == Step(i, {"open"}, "human_requested")
Restore(i) == Step(i, {"open", "human_requested"}, "resolved_automatic")
Expire(i)  == Step(i, Active, "expired")

Commit(p) ==
  /\ \A q \in committed : PacketOf[q] # PacketOf[p]
  /\ state[PacketOf[p]] = "human_requested"
  /\ state' = [state EXCEPT ![PacketOf[p]] = "manual_packet_committed"]
  /\ committed' = committed \cup {p}

Confirm(p) == p \in committed /\ Step(PacketOf[p], {"manual_packet_committed"}, "resolved_manual")

Next ==
  \/ \E i \in Incidents : Open(i) \/ Request(i) \/ Restore(i) \/ Expire(i)
  \/ \E p \in Packets : Commit(p) \/ Confirm(p)

Spec == Init /\ [][Next]_vars
=============================================================================
