----------------------------- MODULE MCRecovery -----------------------------
(* Instance of Recovery for TLC. *)
EXTENDS Recovery, TLC

CONSTANTS i1, i2, p1, p2, p3, r1

MCPacketOf == p1 :> i1 @@ p2 :> i1 @@ p3 :> i2

MCLayerOf == p1 :> "response_received" @@ p2 :> "target_inbox_committed" @@ p3 :> "response_received"

Command(op, of, id) == [op |-> op, of |-> of, id |-> id]

Opened(i) == {Command("open", i, "once"), Command("request", i, "once")}

\* Everything that can settle one incident, at the same time.
Rivals == Opened(i1) \cup
  {Command("reprobe", i1, "succeeded"), Command("receive", p1, "once"), Command("receive", p2, "once"),
   Command("confirm", p1, "once"), Command("expire", i1, "once")}

\* A manual answer while the response arrives, with two consumers.
Overtaken == Opened(i1) \cup
  {Command("receive", p1, "once"), Command("confirm", p1, "once"), Command("project", r1, "once"),
   Command("consume", r1, "one"), Command("consume", r1, "other")}

\* An incident expires and the next generation is opened.
Generations == Opened(i2) \cup
  {Command("open", i1, "once"), Command("expire", i1, "once"), Command("reprobe", i2, "failed"),
   Command("receive", p3, "once")}

MCPlans == {Rivals, Overtaken, Generations}

MCCommands == UNION MCPlans

Symmetry == Permutations(Calls)
=============================================================================
