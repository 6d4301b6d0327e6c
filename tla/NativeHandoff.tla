---------------------------- MODULE NativeHandoff ----------------------------
(***************************************************************************)
(* What message delivery promises about Native work: the durable dispatch  *)
(* marker of a message is written at most once and never removed, and only *)
(* after it the message may be handed to the Native, at most once.         *)
(***************************************************************************)
EXTENDS Naturals

CONSTANT Messages

VARIABLES marked, calls

Init ==
  /\ marked = [m \in Messages |-> FALSE]
  /\ calls  = [m \in Messages |-> 0]

WriteMarker(m) ==
  /\ ~marked[m]
  /\ marked' = [marked EXCEPT ![m] = TRUE]
  /\ UNCHANGED calls

CallNative(m) ==
  /\ marked[m]
  /\ calls[m] = 0
  /\ calls' = [calls EXCEPT ![m] = 1]
  /\ UNCHANGED marked

Next == \E m \in Messages : WriteMarker(m) \/ CallNative(m)

Spec == Init /\ [][Next]_<<marked, calls>>
=============================================================================
