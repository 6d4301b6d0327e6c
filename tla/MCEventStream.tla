---------------------------- MODULE MCEventStream ----------------------------
(* Small instances of EventStream for TLC.                                   *)
EXTENDS EventStream, TLC

CONSTANTS f1, f2

(* The client sees both facts until its authorization changes; then not f1.  *)
Sees == [c \in Clients |-> [a \in 0..MaxAuth |-> IF a = 0 THEN Facts ELSE Facts \ {f1}]]
=============================================================================
