--------------------------- MODULE EffectRegister ---------------------------
(***************************************************************************)
(* What the protected-file gateway promises about one resource: operations *)
(* take effect one at a time, each at most once, and the next one begins   *)
(* only when the last is resolved.  Owners, leases, crashes and records    *)
(* are not mentioned.                                                      *)
(***************************************************************************)
EXTENDS Naturals

CONSTANTS Operations, Nothing

VARIABLES
  bytes,      \* content of the resource
  open,       \* the unresolved operation, or Nothing
  count       \* how often each operation has replaced the bytes

Init == open = Nothing /\ count = [o \in Operations |-> 0]

Begin(o) == open = Nothing /\ open' = o /\ UNCHANGED <<bytes, count>>

Replace(o) ==
  /\ open = o /\ count[o] = 0
  /\ count' = [count EXCEPT ![o] = 1]
  /\ UNCHANGED open

Resolve == open # Nothing /\ open' = Nothing /\ UNCHANGED <<bytes, count>>

Next == Resolve \/ \E o \in Operations : Begin(o) \/ Replace(o)

Spec == Init /\ [][Next]_<<bytes, open, count>>

=============================================================================
