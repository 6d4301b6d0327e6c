----------------------------- MODULE MCDelivery -----------------------------
(***************************************************************************)
(* Instances of Delivery for TLC.                                          *)
(***************************************************************************)
EXTENDS Delivery, TLC

\* Two invoking messages for the same Agent slot.
TwoInvoke == {"m1", "m2"}
\* One invoking reply.
OneInvoke == {"m1"}
\* ... and a message of another kind beside it.
WithAttachment == {"m1", "att"}
WithInbox == {"m1", "box"}

KindOf == [m \in Messages |->
             CASE m = "box" -> "inbox" [] m = "att" -> "attachment" [] OTHER -> "invoke"]
OneSlot == [m \in Messages |-> "s1"]
WorkerSymmetry == Permutations(Workers)
=============================================================================
