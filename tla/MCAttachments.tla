--------------------------- MODULE MCAttachments ---------------------------
(* Instance of Attachments for TLC. *)
EXTENDS Attachments, TLC

CONSTANTS a1, a2, a3

MCOf == [r \in Requests |-> a1]

MCSize == a1 :> 2 @@ a2 :> 1 @@ a3 :> 2

\* a2 competes for the viewer's budget only, a3 for the project's only.
MCViewer == a1 :> "viewer" @@ a2 :> "viewer" @@ a3 :> "another"

\* Only the content of a1, which is uploaded, is ever validated.
MCContents == [a \in Ids |-> IF a = a1 THEN BOOLEAN ELSE {TRUE}]

Symmetry == Permutations(Calls) \cup Permutations(Uploads) \cup Permutations(Finals)
=============================================================================
