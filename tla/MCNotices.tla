----------------------------- MODULE MCNotices -----------------------------
(***************************************************************************)
(* Instances of Notices for TLC.                                           *)
(***************************************************************************)
EXTENDS Notices

\* One message from a colleague to the lowest slot of the team.
OneMessage == {"x"}
ToFirst == [m \in Messages |-> "s1"]
FromSecond == [m \in Messages |-> "s2"]
=============================================================================
