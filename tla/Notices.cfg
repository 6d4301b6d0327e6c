\* Three slots and two Clients, bound in every order while a notice climbs.
CONSTANTS
  Slots = {"s1", "s2", "s3"}
  Clients = {"c1", "c2"}
  Messages <- OneMessage
  Target <- ToFirst
  Sender <- FromSecond
  MaxChain = 128
SPECIFICATION FairSpec
INVARIANTS SupervisionAcyclic AcceptanceStops OneManagerActs UnknownInvokesNobody
PROPERTIES EventuallyRetained
CHECK_DEADLOCK FALSE
