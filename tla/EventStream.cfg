\* Publication, replay and the feed of a client that loses sight of f1.
SPECIFICATION FairSpec
CONSTANTS
  f1 = f1
  f2 = f2
  Facts = {f1, f2}
  Clients = {c1}
  Publishers = {p1, p2}
  Visible <- Sees
  BatchLimit = 2
  PurgeLimit = 1
  QueueLimit = 1
  MaxAuth = 1
  MaxFaults = 1
CHECK_DEADLOCK FALSE
INVARIANTS StreamConsistent NothingMissed AtMostOneLate
PROPERTIES EventuallyPublished StreamDelivers
