CONSTANTS
  Ops = {o1}
  Executors = {x1}
  Nobody = Nobody
  Kinds = {"prepare", "resume"}
  MaxEpoch = 2
  MaxFaults = 3
SPECIFICATION FairSpec
PROPERTIES AcknowledgedIsSettled
CHECK_DEADLOCK FALSE
