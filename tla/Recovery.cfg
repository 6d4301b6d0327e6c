CONSTANTS
  i1 = i1
  i2 = i2
  p1 = p1
  p2 = p2
  p3 = p3
  r1 = r1
  Nothing = Nothing
  Calls = {k1, k2}
  Incidents = {i1, i2}
  Packets = {p1, p2, p3}
  Responses = {r1}
  Commands <- MCCommands
  Plans <- MCPlans
  PacketOf <- MCPacketOf
  LayerOf <- MCLayerOf
SPECIFICATION Spec
SYMMETRY Symmetry
INVARIANTS ResolvedByItsReceipt ResultsHappened DispositionsAgree
PROPERTIES FollowsWorkflow AnswersAgree
CHECK_DEADLOCK FALSE
