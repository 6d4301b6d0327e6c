CONSTANTS
  a1 = a1
  a2 = a2
  a3 = a3
  Ids = {a1, a2, a3}
  Viewer <- MCViewer
  Size <- MCSize
  Contents <- MCContents
  Uploads = {u1, u2}
  Finals = {f1, f2}
  Of <- MCOf
  Nobody = Nobody
  Calls = {c1, c2}
  Messages = {m1}
  ViewerQuota = 2
  ProjectQuota = 3
  MessageLimit = 3
  AttachmentsPerMessage = 1
SPECIFICATION Spec
SYMMETRY Symmetry
INVARIANTS StagingFrontier MessageKeepsContent OneVerdict QuotaHeld
PROPERTIES OvertakenIsSilent
CHECK_DEADLOCK FALSE
