SPECIFICATION FairSpec
CONSTANTS
  Job = {j1, j2, j3}
  None = None
INVARIANTS
  TypeOK
  Serialized
  CompleteIsSent
PROPERTIES
  SentOnce
  KeepsLedger
  Settles
