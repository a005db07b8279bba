SPECIFICATION Spec
CONSTANTS
  Request = {r1, r2}
  n1 = n1
  N1 = N1
  n2 = n2
  Name = {n1, N1, n2}
  Fold <- MCFold
  Batches <- MCBatches
  MaxFiles = 2
  None = None
INVARIANTS
  TypeOK
  OnlyAccepted
  AllOrNone
  TempsCleared
