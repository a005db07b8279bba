SPECIFICATION FairSpec
CONSTANTS
  Transfer = {t1, t2}
  Oversize = {t2}
  Name = {n1, n2}
  None = None
INVARIANTS
  TypeOK
  ListedIsWhole
  ReceivedVisible
PROPERTIES
  NoneLost
  TransferSettles
