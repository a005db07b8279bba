SPECIFICATION Spec
CONSTANTS
  Transfer = {t1, t2}
  Oversize = {t2}
  Name = {n1, n2}
  None = None
PROPERTY CompletedRetained
