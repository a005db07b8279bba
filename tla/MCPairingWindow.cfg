SPECIFICATION FairSpec
CONSTANTS
  Admin = {a, b}
  Timer = timer
  D = 2
  MaxOpens = 2
  Mixed = Mixed
  None = None
INVARIANTS
  TypeOK
  DiscoveryTimed
  IdleConnectable
  OpenDelivers
PROPERTIES
  WindowEnds
  ExposureEnds
