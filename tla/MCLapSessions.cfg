SPECIFICATION FairSpec
CONSTANTS
  Device = {d1, d2}
  Pid = {p1, p2}
  Ip <- MCIp
  Subnet <- MCSubnet
  LocalIp = 1
  None = None
INVARIANTS
  TypeOK
  NoStrayPppd
  SessionsDistinct
  SessionsMatchConfig
PROPERTIES
  ShutdownCompletes
  ExitedForgotten
