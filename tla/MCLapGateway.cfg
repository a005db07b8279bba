SPECIFICATION Spec
CONSTANTS
  Device = {d1, d2}
  Pid = {p1}
  Ip <- MCIp
  Subnet <- MCSubnet
  LocalIp = 1
  Command = {c1, c2}
  Torn = Torn
  Mixed = Mixed
  None = None
SYMMETRY Symmetric
INVARIANT ReportReachesSessions
PROPERTY RestartIsOneStep
