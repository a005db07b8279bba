SPECIFICATION Spec
CONSTANTS
  Device = {d1, d2}
  Ip <- MCIp
  Usable <- MCUsable
  Command = {c1, c2, c3}
  Torn = Torn
  Mixed = Mixed
  None = None
SYMMETRY Symmetric
INVARIANTS
  TypeOK
  WholeIsValid
  AuthorizedTrusted
  SuccessInForce
