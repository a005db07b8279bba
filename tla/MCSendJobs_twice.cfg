SPECIFICATION Spec
CONSTANTS
  Job = {j1, j2}
  None = None
INVARIANT OneSend
