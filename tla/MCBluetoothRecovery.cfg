SPECIFICATION RecoverySpec
CONSTANTS
  Budget = 35
  StopTimeout = 15
  RunTimeout = 10
INVARIANTS
  RecoveryTypeOK
  ServicesRestored
  ControllerRebound
