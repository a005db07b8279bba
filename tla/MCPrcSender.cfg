\* No deadlock check: the sender ends when its files are sent.
SPECIFICATION FairSpec
CONSTANT Files = 3
CHECK_DEADLOCK FALSE
INVARIANTS
  TypeOK
  SuccessIsReal
  MissedOnlyBlind
PROPERTY
  Terminates
