SPECIFICATION FairSpec
CHECK_DEADLOCK FALSE
INVARIANTS
  HeartbeatTypeOK
  FatalAfterThreeRefusals
  NoBeatAfterThreeRefusals
PROPERTIES
  HeartbeatsStop
  BeatsGoOn
