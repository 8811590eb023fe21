SPECIFICATION FairSpec
CONSTANTS
  processIdleTimeout = 2
  processTimeout = 3
  PipeSize = 2
INVARIANTS
  TypeOK
  OwnResultIsComplete
  KilledForSilence
  AtMostTwoLateChunks
PROPERTIES
  ImplementsCommand
  CallEnds
