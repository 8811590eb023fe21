SPECIFICATION ProcessSpec
CONSTANTS
  t1 = t1
  BuildID = BuildID
  Nil = Nil
  Scratch = Scratch
  Names <- MCNames
  Jobs <- MCJobs
INVARIANTS
  HeartbeatWhileWorking
  HeartbeatLossIsHonest
  OutcomeAgrees
