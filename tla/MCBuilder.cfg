SPECIFICATION FairSpec
CONSTANTS
  t1 = t1
  t2 = t2
  other = other
  BuildID = BuildID
  Nil = Nil
  Scratch = Scratch
  Names <- MCNames
  Jobs <- MCJobs
INVARIANTS
  TypeOK
  CompleteMeansPushed
  NumbersOrderPhases
  ManagerKnowsWork
  OnlyBuiltImagesPushed
  NoStaleDockerError
  CacheFromPresent
PROPERTIES
  ImplementsBuildJob
  
