SPECIFICATION ProcessFairSpec
CONSTANTS
  t1 = t1
  BuildID = BuildID
  Nil = Nil
  Scratch = Scratch
  Names <- MCNames
  Jobs <- MCJobs
PROPERTY
  StoppedMeansSilent
