SPECIFICATION Spec
CONSTANTS
  t1 = t1
  t2 = t2
  other = other
  BuildID = BuildID
  Nil = Nil
  Scratch = Scratch
  Names <- MCFewNames
  Jobs <- MCOneJob
INVARIANT
  BuildpackDeleted
