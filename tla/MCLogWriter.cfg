SPECIFICATION FairSpec
CONSTANTS
  Nil = Nil
  Outputs <- MCOutputs
  MaxRequests = 2
INVARIANTS
  TypeOK
  LogNumbersContiguous
  NothingLostNorDoubled
  ErrorOfThisRequest
  OnlyCutsAreFatal
PROPERTY
  WriteReturns
