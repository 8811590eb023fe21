SPECIFICATION Spec
CONSTANTS
  Nil = Nil
  Outputs <- MCOutputs
  MaxRequests = 2
PROPERTY
  ProgressIsThrottled
