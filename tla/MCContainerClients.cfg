SPECIFICATION Spec
CONSTANTS
  Jobs <- MCJobs
  Args <- MCArgs
  Refs <- MCRefs
  Dockerfiles <- MCDockerfiles
INVARIANTS
  TypeOK
  BaseIsTheRuntimes
  UsedIsThere
  NothingStays
