SPECIFICATION Spec
INVARIANTS
  TypeOK
  NobodyWrites
  KeyForGitOnly
  LeavesTheClone
