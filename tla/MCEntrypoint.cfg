SPECIFICATION Spec
CONSTANTS
  Hosts = {"tcp://runtime"}
  Unset = Unset
INVARIANTS
  TypeOK
  StartsWithItsSocket
  GivesUpInTime
