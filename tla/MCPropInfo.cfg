SPECIFICATION MCFairSpec
CONSTANTS
  Clients = {c1}
  MaxLen = 1
  Half = 2
  AreaMod = 3
  MaxBumps = 4
INVARIANTS
  TypeOK
  NoTornRead
  NoLostWakeup
  NoMissedUpdate
PROPERTIES
  ReadReturns
  WaitReturns
