SPECIFICATION MCSpec
CONSTANTS
  Names <- MCNames
  Temps <- MCTemps
  Order <- MCOrder
  InitFlags <- MCInitFlags
  OnRestart <- MCOnRestart
  NoPid = NoPid
  Pids = {p1, p2, p3}
  CrashLimit = 1
  SockCap = 2
  ReadMax = 1
  MaxRequests = 3
  MaxOrphans = 1
SYMMETRY Symmetry
CHECK_DEADLOCK FALSE
INVARIANT
  ExecHalts
