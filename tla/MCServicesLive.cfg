SPECIFICATION FairSpec
CONSTANTS
  Names <- LiveNames
  Temps = {}
  Order <- LiveOrder
  InitFlags <- LiveFlags
  OnRestart <- LiveOnRestart
  NoPid = NoPid
  Pids = {p1, p2}
  CrashLimit = 1
  SockCap = 1
  ReadMax = 1
CHECK_DEADLOCK FALSE
PROPERTIES
  ChildReaped
  Respawn
