SPECIFICATION MCSpec
CONSTANTS
  Threads = {"t1", "t2"}
  Descs <- MCDescs
  Boot = "boot"
  App = "app"
  Path <- MCPath
  Interfaces = {"I", "J", "K", "D"}
  HasDefault = {"I", "D"}
  Arrays = {"S[]"}
  Supers <- MCSupers
  Uses <- MCUses
  Soft = {}
  MaxFaults = 1
  MaxSpurious = 1
  Asks <- MCAsks
  NULL = NULL
CHECK_DEADLOCK FALSE
INVARIANTS
  TypeOK
  OneClass
  ClinitOnce
  InitSeen
  
PROPERTIES
  CallsReturn
