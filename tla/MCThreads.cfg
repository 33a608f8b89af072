SPECIFICATION MCSpec
CONSTANTS
  Threads = {"main", "t"}
  Main = "main"
  Requesters = {"gc", "agent"}
  MaxBarriers = 1
  MaxRequests = 2
  NULL = NULL
CHECK_DEADLOCK FALSE
INVARIANTS
  TypeOK
  NoFatal
  RequestHonoured
PROPERTIES
  Answered
