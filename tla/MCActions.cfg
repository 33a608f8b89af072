SPECIFICATION MCSpec
CONSTANTS
  RcActs <- MCActs
  Loaded <- MCLoaded
  Events <- MCEvents
  Event <- MCEvent
  Conds <- MCConds
  Script <- MCScript
  Boot <- MCBoot
  Names <- MCNames
  Values <- MCValues
  SvcProps = {"svc"}
  MaxEvents = 4
CHECK_DEADLOCK FALSE
INVARIANTS
  TypeOK
  NoSleepWithWork
  NoMissedProperty
  WaitIsNeeded
PROPERTIES
  QueueDrains
