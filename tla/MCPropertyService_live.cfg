SPECIFICATION MCFairSpec
CONSTANTS
  Clients = {c1, c2}
  Old = {c2}
  Calls = {k1, k2}
  Names <- MCNames
  Values <- MCValues
  Asked <- MCFewAsked
  Ro = {"ro.a"}
  Persist = {"persist.a"}
  Ctl = {"ctl.start"}
  Illegal = {"a..b"}
  Long = {"long"}
  Allowed <- MCAllowed
  Controls <- MCControls
  Defaults <- MCDefaults
  Overrides <- MCOverrides
  Factory <- MCFactory
  Backlog = 1
  MaxCrashes = 1
  MaxLoads = 1
CHECK_DEADLOCK FALSE
PROPERTIES
  CallReturns
