SPECIFICATION MCSpec
CONSTANTS
  Clients = {c1, c2}
  Old = {c2}
  Calls = {k1, k2}
  Names <- MCNames
  Values <- MCValues
  Asked <- MCAsked
  Ro = {"ro.a"}
  Persist = {"persist.a"}
  Ctl = {"ctl.start"}
  Illegal = {"a..b"}
  Long = {"long"}
  Allowed <- MCAllowed
  Controls <- MCControls
  Defaults <- MCDefaults
  Overrides <- MCOverrides
  Factory <- MCFactory
  Backlog = 1
  MaxCrashes = 1
  MaxLoads = 2
SYMMETRY Symmetry
CHECK_DEADLOCK FALSE
INVARIANTS
  LegacyCallSets
