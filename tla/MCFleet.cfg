CONSTANTS
  a = a
  b = b
  Proc = {p1, p2}
  Slug = {a, b}
  NoProc = NoProc
  MaxDeaths = 1
  MaxStalls = 1
  MaxTroubles = 1
  Syncs <- MCSyncs
  Kinds = {"init", "enable", "disable", "fleet"}
SPECIFICATION MCSpec
CHECK_DEADLOCK FALSE
INVARIANTS EnabledIsScheduled
PROPERTIES UpdatesApplied CommandsEnd
