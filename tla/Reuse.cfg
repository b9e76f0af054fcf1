CONSTANTS
  Tasks = {t1}
  Main = main
  Stale = stale
  None = none
  Callers = {}
  Env = {"deadline"}
  MaxRuns = 1
  MaxReuse = 1
SPECIFICATION Spec
INVARIANTS
  GuestRunsAsCurrent
PROPERTIES
  TurnsSpec
CHECK_DEADLOCK FALSE
