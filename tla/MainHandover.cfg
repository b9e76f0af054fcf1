CONSTANTS
  Tasks = {}
  Main = main
  Stale = stale
  None = none
  Callers = {}
  Env = {"deadline"}
  MaxRuns = 1
  MaxReuse = 2
SPECIFICATION Spec
PROPERTIES
  MainHandedOutIdle
CHECK_DEADLOCK FALSE
