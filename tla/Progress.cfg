CONSTANTS
  Tasks = {t1, t2}
  Main = main
  Stale = stale
  None = none
  Callers = {}
  Env = {"restoreFail"}
  MaxRuns = 1
  MaxReuse = 0
SPECIFICATION FairSpec
PROPERTIES
  Served
CHECK_DEADLOCK FALSE
