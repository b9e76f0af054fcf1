CONSTANTS
  Tasks = {t1, t2}
  Main = main
  Stale = stale
  None = none
  Callers = {}
  Env = {"sync", "panic", "saveFail", "restoreFail", "emuFail"}
  MaxRuns = 1
  MaxReuse = 0
SPECIFICATION Spec
PROPERTIES
  StatusOnlyAdvances
CHECK_DEADLOCK FALSE
