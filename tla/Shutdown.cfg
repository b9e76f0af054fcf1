CONSTANTS
  Tasks = {t1}
  Main = main
  Stale = stale
  None = none
  Callers = {}
  Env = {"shutdown", "sync", "panic", "restoreFail", "emuFail"}
  MaxRuns = 1
  MaxReuse = 0
SPECIFICATION FairSpec
PROPERTIES
  ShutdownCompletes
