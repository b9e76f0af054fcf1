CONSTANTS
  Tasks = {t1}
  Main = main
  Stale = stale
  None = none
  Callers = {c1}
  Env = {"sync", "panic", "shutdown"}
  MaxRuns = 1
  MaxReuse = 0
SPECIFICATION FairSpec
PROPERTIES
  CallersServed
