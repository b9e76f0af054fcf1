CONSTANTS
  Tasks = {t1, t2}
  Main = main
  Stale = stale
  None = none
  Callers = {}
  Env = {"cancel", "deadline", "earlyClose", "shutdown", "sync", "panic", "saveFail", "restoreFail", "emuFail"}
  MaxRuns = 1
  MaxReuse = 0
SPECIFICATION Spec
SYMMETRY Symmetry
INVARIANTS
  TypeOK
  HandoffAgrees
  GuestRunsAsCurrent
  RegisterWritesApplied
  ProgressKept
  OnePlace
