SPECIFICATION ResourcesSpec
CONSTANTS
  Tasks = {t1, t2}
  Main = main
  Contexts = {c1, c2, c3}
  Nil = Nil
  Calm = TRUE
  Prompt = TRUE
  Goroutines = {k1, k2, k3}
  Emulator = emulator
  Nobody = nobody
INVARIANTS
  NothingShared  EachReleased
PROPERTIES
  CallersReturn
  
CHECK_DEADLOCK FALSE
