SPECIFICATION Spec
CONSTANTS
  Main = main
  w1 = w1
  w2 = w2
  m1 = m1
  c1 = c1
  Workers = {w1, w2}
  Mutexes = {m1}
  CondVars = {c1}
  MutexOf <- MCMutexOf
  Signals = {err}
  NilSignal = nil
  None = none
  MaxOps = 8
  MaxDepth = 2
  MaxEvents = 1
  CanExit = TRUE
SYMMETRY WorkerSymmetry
INVARIANTS TypeOK NoTaskLost LevelsKept MutualExclusion WaiterListExact BlockerTruth
PROPERTIES WaitsEndForCause MonitorSpec
CHECK_DEADLOCK FALSE
