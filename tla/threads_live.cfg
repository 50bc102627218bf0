SPECIFICATION FairSpec
CONSTANTS
  Main = main
  w1 = w1
  w2 = w2
  m1 = m1
  c1 = c1
  Workers = {w1, w2}
  Mutexes = {m1}
  CondVars = {c1}
  MutexOf <- MCMutexOf
  Signals = {err}
  NilSignal = nil
  None = none
  MaxOps = 5
  MaxDepth = 1
  MaxEvents = 1
  CanExit = TRUE
PROPERTIES EligibleRuns JoinReturns SignalsArrive
CHECK_DEADLOCK FALSE
