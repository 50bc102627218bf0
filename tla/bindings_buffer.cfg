SPECIFICATION Spec
CONSTANTS
  Main = main
  w1 = w1
  w2 = w2
  b1 = b1
  b2 = b2
  v1 = v1
  v2 = v2
  Workers = {w1}
  Buffers = {b1, b2}
  Home = b1
  Values = {v1, v2}
  Nil = nil
  Void = void
  None = none
  Default = default
  MaxBind = 2
  MaxOps = 3
SYMMETRY ValueSymmetry
INVARIANTS ReturnsToLiveBuffer
