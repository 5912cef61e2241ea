CONSTANTS
  Worker = {w1, w2}
  Client = {c1}
  TaskTimeout = 1
  TasksMayFail = FALSE
  Regimes <- OnlySlow
SPECIFICATION Spec
SYMMETRY WorkerSymmetry
INVARIANTS
  ToldTruth
