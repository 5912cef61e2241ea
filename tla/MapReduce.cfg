CONSTANTS
  Worker = {w1, w2}
  Client = {c1}
  TaskTimeout = 1
  TasksMayFail = TRUE
  Regimes <- CrashOrLoss
SPECIFICATION FairSpec
INVARIANTS
  TypeOK
  ReduceAfterMaps
  PromptlyToldTruth
  QueueExact
PROPERTIES
  OutcomeFinal
  ClientsTold
