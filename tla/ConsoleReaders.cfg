CONSTANTS
  Reader = {r1, r2}
  Writer = {w1}
  None = none
  BufSize = 3
  MaxIn = 2
  MaxOut = 1
SPECIFICATION ConsSpec
INVARIANTS
  WaitCondition
CHECK_DEADLOCK FALSE
