CONSTANTS
  Thread = {0, 1, 2, 3, 4}
  Main = 0
  NoThread = none
  Sema = {s1}
  IntrSema = {s1}
  IdleStarted = idleStarted
  TidLock = tidLock
  TimeSlice = 2
  MaxTid = 5
  MaxValue = 2
SPECIFICATION FairSpec
INVARIANTS
  ListsExact
  NoLostWakeup
  UniqueTids
PROPERTIES
  ReadyRuns
  BootCompletes
