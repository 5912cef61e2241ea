CONSTANTS
  Thread = {t1, t2}
  Nobody = Nobody
  Disk = {0, 1}
  Sector = {0, 1}
  Value = {0, 1}
  Blank = 0
  MaxRequests = 3
  MaxSpurious = 1
SPECIFICATION FairSpec
INVARIANTS
  ReadsRight
  NoPanic
  WriteSafe
PROPERTIES
  AllServed
CHECK_DEADLOCK FALSE
