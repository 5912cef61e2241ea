CONSTANTS
  Thread = {t1, t2}
  Nobody = Nobody
  Disk = {0, 1}
  Sector = {0, 1}
  Value = {0, 1}
  Blank = 0
CHECK_DEADLOCK FALSE
CONSTANTS
  MaxRequests = 2
  MaxSpurious = 1
SPECIFICATION Spec
INVARIANTS
  WriteAcknowledged
