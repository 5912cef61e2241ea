CONSTANTS
  Thread = {t1, t2, t3}
  NoThread = none
  MaxRequests = 2
SPECIFICATION FairSpec
INVARIANTS
  Guarded
  CountersExact
PROPERTIES
  WriterFirst
  ImplementsRW
  AllServed
