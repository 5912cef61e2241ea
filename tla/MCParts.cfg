SPECIFICATION Spec
CONSTANTS
  KThread = {"a", "b"}
  Boots = "a"
  MaxRaised = 2
  MaxFaults = 2
  Pds = {1, 2}
  PdEntries = 1
  PtEntries = 2
  PageBytes = 2
  Frames = {1}
  FreeTables = 1
  SectorSize = 2
  NSectors = 4
  Start = 1
  Length = 3
  MaxSize = 3
  MaxPos = 3
INVARIANTS
  InterruptsRight
  TranslationExact
  TransfersRight
  KernelRight
  ComputedRight
CHECK_DEADLOCK FALSE
