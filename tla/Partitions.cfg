CONSTANTS
  Machines <- MCMachines
  CmdLines <- MCCmdLines
  SectorMod = 64
  MaxNesting = 4
  RtcSeed = 1
SPECIFICATION BootSpec
INVARIANTS
  PartitionsRight
CHECK_DEADLOCK FALSE
