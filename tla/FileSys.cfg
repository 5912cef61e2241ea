CONSTANTS
  Name = {a, b}
  Handle = {h1, h2}
  NSectors = 9
  DirEntries = 2
  Sizes = {1, 2}
  MaxCrashes = 1
SPECIFICATION Spec
SYMMETRY Symmetry
INVARIANTS
  TypeOK
  DiskConsistent
  OpenFilesSafe
  CountsExact
  SpaceAccounted
  NoForeignData
