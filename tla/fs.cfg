CONSTANTS
  Names <- PlainNames
  Stored <- MCStored
  Matches <- Same
  Contents = {"one", "two"}
  Sectors <- MCSectors
  Profile = "profile"
  ProfileContent = "one"
  NBlocks = 12
  NSlots = 3
  BufSectors = 2
  MaxOps = 4
  MaxBoots = 2
  MaxFailures = 1
SPECIFICATION Spec
CHECK_DEADLOCK FALSE
INVARIANTS
  FilesKeptApart
  NoLeakedSectors
PROPERTIES
  StoreRefined
