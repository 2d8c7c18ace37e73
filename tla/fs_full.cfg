CONSTANTS
  Names <- PlainNames
  Stored <- MCStored
  Matches <- Same
  Contents = {"two", "duo"}
  Sectors <- MCSectors
  Profile = "profile"
  ProfileContent = "two"
  NBlocks = 5
  NSlots = 2
  BufSectors = 1
  MaxOps = 4
  MaxBoots = 3
  MaxFailures = 1
SPECIFICATION Spec
CHECK_DEADLOCK FALSE
INVARIANTS
  FSTypeOK
  Durable
