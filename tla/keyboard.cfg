CONSTANTS
  BufSize = 3
  MaxKeys = 4
  MaxApps = 1
  MaxRead = 2
SPECIFICATION FairSpec
INVARIANTS
  KeyboardTypeOK
  NoSelfDeadlock
  FlagRestored
  EveryInterruptEnded
PROPERTIES
  QueueRefined
  KeysDelivered
