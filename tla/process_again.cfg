CONSTANTS
  TotalFrames = 20
  Reserved <- MCReserved
  KernelP4 = 0
  Index <- MCIndex
  Pages <- MCPages
  Walk <- MCWalk
  ImagePages <- MCImagePages
  DemoPage = "code"
  StackPages <- MCStackPages
  Dirty <- Clean
  MaxImage = 2
SPECIFICATION Spec
CHECK_DEADLOCK FALSE
INVARIANTS
  ReadyForNextApp
