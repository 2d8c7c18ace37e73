CONSTANTS
  TotalFrames = 18
  Reserved <- MCReserved
  KernelP4 = 0
  Index <- MCIndex
  Pages <- MCPages
  Walk <- MCWalk
  ImagePages <- MCImagePages
  DemoPage = "code"
  StackPages <- MCStackPages
  Dirty <- OldData
  MaxImage = 1
SPECIFICATION Spec
CHECK_DEADLOCK FALSE
INVARIANTS
  FrameAccounting
