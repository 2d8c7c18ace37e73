CONSTANTS
  Cols = 10
  Rows = 3
  Bands = 4
  ClearRow = 1
  Banner <- MCBanner
  MaxLine = 9
  Command <- MCCommand
  Keys <- MCKeys
  Letters <- MCLetters
  OldFiles <- MCOldFiles
  MaxKeys = 5
  Calls = {1, 3, 5, 6, 42}
  MaxCalls = 2
  Lengths = {1, 9000}
SPECIFICATION Spec
CHECK_DEADLOCK FALSE
INVARIANTS
  SessionTypeOK
  ConsoleShowsOutput
  LineIsShown
  ParsedAsWords
  RegistersKept
  LoadsCounted
