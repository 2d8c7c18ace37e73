CONSTANTS
  PageSize = 2
  NPages = 8
  Top = 97
  KernelFrames = 2
  UserFrames = 3
  Images <- MCImages
  HeapBase = 4
  HeapSize = 8
  Layouts <- MCLayouts
  Limit = 20
  OldTexts <- MCOldTexts
  TypedKeys <- MCTypedKeys
  MaxLines = 4
  Tokens = {"2", "0", "max", "big", "-", "*", "/", "^", "(", ")"}
  MaxTokens = 5
  IntMax = 127
  ExpMod = 16
  Mains <- MCMains
  Responses <- MCResponses
  MaxAsked = 3
SPECIFICATION Spec
CHECK_DEADLOCK FALSE
INVARIANTS
  LoadedAsLinked
  LoadedByPages
  PanicsOnlyForCause
  BlocksApart
  EntriesReadBack
  EditorReadsBack
  CalculatesRight
  BuiltFromAnswer
