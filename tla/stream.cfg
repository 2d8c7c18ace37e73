CONSTANTS
  Chunk = 2
  MaxElf = 10
  Decimal <- MCDecimal
  MaxDigits = 2
  Fifo = 1
  Elves <- MCElves
  ErrorLines <- MCErrorLines
  Troubles <- MCTroubles
  MaxGens = 3
SPECIFICATION FairSpec
CHECK_DEADLOCK FALSE
INVARIANTS
  StreamTypeOK
  ReceiverInBounds
  GenDelivers
  AckPacing
  StreamClean
PROPERTIES
  GenAnswered
  GenRefined
