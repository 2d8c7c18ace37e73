CONSTANTS
  Chunk = 2
  MaxElf = 10
  Decimal <- MCDecimal
  MaxDigits = 2
  Fifo = 1
  Elves <- MCElves
  ErrorLines <- MCErrorLines
  Troubles = {{"profile"}}
  MaxGens = 1
SPECIFICATION Spec
CHECK_DEADLOCK FALSE
INVARIANTS
  GenDelivers
