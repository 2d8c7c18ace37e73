CONSTANTS
  TotalFrames = 6
  Counts <- MCCounts
  MaxUsed = 8
SPECIFICATION ContigSpec
INVARIANTS
  NeverUnderReports
