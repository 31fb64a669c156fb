SPECIFICATION FairSpec
CONSTANTS
  x = x
  y = y
  InitName = InitName
  Names <- ThreeNames
  Priorities <- AnyLevel
  Resources <- OnlyR2
  MaxUnits = 3
  MaxPcbs = 3
  MaxSurplus = 1
  MaxQueue = 2
INVARIANTS RunsHighest Conserved NoneLost
PROPERTIES TakesTurns
CHECK_DEADLOCK FALSE
