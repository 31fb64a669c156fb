SPECIFICATION Spec
CONSTANTS
  x = x
  y = y
  InitName = InitName
  Names <- ThreeNames
  Priorities <- AnyLevel
  Resources <- OnlyR2
  MaxUnits = 3
  MaxPcbs = 3
  MaxSurplus = 0
  MaxQueue = 2
INVARIANTS WaiterServed
CHECK_DEADLOCK FALSE
