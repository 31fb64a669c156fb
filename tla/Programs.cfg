SPECIFICATION FairPrograms
CONSTANTS
  u1 = u1
  u2 = u2
  NoUser = NoUser
  MAX = 3
  ITEMS = 7
  NUM = 4
  ROUNDS = 2
  Users <- TwoUsers
  SIZE = 2
  MaxSize = 2
  MaxCalls = 2
  o1 = o1
  o2 = o2
  NoBio = NoBio
  Bios <- TwoBios
  DEVICES_NUM = 2
  NSECTORS = 3
  MaxSegments = 2
  MaxSegment = 2
  Keys <- ThreeKeys
  MaxItems = 4
  MaxDevices = 2
  NvmTypes <- BothTypes
  MaxLoads = 3
INVARIANTS SlotsRespected NeighboursApart Whole SegmentsLand DataLives AllReleased Sorted AddedDevicesWhole SyncerOnLiveDevice LostExactly UnloadIsClean
PROPERTIES ItemsAllPassed MealsAllEaten CallsReturn LoaderFinishes
CHECK_DEADLOCK FALSE
