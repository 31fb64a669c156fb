SPECIFICATION FairSpec
CONSTANTS
  s1 = s1
  s2 = s2
  Blank = Blank
  Nobody = Nobody
  SYNCER = SYNCER
  Submitters <- TwoSubmitters
  CAPACITY = 3
  PAGE = 2
  Starts <- StartsInside
  MaxCount = 2
  MaxRequests = 2
INVARIANTS StatsExact
PROPERTIES ImplementsDisk RequestsEnd
