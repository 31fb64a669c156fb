SPECIFICATION Spec
CONSTANTS
  s1 = s1
  s2 = s2
  Blank = Blank
  Nobody = Nobody
  SYNCER = SYNCER
  Submitters <- TwoSubmitters
  CAPACITY = 2
  PAGE = 1
  Starts <- StartsAnywhere
  MaxCount = 1
  MaxRequests = 1
PROPERTIES ImplementsDisk
