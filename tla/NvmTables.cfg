SPECIFICATION Spec
CONSTANTS
  s1 = s1
  s2 = s2
  Blank = Blank
  Nobody = Nobody
  SYNCER = SYNCER
  Submitters <- TwoSubmitters
  CAPACITY = 4
  PAGE = 2
  Starts <- StartsWide
  MaxCount = 3
  MaxRequests = 2
INVARIANTS TypeOK StoredIsMapped TablesAgree AccessesCounted
SYMMETRY Symmetry
