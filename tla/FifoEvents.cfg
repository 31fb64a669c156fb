SPECIFICATION Spec
CONSTANTS
  r1 = r1
  w1 = w1
  w2 = w2
  c1 = c1
  a = a
  b = b
  NoThread = NoThread
  Readers <- OneReader
  Writers <- OneWriter
  Clearers <- OneClearer
  Pollers <- OneReader
  AsyncUsers <- OneReader
  Signalled <- OneWriter
  Byte <- TwoBytes
  SIZE = 2
  MaxCount = 2
  CopyOrders <- Forward
INVARIANTS ReaderNotStranded NothingLeftBehind
PROPERTIES ImplementsFifo
SYMMETRY Symmetry
