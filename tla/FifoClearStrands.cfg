SPECIFICATION Spec
CONSTANTS
  r1 = r1
  w1 = w1
  w2 = w2
  c1 = c1
  a = a
  b = b
  NoThread = NoThread
  Readers <- OneReader
  Writers <- OneWriter
  Clearers <- OneClearer
  Pollers <- Nobody
  AsyncUsers <- Nobody
  Signalled <- Nobody
  Byte <- OneByte
  SIZE = 1
  MaxCount = 1
  CopyOrders <- Forward
INVARIANTS WriterNotStranded
