SPECIFICATION Spec
CONSTANTS
  r1 = r1
  w1 = w1
  w2 = w2
  c1 = c1
  a = a
  b = b
  NoThread = NoThread
  Readers <- OneReader
  Writers <- OneWriter
  Clearers <- Nobody
  Pollers <- Nobody
  AsyncUsers <- Nobody
  Signalled <- Nobody
  Byte <- TwoBytes
  SIZE = 3
  MaxCount = 3
  CopyOrders <- EitherOrder
PROPERTIES ImplementsFifo
