SPECIFICATION Spec
CONSTANTS
  m1 = m1
  m2 = m2
  m3 = m3
  NULL = NULL
  MainCtxt = MainCtxt
  Muth <- MCMuth
  Readers <- MCReaders
  Writers <- MCWriters
  Byte <- MCByte
  Chunk <- MCChunk
  ReadLen <- MCReadLen
  BufMax = 2
  MaxSent = 4
INVARIANTS TypeOK NoLostWakeup MemorySafe
PROPERTIES StreamSpec
CHECK_DEADLOCK FALSE
