SPECIFICATION FairSpec
CONSTANTS
  BufferSize = 5
  Ask = 2
  Overhead = 1
  Length = {0, 3}
  MaxRecords = 4
INVARIANTS StreamIsWhole ReadLandsInPlace
PROPERTY EveryRecordArrives
\* A caller may leave, and a server may stop sending.
CHECK_DEADLOCK FALSE
