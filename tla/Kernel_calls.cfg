SPECIFICATION FairSpec
CONSTANTS
  NCPU = 2
  MaxEntries = 4
  UINT = 32
  INT = 2
  PGSIZE = 4
  KERNBASE = 16
  PSTAT = 3
  TicketNs <- TicketArgs
  Machine <- TwoCPUs
  UINT64 = 16
  PAGE = 4
  MAXVA = 12
  MaxLen = 9
CHECK_DEADLOCK FALSE
INVARIANTS CpusListed TouchesMapped SizeMapped CopyExact
PROPERTY Boots
