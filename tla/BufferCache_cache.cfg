SPECIFICATION FairSpec
CONSTANTS
  Procs = {p1, p2}
  Blocks <- ThreeBlocks
  Values = {0, 1}
  NBUF = 2
  NBUCKETS = 2
  LOGSIZE = 2
  NoProc = NoProc
CHECK_DEADLOCK FALSE
INVARIANTS TypeOK RingsOK OneBufPerBlock RefcntExact ReferenceStable SleepLockOwned NoLeak
PROPERTIES ImplementsBlockStore PanicOnlyFull BucketProgress
