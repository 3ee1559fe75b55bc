SPECIFICATION Spec
CONSTANTS
  NPROC = 2
  NFRAMES = 20
  PGSIZE = 2
  FAN = 3
  UINT64 = 64
  Pids = {1, 2, 3}
  Programs <- ThreePrograms
  GrowNs <- Growths
  CopyVas <- CopyPages
INVARIANTS NoPanic PagesCounted SizeExact UsyscallOwn
PROPERTY CopyFaithful
