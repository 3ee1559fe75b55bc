SPECIFICATION FairSpec
CONSTANTS
  CPUs = {c1, c2}
  NPROC = 2
  NoCPU = NoCPU
  MaxPid = 2
  KillPids = {2}
  SleepNs = {1}
  TickW = 1
INVARIANT NoLostTick
PROPERTY KilledDies
