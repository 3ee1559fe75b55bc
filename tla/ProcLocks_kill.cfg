SPECIFICATION Spec
CONSTANTS
  CPUs = {c1, c2}
  NPROC = 3
  NoCPU = NoCPU
  MaxPid = 3
  KillPids = {2}
INVARIANT NoLostKill
