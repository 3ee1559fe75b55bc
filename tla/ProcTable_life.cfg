SPECIFICATION Spec
CONSTANTS
  CPUs = {c1, c2}
  NPROC = 4
  NoCPU = NoCPU
  MaxPid = 4
  KillPids = {0, 1, 2}
  SleepNs = {}
  TickW = 2
SYMMETRY Symm
INVARIANTS OneCPU StackInUse SlotsOwned ParentsLive NoLostExit
