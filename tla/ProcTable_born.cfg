SPECIFICATION Spec
CONSTANTS
  CPUs = {c1}
  NPROC = 2
  NoCPU = NoCPU
  MaxPid = 2
  KillPids = {0}
  SleepNs = {}
  TickW = 2
PROPERTY NotBornKilled
