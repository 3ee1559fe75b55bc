SPECIFICATION Spec
CONSTANTS
  NPROC = 2
  UINT = 32
  TicketNs = {1, 15}
  NCPU = 2
  MaxTicks = 1
CHECK_DEADLOCK FALSE
INVARIANT SomeoneWins
