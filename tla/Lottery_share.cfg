SPECIFICATION Spec
CONSTANTS
  NPROC = 3
  UINT = 32
  TicketNs = {0, 1, 3}
  NCPU = 2
  MaxTicks = 1
CHECK_DEADLOCK FALSE
INVARIANTS ShareExact SomeoneWins WindowFair
