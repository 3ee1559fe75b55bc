SPECIFICATION FairSpec
CONSTANTS
  Names = {"primes", "pingpong", "find", "xargs"}
  MaxProc = 9
  PIPESIZE = 3
  LIMIT = 19
  NFree = 5
  Depth = 3
  MAXPATH = 4
  PathMax = 5
  MAXARG = 5
  Width = 5
  Dirs <- SomeDirs
  Lines <- SomeLines
  Base <- SomeCommand
CHECK_DEADLOCK FALSE
INVARIANTS PrimesExact GotOther FoundAll LinesRun
PROPERTY Terminates
