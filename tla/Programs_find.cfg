SPECIFICATION Spec
CONSTANTS
  Names = {"find"}
  MaxProc = 9
  PIPESIZE = 3
  LIMIT = 19
  NFree = 5
  Depth = 3
  MAXPATH = 4
  PathMax = 5
  MAXARG = 5
  Width = 5
  Dirs <- LostDirs
  Lines <- SomeLines
  Base <- SomeCommand
CHECK_DEADLOCK FALSE
INVARIANT AllFound
