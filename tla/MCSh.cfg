SPECIFICATION Spec
CONSTANTS
  MAXARGS = 3
  NPROC = 7
  NOFILE = 6
  MaxLine = 5
  Scripts <- MCScripts
INVARIANTS ParseIsRight PlumbingIsRight ForegroundFirst
PROPERTY SessionEnds
CHECK_DEADLOCK FALSE
