SPECIFICATION FairSpec
CONSTANTS
  Lines <- MCLines
  NLINE = 1
  NPROC = 8
  MAXFD = 5
  MAXARGS = 2
  CAP = 1
  NOUT = 2
  FLEN = 2
  Programs = {"cat", "echo", "f"}
  Fails = {"header", "exofork", "stack", "load", "share"}
  BY2PG = 3
  Segments <- MCSegments
INVARIANTS TypeOK OnlyStdio PromptAlone ImageExact
PROPERTY PromptReturns
