SPECIFICATION Spec
CONSTANTS
  c1 = c1  c2 = c2  root = root  sub = sub  f = f  d = d  dotdot = dotdot  loop = loop  a = a  b = b  t = t
  Clients = {c1, c2}
  HEADER_LENGTH = 2
  WORD = 32
  Cap = 4
  Block = 1
  Dirs = {root}
  Root = root
  Names = {f, loop}
  Enter <- Below
  Absent = Absent
  Blocked <- Loops
  NUL = NUL
  Values <- Bytes
  Outputs <- Printed
  Commands = {"open", "get", "put", "quit", "exit"}
  Faults = {"kill"}
  Tree <- OneTree
  Own <- TwoOwn
  MaxAfter = 2
INVARIANTS
  StepKept
  DownloadWhole
  PromiseKept
PROPERTIES
  ServerSurvives
  UploadStored
  HeldOpen
CHECK_DEADLOCK FALSE
