SPECIFICATION Spec
CONSTANTS
  c1 = c1  c2 = c2  root = root  sub = sub  f = f  d = d  dotdot = dotdot  loop = loop  a = a  b = b  t = t
  Clients = {c1}
  HEADER_LENGTH = 2
  WORD = 32
  Cap = 6
  Block = 1
  Dirs = {root, sub}
  Root = root
  Names = {f, d, dotdot, loop}
  Enter <- Below
  Absent = Absent
  Blocked <- Loops
  NUL = NUL
  Values <- Bytes
  Outputs <- Printed
  Commands = {"open", "ls", "cd", "get", "put", "sha", "quit", "exit"}
  Faults = {"server", "localopen", "localread", "kill"}
  Tree <- OneTree
  Own <- OneOwn
  MaxAfter = 2
INVARIANTS
  TypeOK
  StepKept
  EveryEndOwned
  DirectoryAgreed
  PromiseKept
PROPERTIES
  CommandReturns
  ThreadEnds
CHECK_DEADLOCK FALSE
