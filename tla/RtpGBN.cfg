SPECIFICATION Spec
CONSTANTS
  SEQ_MAX = 5
  MAX_WINDOW_SIZE = 2
  N = 3
  ISN = 4
  WS = 2
  MAXTRY = 1
  Faults = {"lose", "duplicate", "corrupt", "write", "silence"}
  StaleHandshake = TRUE
INVARIANTS
  IInv
  TypeOK
  WindowsAgree
  OutstandingKept
  TimerCoversWindow
PROPERTY ImplementsTransfer
