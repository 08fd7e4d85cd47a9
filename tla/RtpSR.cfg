SPECIFICATION Spec
CONSTANTS
  SEQ_MAX = 7
  MAX_WINDOW_SIZE = 4
  N = 3
  ISN = 6
  WS = 3
  WR = 3
  MAXTRY = 1
  Faults = {"lose", "duplicate", "corrupt", "write", "silence"}
  StaleHandshake = FALSE
INVARIANTS
  IInv
  TypeOK
  WindowsAgree
  AckedMeansStored
  ReceiveBufferSound
  OutstandingKept
  TimerCoversWindow
PROPERTY ImplementsTransfer
