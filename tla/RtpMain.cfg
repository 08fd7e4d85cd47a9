SPECIFICATION MainSpec
CONSTANTS
  SEQ_MAX = 7
  MAX_WINDOW_SIZE = 4
  N = 2
  ISN = 7
  WS = 2
  WR = 2
  MAXTRY = 1
  Faults = {"lose", "corrupt", "read", "write"}
  StaleHandshake = FALSE
PROPERTY TransferEnds
