SPECIFICATION Spec
CONSTANTS
  SEQ_MAX = 5
  MAX_WINDOW_SIZE = 3
  N = 2
  ISN = 4
  WS = 2
  MAXTRY = 1
  Faults = {"read"}
  StaleHandshake = FALSE
INVARIANT SuccessIsWholeFile
