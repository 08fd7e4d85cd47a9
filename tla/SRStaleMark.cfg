SPECIFICATION Spec
CONSTANTS
  SEQ_MAX = 8
  MAX_WINDOW_SIZE = 3
  N = 4
  ISN = 1
  WS = 1
  WR = 1
  MAXTRY = 1
  Faults = {}
  StaleHandshake = FALSE
INVARIANT BaseStopsAtNext
