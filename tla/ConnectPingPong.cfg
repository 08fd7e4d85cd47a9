SPECIFICATION Spec
CONSTANTS
  SEQ_MAX = 7
  MAX_WINDOW_SIZE = 4
  N = 1
  ISN = 1
  MAXTRY = 3
  Faults = {"lose"}
  MaxFaults = 1
  EarlierISN = 0
INVARIANT UnconfirmedMeansNotConnected
