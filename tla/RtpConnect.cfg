SPECIFICATION FairSpec
CONSTANTS
  SEQ_MAX = 7
  MAX_WINDOW_SIZE = 4
  N = 1
  ISN = 1
  MAXTRY = 3
  Faults = {"lose", "duplicate", "corrupt", "delay", "outage"}
  MaxFaults = 2
  EarlierISN = 3
INVARIANTS
  IInv
  TypeOK
  ConnectedPeerAcked
  HandsOverCleanly
PROPERTIES
  HandshakeEnds
  BothConnect
