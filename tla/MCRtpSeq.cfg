SPECIFICATION Spec
CONSTANTS
  SEQ_MAX = 10
  MAX_WINDOW_SIZE = 4
INVARIANTS
  InWindowIsCircular
  SafeWindowsHaveDistinctSlots
PROPERTY SlideDropsOnlyBase
