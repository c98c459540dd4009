CONSTANTS
  WordBits = 2
  BITMAP_WORDS = 3
  MaxCounter = 11
  Counters <- MCCounters
SPECIFICATION Spec
INVARIANTS AcceptedAtMostOnce BitmapIsExact
PROPERTY ImplementsFilter
