CONSTANTS
  t1 = t1
  t2 = t2
  Threads = {t1, t2}
  MAX_SAFE = 2
  KEY_IDS = 2
  Window = 2
  MaxSealed = 5
  MaxRekeys = 2
SYMMETRY Symmetry
SPECIFICATION Spec
INVARIANTS NonceUnique DeliveredAtMostOnce KeyIdIdentifiesKey AnswerStaysReadable
PROPERTY StrandedIsForever
CHECK_DEADLOCK FALSE
