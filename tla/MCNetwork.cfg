SPECIFICATION Spec
CONSTANTS
  c1 = c1
  c2 = c2
  NoMessage = NoMessage
INVARIANTS
  CodecsAgree
  HandshakesFitFragments
  TrafficStaysWithItsSession
  AckedBinding
  BuffersHeldOnce
  RateHolds
  BooksBalance
  CleanExit
  LateAnswersAreHarmless
PROPERTY AccountsHold
CHECK_DEADLOCK FALSE
