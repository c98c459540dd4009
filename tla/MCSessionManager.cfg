SPECIFICATION Spec
CONSTANTS
  s1 = s1
  s2 = s2
  s3 = s3
  admin = admin
  cleanup = cleanup
  NoSession = NoSession
  Control = Control
  SessionIds <- TwoSessionIds
  Removers <- TwoRemovers
  dual_stack = TRUE
  max_offset <- TwoAddresses
  max_sessions = 2
  MaxCreates = 4
INVARIANTS
  AddressesExclusive
  SessionCountExact
  MappedWhileLive
  NoAddressLeak
SYMMETRY Symmetry
CHECK_DEADLOCK FALSE
