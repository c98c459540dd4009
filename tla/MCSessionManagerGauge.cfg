SPECIFICATION Spec
CONSTANTS
  s1 = s1
  s2 = s2
  s3 = s3
  admin = admin
  cleanup = cleanup
  NoSession = NoSession
  Control = Control
  SessionIds <- ThreeSessionIds
  Removers <- OneRemover
  dual_stack = FALSE
  max_offset <- TwoAddresses
  max_sessions = 2
  MaxCreates = 4
INVARIANT
  GaugeConsistent
CHECK_DEADLOCK FALSE
