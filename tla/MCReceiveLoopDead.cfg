\* Small periods in the order of the real ones: a timeout check (5 s) is shorter than the keepalive
\* interval (25 s), that is no longer than a rekey check (60 s), that is shorter than the rekey
\* interval (1 h).
SPECIFICATION Spec
CONSTANTS
  KEEPALIVE_INTERVAL = 2
  KEEPALIVE_COUNT = 2
  TIMEOUT_CHECK = 1
  REKEY_CHECK = 3
  REKEY_INTERVAL = 4
  CONNECTION_TIMEOUT = 2
  MaxReplies = 1
PROPERTY
  DeadIsReported
CHECK_DEADLOCK FALSE
