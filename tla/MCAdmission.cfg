SPECIFICATION Spec
CONSTANTS
  c1 = c1
  c2 = c2
  f1 = f1
  f2 = f2
  NoMessage = NoMessage
  Clients <- MCClients
  Deployments <- MCDeployments
  Start = 10
  RateLimit <- MCRateLimit
  ReplayLimit <- MCReplayLimit
  LockoutPolicy <- MCLockoutPolicy
  AccountPolicy <- MCAccountPolicy
  ServerReassembly <- MCServerReassembly
  ClientReassembly <- MCClientReassembly
  MaxSessions = 2
INVARIANTS
  Agreement
  AdmittedOnce
  EveryEntryIsPaid
  SessionsWereAnswered
  ReassemblyAccounts
  GuessesAreBounded
CHECK_DEADLOCK FALSE
