\* One CA, two challenges, two requesters; a storage error and a process crash.
SPECIFICATION Spec
CONSTANTS
  r1 = r1
  r2 = r2
  k1 = k1
  k2 = k2
  None = None
  Requests <- TwoRequests
  CAs <- OneCA
  FlakyCAs <- NoCAs
  MaxChallenges = 2
  Life = 1
  Retention = 1
  Capacity = 2
  MaxNow = 2
  MaxSerial = 2
  MaxCrashes = 1
  MaxFaults = 1
SYMMETRY RequestSymmetry
INVARIANTS
  KInv
  SingleUse
  NoResurrection
  RetryAnswered
  StartupCompletes
PROPERTIES
  PendingKept
  ImplementsLedger
