\* Two CAs, one of which may become unreachable; a journal that holds one challenge.
SPECIFICATION FairSpec
CONSTANTS
  r1 = r1
  r2 = r2
  k1 = k1
  k2 = k2
  None = None
  Requests <- OneRequest
  CAs <- TwoCAs
  FlakyCAs <- FirstCA
  MaxChallenges = 2
  Life = 0
  Retention = 1
  Capacity = 1
  MaxNow = 0
  MaxSerial = 2
  MaxCrashes = 1
  MaxFaults = 1
INVARIANTS
  Recoverable
  NoOrphans
PROPERTIES
  PendingKept
  CrashRecovers
