\* Losses of power, with storage that does not fail otherwise.
SPECIFICATION PowerSpec
CONSTANTS
  r1 = r1
  r2 = r2
  k1 = k1
  k2 = k2
  None = None
  Requests <- TwoRequests
  CAs <- OneCA
  FlakyCAs <- NoCAs
  MaxChallenges = 2
  Life = 1
  Retention = 1
  Capacity = 2
  MaxNow = 2
  MaxSerial = 2
  MaxCrashes = 2
  MaxFaults = 0
SYMMETRY RequestSymmetry
INVARIANTS
  PInv
  DeliveredOnRecord
PROPERTIES
  ListedIsDurable
