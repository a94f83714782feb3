\* The root CA is made a second time.
SPECIFICATION SceneSpec
CONSTANTS
  r1 = r1
  r2 = r2
  Requests <- OneRequest
  MaxSerial = 2
  MaxRoots = 2
  MaxTrash = 1
  MaxFaults = 0
  MaxCrashes = 0
  Root = Root
  None = None
INVARIANTS
  KeyringIsStored
CHECK_DEADLOCK FALSE
