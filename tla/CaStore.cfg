\* Two requests that overlap, fail and die, on three certificates; or one request
\* after the other on four.  With the bounds reached the instance idles.
SPECIFICATION SceneSpec
CONSTANTS
  r1 = r1
  r2 = r2
  Requests <- TwoRequests
  MaxSerial = 3
  MaxRoots = 1
  MaxTrash = 3
  MaxFaults = 1
  MaxCrashes = 1
  Root = Root
  None = None
SYMMETRY Symmetry
INVARIANTS
  SInv
  NothingLost
  AtRest
PROPERTIES
  TrashedSignsNothing
CHECK_DEADLOCK FALSE
