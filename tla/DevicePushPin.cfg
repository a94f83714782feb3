\* PinIsLast
SPECIFICATION SceneSpec
CONSTANTS
  r1 = r1
  r2 = r2
  h1 = h1
  h2 = h2
  d1 = d1
  d2 = d2
  n1 = n1
  n2 = n2
  sudi = sudi
  web = web
  Other = Other
  None = None
  Requests <- TwoRequests
  Ids <- OneDevice
  Names <- OneName
  Hosts <- OneHost
  CertIds <- OneCert
  Protected <- Nobody
  MaxSerial = 1
  MaxChanges = 1
  MaxCrashes = 0
INVARIANTS
  PinIsLast
CHECK_DEADLOCK FALSE
