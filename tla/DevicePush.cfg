\* Two operations at a time: on a switch that changes what it presents while its device
\* is edited and deleted, on a device that moves, or on two devices whose names change.
\* With the bounds reached only the administrator is left, who may be done.
SPECIFICATION SceneSpec
CONSTANTS
  r1 = r1
  r2 = r2
  h1 = h1
  h2 = h2
  d1 = d1
  d2 = d2
  n1 = n1
  n2 = n2
  sudi = sudi
  web = web
  Other = Other
  None = None
  Requests <- TwoRequests
  Ids <- TwoDevices
  Names <- TwoNames
  Hosts <- TwoHosts
  CertIds <- WithSudi
  Protected <- Sudi
  MaxSerial = 2
  MaxChanges = 1
  MaxCrashes = 1
SYMMETRY Symmetry
INVARIANTS
  InventorySound
  CredentialsKept
  RecordsTellTheTruth
PROPERTIES
  DeletedStaysDeleted
  ServedIsSpared
CHECK_DEADLOCK FALSE
