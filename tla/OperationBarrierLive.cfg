\* A slow handler, a waiting backup or restore, and a newcomer, without authentication.
SPECIFICATION FairSpec
CONSTANTS
  g1 = g1
  g2 = g2
  s1 = s1
  alice = alice
  bob = bob
  None = None
  Requests <- ThreeConnections
  ScepRequests <- OneScep
  Users <- NoUsers
  AuthEnabled = FALSE
PROPERTIES
  NobodyWaitsForHandlers
  StopEnds
