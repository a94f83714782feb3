\* Two connections to the GUI and one to the SCEP-only listener, two accounts.
SPECIFICATION Spec
CONSTANTS
  g1 = g1
  g2 = g2
  s1 = s1
  alice = alice
  bob = bob
  None = None
  Requests <- ThreeConnections
  ScepRequests <- OneScep
  Users <- TwoUsers
  AuthEnabled = TRUE
SYMMETRY GuiSymmetry
INVARIANTS
  IInv
  Exclusion
  SnapshotIsWhole
  MaintainedByAdmin
  StoppedServesNothing
