SPECIFICATION Spec
CONSTANTS
  apex = apex
  sub = sub
  twin = twin
  NoId = NoId
  NoName = NoName
  NoUser = NoUser
  Ids = {i1}
  Names = {apex}
  Users = {u1}
  Requests = {q1}
  FaultsHappen = FALSE
  MaxRunning = 2
  Labels = {"apex", "sub"}
  Nested <- MCNested
  Label <- MCLabel
CHECK_DEADLOCK FALSE
SYMMETRY Symmetry
INVARIANTS
  ProvisioningIsAttended
