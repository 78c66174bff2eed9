SPECIFICATION Spec
CONSTANTS
  apex = apex
  sub = sub
  twin = twin
  NoId = NoId
  NoName = NoName
  NoUser = NoUser
  Ids = {i1}
  Names = {apex}
  Users = {u1, u2}
  Requests = {q1, q2}
  FaultsHappen = TRUE
  MaxRunning = 2
  Labels = {"apex", "sub"}
  Nested <- MCNested
  Label <- MCLabel
CHECK_DEADLOCK FALSE
SYMMETRY Symmetry
INVARIANTS
  TypeOK
  OwnershipProven
  ActiveWasEarned
  ServedUnlessDisturbed
