SPECIFICATION Spec
CONSTANTS
  s1 = s1
  d1 = d1
  d2 = d2
  m1 = m1
  c1 = c1
  None = None
  Services = {s1}
  Deployments = {d1, d2}
  Commits = {m1}
  Configs = {c1}
  Deletable = {s1}
  MaxAttempts = 2
  MaxFaults = 1
CHECK_DEADLOCK FALSE
SYMMETRY Symmetry
INVARIANTS
  TypeOK
  OnePerService
  InFlightIsAttended
  AppliedWasStarted
  PromotedWasApplied
  PointerWasPromoted
  ClosedIsRecorded
  CancelledRowFirst
  ServiceIsDeployed
PROPERTIES
  FinishedIsFinal
  Lifecycle
  ImplementsTable
