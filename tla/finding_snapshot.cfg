SPECIFICATION Spec

CONSTANTS
  s1 = s1
  d1 = d1
  d2 = d2
  c1 = c1
  c2 = c2
  None = None
  Services = {s1}
  Deployments = {d1, d2}
  Commits = {}
  Configs = {c1, c2}
  Deletable = {}
  MaxAttempts = 1
  MaxFaults = 0
CHECK_DEADLOCK FALSE
INVARIANTS
  SnapshotIsDeployed
