SPECIFICATION Spec
CONSTANTS
  Commits = {c1, c2}
  Pushers = {p1}
  Repush = FALSE
  FaultsHappen = TRUE
  NoCommit = NoCommit
  Builds = {d1, d2}
  RetainCount = 1
  MaxFaults = 1
  Missing = Missing
INVARIANTS TypeOK ImageFromBranch WorkspaceRemoved OpenBuildsGoOn
PROPERTIES ImplementsCache OpenBuildsDescend
SYMMETRY Interchangeable
CHECK_DEADLOCK FALSE
