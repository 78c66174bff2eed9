SPECIFICATION PushSpec
CONSTANTS
  Commits = {c1, c2}
  Pushers = {p1}
  Repush = TRUE
  FaultsHappen = FALSE
  NoCommit = NoCommit
INVARIANTS HeadIsAsked
CHECK_DEADLOCK FALSE
