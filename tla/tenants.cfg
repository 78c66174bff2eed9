SPECIFICATION Spec
CONSTANTS
  Users = {u1, u2}
  GitHubAccounts = {g1, g2}
  MaxRequests = 3
  FaultsHappen = TRUE
  NoUser = NoUser
  NoGitHub = NoGitHub
  Usernames = {n1, n2}
  MaxRepos = 2
  NoUsername = NoUsername
  ResourceNames = {a, b}
  AtTurso = {t}
  TursoName <- MCTursoName
  NoResource = NoResource
INVARIANTS TypeOK DefaultUnlessTaken ServiceFindsDefault TokenIsOfLinked RepoUnderOwner RemoteWorks DatabasesMatch
SYMMETRY Interchangeable
CHECK_DEADLOCK FALSE
