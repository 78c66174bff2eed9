SPECIFICATION Spec
CONSTANTS
  MaxRows = 2
  Names = {n1}
  Apex = at
  Types = {"A", "CNAME"}
  Services = {s1}
  Contents = {ip}
  TheIp = ip
  Ip <- SameIp
  Requests = {q1, q2}
  MaxRunning = 2
  FaultsHappen = TRUE
  NoName = NoName
  NoContent = NoContent
  NoService = NoService
INVARIANTS TypeOK ServedAsRecorded DomainsComeLive WorkflowsGoOn
PROPERTIES WorkflowsDescend
SYMMETRY Interchangeable
CHECK_DEADLOCK FALSE
