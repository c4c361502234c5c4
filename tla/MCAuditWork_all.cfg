SPECIFICATION Spec
CONSTANTS
  Campaigns = {"k"}
  Equipments = {"e"}
  Frameworks = {"f"}
  Controls = {"c"}
  Items = {"i"}
  Requests = {"r1", "r2"}
  MaxAssessments = 2
  MaxFindings = 2
  MaxTrail = 2
  MaxRequests = 7
INVARIANTS
  TypeOK
  OnceUnlessOverlap
  TrailLeadsToStatus
PROPERTIES
  CompletedIsKept
CHECK_DEADLOCK FALSE
