CONSTANTS
  Null = Null
  t1 = t1
  t2 = t2
  d1 = d1
  d2 = d2
  Thread = {t1, t2}
  Dataset = {d1, d2}
  Registered = {d1}
  Cleaned <- CleanedNames
  MaxRules = 2
  MaxRows = 3
  MaxAudits = 3
  MaxRequests = 4
  Content <- Written2
  Cascade = TRUE
SPECIFICATION Spec
SYMMETRY Symmetry
CHECK_DEADLOCK FALSE
INVARIANTS
  AssignmentsRequested
  VersionsUnique
  ValidationAgrees
  AuditsHaveExecutions
PROPERTY ValidationsAdvance
