CONSTANTS
  Null = Null
  t1 = t1
  t2 = t2
  u1 = u1
  u2 = u2
  u3 = u3
  Thread = {t1, t2}
  User = {u1, u2, u3}
  Role = {"owner", "admin", "analyst"}
  MaxAttempts = 1
  MaxRequests = 3
  MaxPast = 1
  Teams <- Founded
SPECIFICATION Spec
SYMMETRY Symmetry
CHECK_DEADLOCK FALSE
INVARIANTS
  OwnerRemains
  MembershipInvited
  PendingUnique
  ResetEndsSessions
  FailuresBounded
