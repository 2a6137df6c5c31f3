SPECIFICATION MCSpec
CONSTANTS
  w1 = w1
  w2 = w2
  c1 = c1
  c2 = c2
  web = web
  next = next
  k1 = k1
  k2 = k2
  n1 = n1
  u1 = u1
  u2 = u2
  Null = Null
  Key = {k1, k2}
  Worker = {w1, w2}
  Client = {c1, c2}
  Process = {web, next}
  Home <- TwoServers
  Path = {u1, u2}
  Name = {n1}
  MaxRetries = 1
  MaxCrashes = 0
  MaxDeletes = 1
SYMMETRY PathSymmetry
CHECK_DEADLOCK FALSE
INVARIANT DuplicateHasACopy
