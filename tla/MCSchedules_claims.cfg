CONSTANTS
  w1 = w1  w2 = w2  c1 = c1  c2 = c2  web = web
  s1 = s1  s2 = s2  r1 = r1  r2 = r2  r3 = r3
  Null = Null
  Key <- AllKeys
  Worker = {}
  Client = {c1, c2}
  Process = {web}
  Home <- OneProcess
  Schedule = {s1, s2}
  Run = {r1, r2}
  MaxTime = 2
  MaxManual = 0
  Limit = 2
  Postgres = TRUE
  MaxRetries = 0
  MaxCrashes = 1
SPECIFICATION ScheduleSpec
CHECK_DEADLOCK FALSE
SYMMETRY Symmetry
INVARIANTS
  ClaimedOnce
PROPERTY OnlyActiveClaimed
