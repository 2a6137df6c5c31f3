CONSTANTS
  w1 = w1  w2 = w2  c1 = c1  c2 = c2  web = web
  s1 = s1  s2 = s2  r1 = r1  r2 = r2  r3 = r3
  Null = Null
  Key <- AllKeys
  Worker = {w1}
  Client = {c1, c2}
  Process = {web}
  Home <- OneProcess
  Schedule = {s1}
  Run = {r1, r2}
  MaxTime = 1
  MaxManual = 0
  Limit = 1
  Postgres = FALSE
  MaxRetries = 0
  MaxCrashes = 1
SPECIFICATION ScheduleFairSpec
CHECK_DEADLOCK FALSE
PROPERTY EveryRunSettles
