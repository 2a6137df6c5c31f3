CONSTANTS
  w1 = w1  w2 = w2  c1 = c1  c2 = c2  web = web
  s1 = s1  s2 = s2  r1 = r1  r2 = r2  r3 = r3
  Null = Null
  Key <- AllKeys
  Worker = {w1, w2}
  Client = {c1}
  Process = {web}
  Home <- OneProcess
  Schedule = {s1}
  Run = {r1}
  MaxTime = 1
  MaxManual = 1
  Limit = 1
  Postgres = TRUE
  MaxRetries = 1
  MaxCrashes = 1
SPECIFICATION ScheduleSpec
CHECK_DEADLOCK FALSE
INVARIANTS
  NoRunStranded
  CompletedJobRan
