CONSTANTS
  w1 = w1  w2 = w2  c1 = c1  c2 = c2  web = web  k1 = k1
  Null = Null
  Key = {k1}
  Worker = {w1, w2}
  Client = {c1, c2}
  Process = {web}
  Home <- OneProcess
  MaxRetries = 1
  MaxCrashes = 1
SPECIFICATION FairSpec
INVARIANTS
  NoJobStranded
  AttemptsPaidFor
PROPERTY RestUntilRetried
PROPERTY EveryJobSettles
