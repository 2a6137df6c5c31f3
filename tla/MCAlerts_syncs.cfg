CONSTANTS
  t1 = t1
  t2 = t2
  d1 = d1
  d2 = d2
  Thread = {t1, t2}
  Dataset = {d1, d2}
  Threshold = {60, 80}
  Limit <- OneOrTwo
  Kinds = {"audit", "rule", "drift", "contract", "schedule"}
  MaxHappenings = 2
  MaxRequests = 3
  Cooldown = 1
  MaxTicks = 2
SPECIFICATION Spec
SYMMETRY Symmetry
CHECK_DEADLOCK FALSE
INVARIANTS
  ActionsKept
  FailuresAlerted
  CooldownKept
