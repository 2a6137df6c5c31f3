CONSTANTS
  Null = Null
  t1 = t1
  t2 = t2
  i1 = i1
  i2 = i2
  medium = medium
  high = high
  Thread = {t1, t2}
  Issue = {i1, i2}
  Privacy = {i2}
  Update <- Bodies
  Context = {medium, high}
  MaxRequests = 3
  MaxStops = 1
  Value <- MCValue
  Nothing = "none"
  Missing <- MCMissing
  Strip <- MCStrip
  Lower <- MCLower
  Title <- MCTitle
  Token <- MCToken
  Rank <- MCRank
  NotProvided = "Not provided"
  Zero = "0"
  Width = 2
  KeyNamed = {1}
  Private = {2}
  Checks <- MCChecks
  SampleLimit = 1
  TopValues = 2
  MaxLabels = 3
  UniqueRate = 80
  Tables <- MCTables
  MaxSelected = 2
  AuditIssues <- MCAuditIssues
  DuplicatePenalty = 13000
  Discounts = {0, 25, 100}
  DriftColumn = {"x", "y", "x,y"}
  Joined <- MCJoined
  Imported <- MCImported
  ColumnProfile <- MCProfiles
  MaxVersions = 4
SPECIFICATION MCSpec
SYMMETRY Symmetry
CHECK_DEADLOCK FALSE
INVARIANTS
  ActivityExplainsStatus
  ActivityAgrees
  ScoreOfSavedIssues
  ReadingsAgree
  CorrectionResolves
  ChangesReported
  DriftExplainsSchema
  PersistentCameAndWent
PROPERTY SettlingNeverLowers
