CONSTANTS
  Null = Null
  t1 = t1
  t2 = t2
  orders = orders
  cleanedOrders = cleanedOrders
  patchFile = patchFile
  Thread = {t1, t2}
  Name = {orders, cleanedOrders}
  Revision = {patchFile}
  SampleName = orders
  Cleaned <- CleanedNames
  MaxAudits = 3
  MaxRows = 2
  MaxFaults = 1
  MaxEdits = 1
  Postgres = TRUE
SPECIFICATION Spec
SYMMETRY Symmetry
CHECK_DEADLOCK FALSE
INVARIANTS
  LineageDense
  StoredFilesOwned
  PreviewShowsRows
PROPERTY VersionsImmutable
