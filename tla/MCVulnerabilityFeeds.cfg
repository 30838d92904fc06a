\* Failing and interrupted runs of one NVD job and one KEV job.
SPECIFICATION Spec
CONSTANTS
  w1 = w1
  w2 = w2
  c1 = c1
  c2 = c2
  Workers = {w1, w2}
  Plans <- PlansDef
  Cves = {c1, c2}
  Order <- OrderDef
  PageSize = 1
  MaxWindow = 1
  Lookback = 2
  MaxTime = 3
  MaxRuns = 3
CONSTRAINTS
  PlainSecondEntry
  FewRuns
INVARIANTS
  TypeOK
  
  RowsMergeTheFeeds
PROPERTIES
  RunsEnd
  RowsNeverGoBack
CHECK_DEADLOCK FALSE
