\* One tenant with two CVEs, a two-item catalog and three edits.
SPECIFICATION Spec
CONSTANTS
  c1 = c1
  c2 = c2
  b1 = b1
  v1 = v1
  i1 = i1
  i2 = i2
  CVEs <- TwoCVEs
  SeverityOf <- Severities
  Buckets <- OneBucket
  Vendors <- OneVendor
  Links <- Linked
  AutoVendors <- OfVendor
  None = None
  Cursors = {0, 1}
  Items <- TwoItems
  CpeHits <- ByCpeOf
  ProductHits <- ByProductOf
  p1 = p1
  p2 = p2
  PullRuns <- TwoPulls
  MatchRuns = {m1, m2}
  Polls = {q1}
  Puts = {w1}
  Thresholds <- Ranks
  PageLimit = 1
  RowLimit = 1
  MaxEdits = 3
CONSTRAINTS Separate OneAnswered OneKindOfTag
INVARIANTS TypeOK  MixedOnlyByOverlap NoRunRefused
PROPERTIES  OperatorTagsSurvive PullsEnd
CHECK_DEADLOCK FALSE
