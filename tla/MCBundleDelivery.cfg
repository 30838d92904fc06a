\* Two builds overlap the requests of a small tenant.
SPECIFICATION GeneratedSpec
CONSTANTS
  w1 = w1
  w2 = w2
  p1 = p1
  p2 = p2
  t1 = t1
  t2 = t2
  i1 = i1
  m1 = m1
  m2 = m2
  linux = linux
  c1 = c1
  b1 = b1
  b2 = b2
  Workers = {w1, w2}
  PolicyIds = {p1, p2}
  TargetIds = {t1, t2}
  Names = {"baseline"}
  Versions = {"v0.1.0", "v0.1.1"}
  FirstVersion = "v0.1.0"
  Irs = {i1}
  Plan <- PlanDef
  Modules = {m1, m2}
  Keys = {linux}
  SubtypedKeys = {}
  None = None
  MaxLog = 6
  Builders = {b1, b2}
  MaxBuilds = 2
CONSTRAINT OneLineage
SYMMETRY Symmetric
INVARIANTS
  BundleTypeOK
  
PROPERTIES
  
  KeepsReviewedRelease
\* Clients need not call, and the logs are bounded.
CHECK_DEADLOCK FALSE
