\* Does every control get its row?  The tenant of MCPolicyLifecycle.cfg.
SPECIFICATION Spec
CONSTANTS
  w1 = w1
  w2 = w2
  p1 = p1
  p2 = p2
  t1 = t1
  t2 = t2
  t3 = t3
  i1 = i1
  i2 = i2
  m1 = m1
  m2 = m2
  linux = linux
  rhel9 = rhel9
  c1 = c1
  c2 = c2
  Workers = {w1, w2}
  PolicyIds = {p1, p2}
  TargetIds = {t1, t2, t3}
  Names = {"baseline"}
  Versions = {"v0.1.0", "v0.1.1"}
  FirstVersion = "v0.1.0"
  Irs = {i1, i2}
  Plan <- PlanDef
  Modules = {m1, m2}
  Keys = {linux, rhel9}
  SubtypedKeys = {rhel9}
  None = None
  MaxLog = 6
CONSTRAINT OneLineage
SYMMETRY Symmetric
PROPERTY OneTargetPerControl
\* Clients need not call, and the audit log is bounded.
CHECK_DEADLOCK FALSE
