\* Two tenants, two jobs, one row and three audit entries.
SPECIFICATION Spec
CONSTANTS
  Workers = {w1, w2}
  Tenants = {t1, t2}
  Hosts = {h1}
  Jobs = {j1, j2}
  Rows = {r1}
  Reasons = {k1, k2}
  Entries = {e1, e2, e3}
  None = None
INVARIANTS TypeOK  NoForeignStatus
CHECK_DEADLOCK FALSE
SYMMETRY Symmetric
