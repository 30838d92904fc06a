\* Two client requests overlap with those of one operator.
SPECIFICATION Spec
CONSTANTS
  acme = acme
  None = None
  c1 = c1
  c2 = c2
  o1 = o1
  o2 = o2
  u1 = u1
  u2 = u2
  s1 = s1
  s2 = s2
  r1 = r1
  r2 = r2
  f1 = f1
  f2 = f2
  Clients = {c1, c2}
  Operators = {o1}
  Users = {u1, u2}
  Tenants = {acme}
  TenantOf <- TenantOfDef
  Roles = {"account_owner", "viewer"}
  Sessions = {s1, s2}
  Resets = {r1, r2}
  Factors = {f1, f2}
  BackupCodes = 1
  MaxPasswords = 2
CONSTRAINTS
  OneCustomer
  TwoRequests
  FewRows
SYMMETRY Symmetric
INVARIANTS
  TypeOK
  
  VerifiedByFactor
  
  
  
PROPERTIES
  OwnersOutliveDisable
CHECK_DEADLOCK FALSE
