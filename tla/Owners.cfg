\* Does a tenant keep an active owner?  Two operators at a time.
SPECIFICATION Spec
CONSTANTS
  acme = acme
  None = None
  c1 = c1
  c2 = c2
  o1 = o1
  o2 = o2
  u1 = u1
  u2 = u2
  s1 = s1
  s2 = s2
  r1 = r1
  r2 = r2
  f1 = f1
  f2 = f2
  Clients = {c1}
  Operators = {o1, o2}
  Users = {u1, u2}
  Tenants = {acme}
  TenantOf <- TenantOfDef
  Roles = {"account_owner"}
  Sessions = {s1}
  Resets = {r1}
  Factors = {f1, f2}
  BackupCodes = 1
  MaxPasswords = 1
PROPERTY OwnersOutliveDisable
CHECK_DEADLOCK FALSE
