\* Transactions of three users overlap on one item.
SPECIFICATION Spec
CONSTANTS
  alice = alice
  bob = bob
  carol = carol
  acme = acme
  other = other
  w1 = w1
  w2 = w2
  i1 = i1
  Workers = {w1, w2}
  Users = {alice, bob, carol}
  Tenants = {acme, other}
  TenantOf <- TenantOfDef
  Items = {i1}
  None = None
  MaxRows = 6
INVARIANTS
  TypeOK
  HistoryIsAChain
  ApprovalColumnsMatchHistory
  OneTenantPerItem
PROPERTIES
  KeepsFourEyes
  RequestsEnd
\* Clients need not call, and the histories are bounded.
CHECK_DEADLOCK FALSE
