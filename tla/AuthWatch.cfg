SPECIFICATION FairSpec
CONSTANTS
  tenant = tenant
  shared = shared
  closed = closed
  own = own
  common = common
  foreign = foreign
  CRs = {c1}
  Namespaces = {tenant, shared, closed}
  NsOf <- InTenant
  Secrets = {own, common, foreign}
  SecretNS <- Where
  Allowed = {shared}
  Global = foreign
  Values = {v1}
  Anonymous = Anonymous
  Unnamed = Unnamed
  NoCR = NoCR
  Absent = Absent
  None = None
  MaxEdits = 2
INVARIANTS TypeOK 
 
