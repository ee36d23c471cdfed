SPECIFICATION Spec
CONSTANTS
  c1 = c1
  c2 = c2
  kA = kA
  kB = kB
  CRs = {c1, c2}
  Kinds = {kA, kB}
  KindOf <- TwoKinds
  Names = {n1, n2}
  SameNS <- OneNamespace
  Adopters = {c1}
  Listers = {c2}
  Lag = TRUE
  Renames = TRUE
  UserSecrets = TRUE
  MaxEdits = 4
  None = None
SYMMETRY Symmetry
INVARIANT TypeOK
PROPERTIES OwnerNeverSwitched AdoptionOptIn
CHECK_DEADLOCK FALSE
