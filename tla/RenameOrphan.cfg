SPECIFICATION Spec
CONSTANTS
  c1 = c1
  c2 = c2
  kA = kA
  kB = kB
  CRs = {c1}
  Kinds = {kA}
  KindOf <- OneKind
  Names = {n1, n2}
  SameNS <- OneNamespace
  Adopters = {}
  Listers = {}
  Lag = FALSE
  Renames = TRUE
  UserSecrets = FALSE
  MaxEdits = 5
  None = None
INVARIANT NoOrphan
CHECK_DEADLOCK FALSE
