SPECIFICATION Spec
CONSTANTS
  c1 = c1
  c2 = c2
  kA = kA
  kB = kB
  CRs = {c1, c2}
  Kinds = {kA, kB}
  KindOf <- TwoKinds
  Names = {n1, n2}
  SameNS <- OneNamespace
  Adopters = {}
  Listers = {c2}
  Lag = FALSE
  Renames = FALSE
  UserSecrets = FALSE
  MaxEdits = 5
  None = None
SYMMETRY Symmetry
INVARIANTS NoOrphan
 
CHECK_DEADLOCK FALSE
