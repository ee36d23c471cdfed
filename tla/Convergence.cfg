SPECIFICATION FairSpec
CONSTANTS
  c1 = c1
  c2 = c2
  kA = kA
  kB = kB
  CRs = {c1, c2}
  Kinds = {kA, kB}
  KindOf <- TwoKinds
  Names = {n1}
  SameNS <- OneNamespace
  Adopters = {}
  Listers = {c2}
  Lag = TRUE
  Renames = FALSE
  UserSecrets = TRUE
  MaxEdits = 4
  None = None
PROPERTIES DeletionCompletes TargetRestored
CHECK_DEADLOCK FALSE
