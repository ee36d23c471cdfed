SPECIFICATION FairSpec
CONSTANTS
  NUL = NUL
  MaxExact = 4
  Nil = Nil
  None = None
  K1 = K1
  K2 = K2
  Setups <- SomeSetups
  Locations = {"l1", "l2"}
  Revisions <- Counts
  Files <- SomeFiles
  Payloads <- SomePayloads
  FirstSpec <- Specs
  FirstSource <- Sources
  SpecEdits <- SomeSpecEdits
  SourceEdits <- SomeSourceEdits
  Namespace = "apps"
  Allowed = {"ops"}
  GlobalKey <- Global
  KeySecrets <- Secrets
  AgeKeys = {K1, K2}
  FirstKeys <- GoodKeys
  MaxEdits = 2
INVARIANTS TypeOK  ObservedMeansApplied SourceEventReachesSecret
PROPERTIES EditKeepsTheRest 
