SPECIFICATION FairSpec
CONSTANTS
  u1 = u1
  u2 = u2
  b1 = b1
  x = x
  y = y
  z = z
  Targets = {u1, u2, b1}
  Bucket = {b1}
  EtagOf <- SomeEtags
  NoEtag = NoEtag
  Creds = {good, bad, nokey}
  Accepted = {good}
  Unusable = {nokey}
  Flaky = {b1}
  EntryIds = {e1, e2, e3}
  Readers = {r1}
  MaxVersion = 2
  MaxEdits = 2
  MaxMoving = 1
  None = None
INVARIANTS TypeOK ReadIsOneResponse ETagNotAheadOfBytes ForceSyncRefetches ObservedMeansFetched ReadNotBehindStatus
PROPERTIES OriginReachesCache
