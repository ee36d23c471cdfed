SPECIFICATION FairSpec
CONSTANTS
  p1 = p1
  p2 = p2
  k1 = k1
  k2 = k2
  Repos = {k1}
  Pins = {p1, p2}
  PinsOf <- AllPins
  RevisionPins = {p2}
  Creds = {good, newer}
  Accepted = {good, newer}
  Unparsable = {}
  EntryIds = {e1, e2}
  GitWorkers = {w1}
  Readers = {r1}
  Flaky = {}
  PinEdits = FALSE
  MaxCommit = 2
  MaxRestarts = 1
  None = None
  Torn = Torn
PROPERTIES EveryReadReturns EveryGitCallReturns PushReachesCache 
