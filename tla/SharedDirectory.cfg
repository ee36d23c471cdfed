SPECIFICATION Spec
CONSTANTS
  p1 = p1
  p2 = p2
  k1 = k1
  k2 = k2
  Repos = {k1, k2}
  Pins = {p1}
  PinsOf <- AllPins
  RevisionPins = {}
  Creds = {good}
  Accepted = {good}
  Unparsable = {}
  EntryIds = {e1, e2, e3}
  GitWorkers = {w1}
  Readers = {r1}
  Flaky = {}
  PinEdits = TRUE
  MaxCommit = 2
  MaxRestarts = 0
  None = None
  Torn = Torn
INVARIANT ReadIsSnapshot
