SPECIFICATION FairSpec
CONSTANTS
  d1 = d1
  d2 = d2
  k1 = k1
  k2 = k2
  Workers = {w1, w2, w3}
  Contents = {d1, d2}
  Keys = {k1, k2, bad}
  Opens <- OwnKeys
  NoContent = NoContent
  NoKey = NoKey
  Unsettable = {bad}
  Ambient = Unset
  Unset = Unset
  NoWorker = NoWorker
INVARIANTS TypeOK EnvRestored
PROPERTIES KeepsPromise EveryCallReturns
