SPECIFICATION FairSpec
CONSTANTS
  Threads = {t1, t2}
  Keys = {k1}
  Mutexes = {m1, m2}
  MaxVersion = 1
  None = None
INVARIANTS
  SerialisedLoadsUntilChurn
  EvictionEffective
PROPERTY CallsReturn
