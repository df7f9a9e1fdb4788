\* Three tasks that keep calling for one key, and a clear_cache: the lock, and
\* that nobody waits for it for ever.
CONSTANTS
  Callers = {c1, c2, c3}
  Keys = {k1}
  NullKeys = {}
  Ttls = {0, 1}
  Retries = {2}
  MaxTtl = 1
  MaxSize = 1
  MaxTime = 0
  MaxClears = 1
  NoKey = NoKey
SPECIFICATION FairSpec
INVARIANT SingleFlight
PROPERTY EveryCallEnds
