\* Two tasks, two keys that compete for the one cache slot, no clear_cache: what
\* the cache stores, evicts and serves.
CONSTANTS
  Callers = {c1, c2}
  Keys = {k1, k2}
  NullKeys = {k1}
  Ttls = {0, 1}
  Retries = {2}
  MaxTtl = 1
  MaxSize = 1
  MaxTime = 2
  MaxClears = 0
  NoKey = NoKey
SPECIFICATION Spec
SYMMETRY CallerSymmetry
INVARIANTS TypeOK CacheIsLru NoNeedlessRequest
PROPERTY ReadsAreMonotonic
