\* One task and two directories, over two lives of the cache.
CONSTANTS
  Callers = {c1}
  Keys = {k1, k2}
  Dicts = {d1, d2}
  None = None
  Ttl = 2
  MaxTime = 4
SPECIFICATION Spec
INVARIANT ListingsExpire
