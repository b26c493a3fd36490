\* Both decorators, two threads, one key more than fits.
SPECIFICATION Spec
CONSTANTS
  Threads = {t1, t2}
  Keys = {a, b, c}
  Policies = {"lru", "ttl"}
  MaxSize = 2
  Ttl = 1
  MaxClock = 2
SYMMETRY Symmetry
INVARIANTS
  TtlBoundsAge
  LruIsBounded
  ClearedOnlyInFlight
