\* One process that may restart, three keys, Redis failing at will, over three minutes.
SPECIFICATION Spec
CONSTANTS
  Servers = {s1}  Keys = {k1, k2, k3}  Requests = {r1, r2, r3}
  Redis = Redis
  RedisEnabled = TRUE
  Limit = 1  CleanupAt = 2  Resends = 0  MaxMinute = 2  MaxRestarts = 1
SYMMETRY Interchangeable
CHECK_DEADLOCK FALSE
INVARIANTS TypeOK QuotaPerCounter QuotaPerMinute RefusalHasCause TrackedBounded
PROPERTIES ImplementsQuota
