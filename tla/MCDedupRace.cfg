\* With a Redis that never fails.
CONSTANTS
    x1 = x1  x2 = x2  x3 = x3  y1 = y1  z1 = z1
    Deliveries <- MCDeliveries
    Msg <- MCMsg
    UseRedis = TRUE
    RedisMayFail = FALSE
    Ttl = 2
    Capacity = 2
    MaxTime = 3
SPECIFICATION Spec
SYMMETRY Symmetric
CHECK_DEADLOCK FALSE
INVARIANTS
    OnceInTtl
