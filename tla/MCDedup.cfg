\* A Redis whose calls may raise, and a table of two messages.
CONSTANTS
    x1 = x1  x2 = x2  x3 = x3  y1 = y1  z1 = z1
    Deliveries <- MCDeliveries
    Msg <- MCMsg
    UseRedis = TRUE
    RedisMayFail = TRUE
    Ttl = 2
    Capacity = 2
    MaxTime = 3
SPECIFICATION Spec
SYMMETRY Symmetric
CHECK_DEADLOCK FALSE  \* all deliveries are answered
INVARIANTS
    TypeOK
    ForgetsOnlyWhenFull
    RedisLetsOneThrough
    NoneDropped
