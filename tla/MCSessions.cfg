\* A task stream, a reset, two chats; two threads of a service worker.
CONSTANTS
    a = a  x = x  b = b  c = c  n1 = n1
    Requests <- MCRequests
    Kind <- MCKind
    Thread <- MCThread
    Spawner <- MCSpawner
    Service = {"t1", "t2"}
    MaxConcurrent = 1
    Notices = {n1}
    NoRequest = NoRequest
    NoSession = NoSession
    MaxFaults = 1
    Ttl = 0
    MaxTime = 1
    MaxRestarts = 1
SPECIFICATION Spec
SYMMETRY MCSymmetry
CHECK_DEADLOCK FALSE  \* every request may have been answered
INVARIANTS
    TypeOK
    TurnsKept
    OneSession
PROPERTIES
    QueueKept
