\* Two slots, two dates; the side effects of one of the jobs may raise.
CONSTANTS
    j1 = j1  j2 = j2  j3 = j3  j4 = j4
    Jobs <- MCJobs
    Priority <- MCPriority
    MaxConcurrentTasks = 2
    DailyTaskQuota = 2
    MaxTaskRetries = 1
    LastDay = 2
    PublishFaults = {j1}
    DeadLetterFaults = {j1}
SPECIFICATION FairSpec
CHECK_DEADLOCK FALSE  \* every job may have ended on the last date
INVARIANTS
    TypeOK
    SlotsCounted
    NoIdleSlot
    QueueHoldsQueued
    QuotaRespected
    ExecutionsBounded
    OneOutcome
PROPERTIES
    RejectsOnlyOverQuota
    QueueIsFair
    ImplementsPool
    AcceptedJobsEnd
