\* Heartbeats, failing writes, retried resumes, and the process killed once.
CONSTANTS
    t1 = t1  g1 = g1  a = a  b = b
    NoItem = NoItem
    Items <- MCItems
    Rank <- MCRank
    Kind <- MCKind
    Commands <- MCCommands
    FetchLimit = 1
    Modes <- MCModes
    MaxOpenings = 4
    HeartbeatEnabled = TRUE
SPECIFICATION FairSpec
CHECK_DEADLOCK FALSE  \* the commands may be done and the items consumed
INVARIANTS
    TypeOK
    ConfirmationsDecided
    ActsBacked
PROPERTIES
    ClaimsEnd
