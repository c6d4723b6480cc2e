\* Three workers or one; a plan, a plan inside one of its agents, a tool call.
CONSTANTS
    plan = plan  nested = nested  call = call
    NoAgent = NoAgent
    Parents <- MCParents
    Tools <- MCTools
    Workers <- MCWorkers
    Host <- MCHost
    Goals <- MCGoals
    Graphs <- MCGraphs
    Extras <- MCExtras
    MaxConcurrent = 1
    MaxIterations = 2
    MaxFaults <- MCMaxFaults
SPECIFICATION FairSpec
CHECK_DEADLOCK FALSE  \* every parent may have ended
INVARIANTS
    TypeOK
    PermitsCounted
    AllAccountedFor
    OwnResultsIfAlone
PROPERTIES
    DependenciesFirst
    ParentsEnd
