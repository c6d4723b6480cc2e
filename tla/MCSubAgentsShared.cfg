\* Nothing fails, but the plan, its agents and the call are of one worker.
CONSTANTS
    plan = plan  nested = nested  call = call
    NoAgent = NoAgent
    Parents <- MCParents
    Tools <- MCTools
    Workers <- MCOneWorker
    Host <- MCHost
    Goals <- MCGoals
    Graphs <- MCGraphs
    Extras <- MCExtras
    MaxConcurrent = 1
    MaxIterations = 2
    MaxFaults <- MCNoFaults
SPECIFICATION Spec
CHECK_DEADLOCK FALSE
INVARIANTS
    OwnResults
