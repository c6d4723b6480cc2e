\* Nothing fails: who decides over the interrupt of a graph?
CONSTANTS
    t1 = t1  g1 = g1  a = a  b = b
    NoItem = NoItem
    Items <- MCItems
    Rank <- MCRank
    Kind <- MCKind
    Commands <- MCCommands
    FetchLimit = 2
    Modes <- MCFaultless
    MaxOpenings = 4
    HeartbeatEnabled = TRUE
SPECIFICATION Spec
CHECK_DEADLOCK FALSE
INVARIANTS
    InterruptsDecided
