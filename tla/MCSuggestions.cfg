\* Two suggestions of a source, two commands, failing writes, a kill.
CONSTANTS
    s1 = s1  s2 = s2  a = a  b = b
    Ids <- MCIds
    Source <- MCSource
    Commands <- MCCommands
    NoToken = NoToken
    WriteMayFail = TRUE
    MaxCrashes = 1
SPECIFICATION FairSpec
INVARIANTS
    TypeOK
    AppliedOnce
    VerdictFitsEffects
    ResolvedIsGone
PROPERTIES
    CheckpointStands
    ClaimsEnd
