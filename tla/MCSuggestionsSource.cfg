\* Two suggestions of a source; nothing fails.
CONSTANTS
    s1 = s1  s2 = s2  a = a  b = b
    Ids <- MCIds
    Source <- MCSource
    Commands <- MCCommands
    NoToken = NoToken
    WriteMayFail = FALSE
    MaxCrashes = 0
SPECIFICATION Spec
INVARIANTS
    OneApprovalPerSource
