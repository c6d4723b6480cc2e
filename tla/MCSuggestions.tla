--------------------------- MODULE MCSuggestions ---------------------------
(* Two suggestions of one source and two command calls.                    *)
EXTENDS Suggestions, TLC

CONSTANTS s1, s2, a, b

MCIds == {s1, s2}
MCSource == [s \in Ids |-> "goal"]
MCCommands == {a, b}
=============================================================================
