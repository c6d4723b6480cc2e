---------------------------- MODULE MCSubAgents ----------------------------
EXTENDS SubAgents

CONSTANTS plan, nested, call

MCParents == {plan, nested, call}
MCTools == {call}
Apart == (plan :> "w1") @@ (nested :> "w2") @@ (call :> "w3")
Together == [p \in MCParents |-> "w1"]
MCWorkers == {Apart, Together}
MCMaxFaults == [w \in MCWorkers |-> IF w = Apart THEN 1 ELSE 0]
MCOneWorker == {Together}
MCNoFaults == [w \in MCOneWorker |-> 0]
MCHost == (plan :> NoAgent) @@ (nested :> <<plan, 1>>) @@ (call :> NoAgent)
MCGoals == 1..3
Chain == <<{}, {1}>>
Pair == <<{}, {}>>
Cycle == <<{2}, {1}>>
MCGraphs == (plan :> {Pair, Chain, Cycle}) @@ (nested :> {<<{}>>}) @@ (call :> {Pair})
MCExtras == (plan :> {3 :> {1}}) @@ (nested :> {}) @@ (call :> {})
=============================================================================
