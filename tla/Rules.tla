-------------------------------- MODULE Rules --------------------------------
(* The learned rules of a worker: a hook loads them, asks the model what   *)
(* the run teaches, and only then makes the rule; feedback, crystallizing  *)
(* and sharing with other workers go on meanwhile.                         *)
EXTENDS Integers, FiniteSets

CONSTANTS
    Runs,               \* hooks that make a rule, and the rule each makes
    Flushed,            \* those of a memory flush: they load no rules
    Learned, Shared,    \* rules there are, and rules other workers share
    Capacity,           \* max_learned_rules
    MaxFeedback

VARIABLES
    status,             \* of a rule file: "none", "active", "suspended", "crystallized"
    sure,               \* its confidence: low and below 1, high from 3 on
    at, loaded,         \* of a hook; loaded: confidence of the rules it found active
    overtaken,          \* history: hooks whose rules changed after they were loaded
    offered,            \* shared rules put in the inbox
    feedback            \* bound

vars == <<status, sure, at, loaded, overtaken, offered, feedback>>

Rules == Runs \union Learned \union Shared
Active == {r \in Rules : status[r] = "active"}
Low == 1
High == 3
Unknown == [r \in {} |-> 0]

Init ==
    /\ status = [r \in Rules |-> IF r \in Learned THEN "active" ELSE "none"]
    /\ sure \in [Rules -> {2}] \union {[r \in Rules |-> IF r \in Learned THEN High ELSE 2]}
    /\ at = [r \in Runs |-> "new"] /\ loaded = [r \in Runs |-> Unknown]
    /\ overtaken = {} /\ offered = {} /\ feedback = 0

Waiting == {r \in Runs : at[r] = "asks"}
Overtake(them) == overtaken' = overtaken \union them

\* load_rules, and then the model is asked.
Load(r) ==
    /\ at[r] = "new" /\ at' = [at EXCEPT ![r] = "asks"]
    /\ loaded' = [loaded EXCEPT ![r] = IF r \in Flushed THEN Unknown ELSE [x \in Active |-> sure[x]]]
    /\ UNCHANGED <<status, sure, overtaken, offered, feedback>>

\* Nothing to learn, unsafe, or against a principle or a directive.
Reject(r) ==
    /\ at[r] = "asks" /\ at' = [at EXCEPT ![r] = "done"]
    /\ UNCHANGED <<status, sure, loaded, overtaken, offered, feedback>>

\* Faulty variant: room is made only beyond the limit.
Overfull(known) == Cardinality(DOMAIN known) > Capacity
Full(known) == Cardinality(DOMAIN known) >= Capacity

Lowest(known) == {x \in DOMAIN known : \A y \in DOMAIN known : known[x] <= known[y]}
\* create_rule: among the rules as they were loaded, the one least sure of is
\* suspended, written as it was loaded.
Create(r) ==
    /\ at[r] = "asks" /\ at' = [at EXCEPT ![r] = "done"]
    /\ \/ /\ Full(loaded[r])
          /\ \E x \in Lowest(loaded[r]) :
                /\ status' = [status EXCEPT ![x] = "suspended", ![r] = "active"]
                /\ sure' = [sure EXCEPT ![x] = loaded[r][x]]
       \/ ~Full(loaded[r]) /\ status' = [status EXCEPT ![r] = "active"] /\ UNCHANGED sure
    /\ Overtake(Waiting \ {r})
    /\ UNCHANGED <<loaded, offered, feedback>>

\* Faulty variant: an outcome decides the status anew.
FeedbackRevives(x, d) ==
    /\ feedback < MaxFeedback /\ feedback' = feedback + 1 /\ status[x] # "none"
    /\ sure' = [sure EXCEPT ![x] = IF @ + d \in 0..4 THEN @ + d ELSE @]
    /\ status' = [status EXCEPT ![x] = IF sure'[x] < Low THEN "suspended" ELSE "active"]
    /\ Overtake({r \in Waiting : x \in DOMAIN loaded[r]})
    /\ UNCHANGED <<at, loaded, offered>>
\* update_confidence: of a rule a run had applied, whatever its status.
Feedback(x, d) ==
    /\ feedback < MaxFeedback /\ feedback' = feedback + 1 /\ status[x] # "none"
    /\ sure' = [sure EXCEPT ![x] = IF @ + d \in 0..4 THEN @ + d ELSE @]
    /\ status' = [status EXCEPT ![x] = IF sure'[x] < Low THEN "suspended" ELSE @]
    /\ Overtake({r \in Waiting : x \in DOMAIN loaded[r]})
    /\ UNCHANGED <<at, loaded, offered>>

\* run_crystallization_cycle: active rules it is sure of, to a tool or, with
\* no suggestion store, a skill.
Crystallize(x) ==
    /\ x \in Active /\ sure[x] >= High
    /\ status' = [status EXCEPT ![x] = "crystallized"]
    /\ Overtake({r \in Waiting : x \in DOMAIN loaded[r]})
    /\ UNCHANGED <<sure, at, loaded, offered, feedback>>

\* run_sharing_cycle: discover_adoptable_rules compares the id of the shared
\* rule, and an adopted one has another id and the other worker as evidence.
Offer(x) ==
    /\ x \in Shared /\ offered' = offered \union {x}
    /\ UNCHANGED <<status, sure, at, loaded, overtaken, feedback>>

\* The tool adopt_shared_rule writes the copy anew.
Adopt(x) ==
    /\ x \in offered /\ offered' = offered \ {x}
    /\ status' = [status EXCEPT ![x] = "active"] /\ sure' = [sure EXCEPT ![x] = 2]
    /\ Overtake(Waiting)
    /\ UNCHANGED <<at, loaded, feedback>>

Hook(r) == Load(r) \/ Reject(r) \/ Create(r)
Next ==
    \/ \E r \in Runs : Hook(r)
    \/ \E x \in Rules : Crystallize(x) \/ Offer(x) \/ Adopt(x) \/ Feedback(x, 1) \/ Feedback(x, -1)
Spec == Init /\ [][Next]_vars

-----------------------------------------------------------------------------
TypeOK ==
    /\ status \in [Rules -> {"none", "active", "suspended", "crystallized"}]
    /\ sure \in [Rules -> 0..4] /\ at \in [Runs -> {"new", "asks", "done"}]
    /\ \A r \in Runs : DOMAIN loaded[r] \subseteq Rules
    /\ overtaken \subseteq Runs /\ offered \subseteq Shared /\ feedback \in 0..MaxFeedback

(* There are more active rules than the capacity only when the rules       *)
(* changed while a hook asked, a flush made one, or one was adopted.       *)
CapacityKept ==
    \/ Cardinality(Active) <= Capacity
    \/ overtaken \union {r \in Flushed : status[r] # "none"} # {}
    \/ \E x \in Shared : status[x] # "none"

(* A worker never goes by a rule it has no confidence left in.             *)
SureOfActive == \A x \in Active : sure[x] >= Low

(* A rule that was suspended or crystallized comes back by adoption only.  *)
RevivesNone ==
    \A x \in Rules : status[x] \in {"suspended", "crystallized"} /\ status'[x] = "active"
        => x \in offered
NotRevived == [][RevivesNone]_vars

Settled == \A r \in Runs : at[r] = "done"
=============================================================================
