------------------------------ MODULE Workflow ------------------------------
(* A task with given steps, under WorkflowEngine or HybridEngine: one step *)
(* after the other, each tried anew as often as its retries allow, its     *)
(* result saved in a checkpoint, and the run resumed after a crash from    *)
(* the step the checkpoint names.                                          *)
EXTENDS Naturals, Sequences, SequencesExt, FiniteSets

CONSTANTS
    Flows,          \* sequences of step names
    Autonomous,     \* names of the steps a hybrid flow leaves to ReactEngine
    MaxAttempts, MaxCrashes

VARIABLES
    engine,         \* "deterministic" or "hybrid"
    flow,
    at,             \* "off", "step", "ran", "told", "done"
    index, attempt,
    results,        \* names of the steps whose results the run holds
    file,           \* the checkpoint: results, current
    told,           \* indices that were reported as finished
    runs,           \* history: how often the work of each index was done
    verdict, crashes

vars == <<engine, flow, at, index, attempt, results, file, told, runs, verdict, crashes>>

None == [results |-> <<>>, current |-> "none"]

Init ==
    /\ engine \in {"deterministic", "hybrid"} /\ flow \in Flows
    /\ at = "off" /\ index = 0 /\ attempt = 0 /\ results = <<>> /\ file = None
    /\ told = {} /\ runs = [i \in DOMAIN flow |-> 0] /\ verdict = "none" /\ crashes = 0

\* The index behind the first step of that name.
Behind(name) ==
    IF name \in Range(flow) THEN 1 + SelectInSeq(flow, LAMBDA s : s = name) ELSE 1

\* Faulty variant: the step the checkpoint names is run again.
BeginAtCurrent ==
    /\ at = "off" /\ at' = "step" /\ attempt' = 1
    /\ results' = file.results
    /\ index' = IF file = None THEN 1 ELSE Behind(file.current) - 1
    /\ UNCHANGED <<engine, flow, file, told, runs, verdict, crashes>>
Begin ==
    /\ at = "off" /\ at' = "step" /\ attempt' = 1
    /\ results' = file.results /\ index' = Behind(file.current)
    /\ UNCHANGED <<engine, flow, file, told, runs, verdict, crashes>>

Finish(outcome) == at' = "done" /\ verdict' = outcome
More == at = "step" /\ index <= Len(flow)

\* StepRunner: the LLM, and the tools it asks for; the work is done even if
\* the last of the tools fails.
Works == runs' = [runs EXCEPT ![index] = @ + 1]
Tries == IF engine = "hybrid" /\ flow[index] \in Autonomous THEN 1 ELSE MaxAttempts

StepWorks ==
    /\ More /\ at' = "ran" /\ Works
    /\ UNCHANGED <<engine, flow, index, attempt, results, file, told, verdict, crashes>>

StepFails ==
    /\ More /\ (Works \/ UNCHANGED runs)
    /\ IF attempt < Tries
       THEN attempt' = attempt + 1 /\ UNCHANGED <<at, verdict>>
       ELSE Finish("error") /\ UNCHANGED attempt
    /\ UNCHANGED <<engine, flow, index, results, file, told, crashes>>

\* An autonomous step that runs out of budget ends with what it has, and
\* counts as a success.
AutonomousStops ==
    /\ More /\ engine = "hybrid" /\ flow[index] \in Autonomous
    /\ at' = "ran" /\ UNCHANGED runs
    /\ UNCHANGED <<engine, flow, index, attempt, results, file, told, verdict, crashes>>

Checkpoint ==
    /\ results' = Append(results, flow[index])
    /\ file' = [results |-> results', current |-> flow[index]]
Onward == at' = "step" /\ index' = index + 1 /\ attempt' = 1

\* WorkflowEngine saves, then reports the step as finished.
SaveThenTell ==
    /\ engine = "deterministic"
    /\ \/ at = "ran" /\ at' = "told" /\ Checkpoint /\ UNCHANGED <<index, attempt, told>>
       \/ at = "told" /\ Onward /\ told' = told \union {index} /\ UNCHANGED <<results, file>>
    /\ UNCHANGED <<engine, flow, runs, verdict, crashes>>

\* HybridEngine reports the step as finished, then saves.
TellThenSave ==
    /\ engine = "hybrid"
    /\ \/ /\ at = "ran" /\ at' = "told" /\ told' = told \union {index}
          /\ UNCHANGED <<index, attempt, results, file>>
       \/ at = "told" /\ Onward /\ Checkpoint /\ UNCHANGED told
    /\ UNCHANGED <<engine, flow, runs, verdict, crashes>>

\* The write of a checkpoint raises, and TaskRunner ends the run.
SaveRaises ==
    /\ at = (IF engine = "hybrid" THEN "told" ELSE "ran") /\ Finish("error")
    /\ UNCHANGED <<engine, flow, index, attempt, results, file, told, runs, crashes>>

AllDone ==
    /\ at = "step" /\ index > Len(flow) /\ Finish("success")
    /\ UNCHANGED <<engine, flow, index, attempt, results, file, told, runs, crashes>>

Crash ==
    /\ at \in {"step", "ran", "told"} /\ crashes < MaxCrashes /\ crashes' = crashes + 1
    /\ at' = "off" /\ index' = 0 /\ attempt' = 0 /\ results' = <<>>
    /\ UNCHANGED <<engine, flow, file, told, runs, verdict>>

Step ==
    \/ Begin \/ StepWorks \/ StepFails \/ AutonomousStops
    \/ SaveThenTell \/ TellThenSave \/ SaveRaises \/ AllDone
Next == Step \/ Crash
Spec == Init /\ [][Next]_vars

-----------------------------------------------------------------------------
TypeOK ==
    /\ engine \in {"deterministic", "hybrid"} /\ flow \in Flows
    /\ at \in {"off", "step", "ran", "told", "done"} /\ index \in 0..(Len(flow) + 1)
    /\ attempt \in 0..MaxAttempts /\ told \subseteq DOMAIN flow
    /\ Range(results) \subseteq Range(flow) /\ Range(file.results) \subseteq Range(flow)
    /\ runs \in [DOMAIN flow -> Nat] /\ verdict \in {"none", "success", "error"}

Distinct == Cardinality(Range(flow)) = Len(flow)
Names(n) == SubSeq(flow, 1, n)

(* A run that ends well holds the result of every step once, in order,     *)
(* resumed or not; two steps of one name break it, since the run goes on   *)
(* behind the first of them.                                               *)
ResultsInOrder ==
    (Distinct \/ crashes = 0) =>
        /\ verdict = "success" => results = flow
        /\ at = "step" => results = Names(index - 1)

(* A step that was reported as finished is in a checkpoint; HybridEngine   *)
(* reports it first, and has no checkpoint of it if it dies then.     *)
ToldIsSaved ==
    \/ engine = "hybrid" /\ (at = "told" \/ crashes > 0 \/ verdict = "error")
    \/ \A i \in told : i <= Len(file.results)

(* The work of a step whose result was saved is not done again.            *)
RedoesNone == Distinct => \A i \in 1..Len(file.results) : runs'[i] = runs[i]
WorkNotRedone == [][RedoesNone]_vars

Ended == at = "done"
=============================================================================
