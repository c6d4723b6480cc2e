--------------------------- MODULE ContextWindow ---------------------------
(* What the model is shown of runs of one worker.  A run keeps all its     *)
(* messages; before every call a view of them is put together, cleared,    *)
(* pruned and summarized as the window fills up.  The summary lies in a    *)
(* file of the worker, whichever run it is of.                             *)
EXTENDS Integers, FiniteSets

CONSTANTS
    Runs, MaxRounds,    \* a round: a call, its tools and their results
    Result, Fixed,      \* tokens of a result, of the system prompt; all else is 1
    PruneAt, SumUpAt,   \* the two thresholds
    Age,                \* tool_trim_age_rounds
    MaxFaults

VARIABLES
    encoder,    \* "tiktoken", which takes texts only, or "characters"
    at,         \* of a run: "asks", "sums up", "sees", "over"
    rounds,     \* it has had
    cleared,    \* view: rounds whose results are left out
    summed,     \* view: "no", "summary", or "error" where that is what was answered
    legacy,     \* the view is that of the legacy trimming
    loaded,     \* the summary it found
    file,       \* the summary: of each run, the rounds it stands for
    faults      \* bound

vars == <<encoder, at, rounds, cleared, summed, legacy, loaded, file, faults>>

Nothing == [r \in Runs |-> 0]
Init ==
    /\ encoder \in {"tiktoken", "characters"} /\ at = [r \in Runs |-> "asks"]
    /\ rounds = Nothing /\ cleared = [r \in Runs |-> {}] /\ summed = [r \in Runs |-> "no"]
    /\ legacy = [r \in Runs |-> FALSE] /\ loaded = [r \in Runs |-> Nothing]
    /\ file = Nothing /\ faults = 0

\* count_messages_tokens of the system prompt and n rounds, some cleared.
Tokens(n, gone) == Fixed + n + (Result - 1) * Cardinality((1..n) \ gone)
\* trim_old_tool_results.
Old(r) == 1..(rounds[r] - Age)
\* trim_for_compression: every long result, the newest too.
Long(r) == 1..rounds[r]
\* prune_oldest_rounds drops the oldest groups but never the last one, and a
\* group starts with a message of the user: of a run there is only one.
Dropped(groups) == 1..(groups - 1)

\* Beyond the first threshold, whatever the age; the memory flush, between
\* the pruning and this, stores what it learns elsewhere.
Cleared(r) ==
    IF Tokens(rounds[r], {}) < PruneAt THEN {} ELSE Dropped(1) \union Old(r) \union Long(r)

\* The calls of a round are counted as texts, and they are not.
Miscounts(r) == encoder = "tiktoken" /\ rounds[r] > 0

Show(r, c, s, l) ==
    /\ cleared' = [cleared EXCEPT ![r] = c] /\ summed' = [summed EXCEPT ![r] = s]
    /\ legacy' = [legacy EXCEPT ![r] = l] /\ at' = [at EXCEPT ![r] = "sees"]

\* build_managed_context raised: the messages as they are.
Fallback(r) ==
    /\ at[r] = "asks" /\ Miscounts(r) /\ Show(r, {}, "no", TRUE)
    /\ UNCHANGED <<encoder, rounds, loaded, file, faults>>
Assemble(r) ==
    /\ at[r] = "asks" /\ ~Miscounts(r)
    /\ \/ Tokens(rounds[r], Cleared(r)) < SumUpAt /\ Show(r, Cleared(r), "no", FALSE) /\ UNCHANGED loaded
       \/ /\ Tokens(rounds[r], Cleared(r)) >= SumUpAt /\ at' = [at EXCEPT ![r] = "sums up"]
          /\ loaded' = [loaded EXCEPT ![r] = file]
          /\ UNCHANGED <<cleared, summed, legacy>>
    /\ UNCHANGED <<encoder, rounds, file, faults>>

Join(s, r) == [s EXCEPT ![r] = rounds[r]]
\* Faulty variant: the previous summary is not given along.
SumUpAnew(r) ==
    /\ at[r] = "sums up" /\ Show(r, 1..rounds[r], "summary", FALSE)
    /\ file' = Join(Nothing, r) /\ UNCHANGED <<encoder, rounds, loaded, faults>>
\* The model joins the rounds to the summary that was loaded.
SumUp(r) ==
    /\ at[r] = "sums up" /\ Show(r, 1..rounds[r], "summary", FALSE)
    /\ file' = Join(loaded[r], r) /\ UNCHANGED <<encoder, rounds, loaded, faults>>
\* The router's adapter answers an error as a text, which is saved as one;
\* an empty answer is shown and not saved.
SumUpFails(r) ==
    /\ at[r] = "sums up" /\ faults < MaxFaults /\ faults' = faults + 1
    /\ Show(r, 1..rounds[r], "error", FALSE)
    /\ file' \in {Nothing, file} /\ UNCHANGED <<encoder, rounds, loaded>>
\* It raises: the legacy trimming.
SumUpRaises(r) ==
    /\ at[r] = "sums up" /\ faults < MaxFaults /\ faults' = faults + 1
    /\ Show(r, {}, "no", TRUE) /\ UNCHANGED <<encoder, rounds, loaded, file>>

\* The model calls tools, or it answers.
Answers(r) ==
    /\ at[r] = "sees"
    /\ \/ rounds[r] < MaxRounds /\ rounds' = [rounds EXCEPT ![r] = @ + 1] /\ at' = [at EXCEPT ![r] = "asks"]
       \/ at' = [at EXCEPT ![r] = "over"] /\ UNCHANGED rounds
    /\ UNCHANGED <<encoder, cleared, summed, legacy, loaded, file, faults>>

Step(r) == Fallback(r) \/ Assemble(r) \/ SumUp(r) \/ SumUpFails(r) \/ SumUpRaises(r) \/ Answers(r)
Next == \E r \in Runs : Step(r)
Spec == Init /\ [][Next]_vars

-----------------------------------------------------------------------------
TypeOK ==
    /\ at \in [Runs -> {"asks", "sums up", "sees", "over"}] /\ rounds \in [Runs -> 0..MaxRounds]
    /\ cleared \in [Runs -> SUBSET (1..MaxRounds)] /\ summed \in [Runs -> {"no", "summary", "error"}]
    /\ loaded \in [Runs -> [Runs -> 0..MaxRounds]] /\ file \in [Runs -> 0..MaxRounds]

(* The summary loses rounds of a run only to a summary that failed, or to  *)
(* that of a run which had loaded it before them.                          *)
DropsNone ==
    \A q \in Runs : file'[q] < file[q] =>
        faults' > faults \/ \E r \in Runs : at[r] = "sums up" /\ loaded[r][q] < file[q]
SummaryGrows == [][DropsNone]_vars

Settled == \A r \in Runs : at[r] = "over"
=============================================================================
