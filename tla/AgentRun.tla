------------------------------ MODULE AgentRun ------------------------------
(* One task under ReactEngine: rounds of an LLM call and the batches of    *)
(* tool calls it asks for, a checkpoint after every batch, a token budget, *)
(* and the resumption by TaskRunner of a run that was cut off.             *)
EXTENDS Integers, Sequences, FiniteSetsExt

CONSTANTS
    Answers,        \* what the LLM may ask for: sequences of kinds of call
    MaxRounds, Budget,
    MaxFaults, MaxCrashes

VARIABLES
    at,             \* "off", "ask", "tools", "last", "done"
    round,
    talk,           \* groups of the conversation: calls asked, how many answered
    used,           \* tokens, as the run counts them
    running,        \* positions of the batch that still run
    file,           \* latest checkpoint of the run the manifest names, or None
    once,           \* history: the conversation of the last checkpoint ever
    excuses,        \* history: "early crash", "cut message"
    spent,          \* history: tokens paid for
    count           \* faults and crashes so far

vars == <<at, round, talk, used, running, file, once, excuses, spent, count>>

None == [talk |-> <<>>, used |-> 0]
Group(calls) == [asked |-> calls, answered |-> 0]
Whole(group) == group.answered = Len(group.asked)
Open == talk[Len(talk)]

Init ==
    /\ at = "off" /\ round = 0 /\ talk = <<>> /\ used = 0 /\ running = {}
    /\ file = None /\ once = <<>> /\ excuses = {} /\ spent = 0
    /\ count = [faults |-> 0, crashes |-> 0]

\* TaskRunner: the manifest gets a new run id, and with it an empty directory
\* of checkpoints; the latest of the old one is where the run goes on.
\* Faulty variant: it is not looked for.
BeginAnew ==
    /\ at = "off" /\ at' = "ask" /\ file' = None
    /\ UNCHANGED <<round, talk, used, running, once, excuses, spent, count>>
Begin ==
    /\ at = "off" /\ at' = "ask" /\ file' = None
    /\ talk' = file.talk /\ used' = file.used
    /\ excuses' = IF \A g \in DOMAIN talk' : Whole(talk'[g]) THEN excuses
                  ELSE excuses \union {"cut message"}
    /\ UNCHANGED <<round, running, once, spent, count>>

\* A batch: from position i on, as long as no call excludes another one.
Excludes(x, y) ==
    x = "exclusive" \/ y = "exclusive" \/ (x = y /\ x \in {"path a", "path b"})
Together(calls, i, j) ==
    \A x, y \in i..j : x = y \/ ~Excludes(calls[x], calls[y])
\* Faulty variant: the keys of the resources are not compared.
BatchBlind(calls, i) ==
    i..Max({j \in i..Len(calls) : \A x \in i..j : x = i \/ calls[x] # "exclusive"})
Batch(calls, i) == i..Max({j \in i..Len(calls) : Together(calls, i, j)})

\* An LLM call is paid for, whatever it answers.
Pays == used' = used + 1 /\ spent' = spent + 1
Saved == /\ file' = [talk |-> talk', used |-> used'] /\ once' = talk'
Fails == count.faults < MaxFaults /\ count' = [count EXCEPT !.faults = @ + 1]

\* Faulty variant: the budget is looked at once, before the first round.
WithinAtFirst == round > 0 \/ used < Budget
Within == used < Budget

OverBudget ==
    /\ at = "ask" /\ round < MaxRounds /\ ~Within /\ at' = "done"
    /\ UNCHANGED <<round, talk, used, running, file, once, excuses, spent, count>>

AskRaises ==
    /\ at = "ask" /\ (round < MaxRounds => Within) /\ Fails /\ at' = "done"
    /\ UNCHANGED <<round, talk, used, running, file, once, excuses, spent>>

\* A text ends the run, after a last checkpoint; a save that raises ends it
\* with an error.
AnswerText ==
    /\ at = "ask" /\ round < MaxRounds /\ Within /\ Pays /\ at' = "done"
    /\ UNCHANGED <<round, talk, running, excuses>>
    /\ \/ Saved /\ UNCHANGED count
       \/ Fails /\ UNCHANGED <<file, once>>

AnswerCalls(calls) ==
    /\ at = "ask" /\ round < MaxRounds /\ Within /\ Pays /\ at' = "tools"
    /\ talk' = Append(talk, Group(calls)) /\ running' = Batch(calls, 1)
    /\ UNCHANGED <<round, file, once, excuses, count>>

\* gather: the calls of a batch end in any order; one that raises is an
\* error result.
ToolEnds(c) ==
    /\ at = "tools" /\ c \in running /\ running # {c} /\ running' = running \ {c}
    /\ UNCHANGED <<at, round, talk, used, file, once, excuses, spent, count>>

\* With the last of a batch its results are appended and saved, and the next
\* batch starts, or the next round.
BatchEnds ==
    /\ at = "tools" /\ \E c \in running : running = {c}
    /\ LET last == Max(Batch(Open.asked, Open.answered + 1))
           more == last < Len(Open.asked) IN
       /\ talk' = [talk EXCEPT ![Len(talk)].answered = last]
       /\ UNCHANGED used
       /\ \/ /\ Saved /\ UNCHANGED count
             /\ running' = IF more THEN Batch(Open.asked, last + 1) ELSE {}
             /\ at' = IF more THEN "tools" ELSE "ask"
             /\ round' = IF more THEN round ELSE round + 1
          \/ Fails /\ at' = "done" /\ running' = {} /\ UNCHANGED <<round, file, once>>
    /\ UNCHANGED <<excuses, spent>>

\* After the rounds one call without tools, budget or not.
LastAnswer ==
    /\ at = "ask" /\ round = MaxRounds /\ Pays /\ at' = "done"
    /\ UNCHANGED <<round, talk, running, excuses>>
    /\ \/ Saved /\ UNCHANGED count
       \/ Fails /\ UNCHANGED <<file, once>>

\* The process dies; whoever runs the task again hands in its manifest.
Crash ==
    /\ at \in {"ask", "tools"} /\ count.crashes < MaxCrashes
    /\ count' = [count EXCEPT !.crashes = @ + 1]
    /\ at' = "off" /\ round' = 0 /\ running' = {} /\ talk' = <<>> /\ used' = 0
    /\ excuses' = IF file = None THEN excuses \union {"early crash"} ELSE excuses
    /\ UNCHANGED <<file, once, spent>>

Step ==
    \/ Begin \/ OverBudget \/ AnswerText \/ LastAnswer
    \/ \E calls \in Answers : AnswerCalls(calls)
    \/ \E c \in running : ToolEnds(c)
    \/ BatchEnds
Next == Step \/ AskRaises \/ Crash
Spec == Init /\ [][Next]_vars

-----------------------------------------------------------------------------
TypeOK ==
    /\ at \in {"off", "ask", "tools", "done"} /\ round \in 0..MaxRounds
    /\ Len(talk) <= Budget /\ \A g \in DOMAIN talk :
         talk[g].asked \in Answers /\ talk[g].answered \in 0..Len(talk[g].asked)
    /\ used \in 0..(Budget + 1) /\ running \subseteq 1..4
    /\ file.used \in 0..(Budget + 1)
    /\ excuses \subseteq {"early crash", "cut message"}

(* The LLM is asked with every call of the conversation answered; only a   *)
(* run resumed from a checkpoint taken between two batches of one message  *)
(* goes on without the others.                                             *)
CallsAnswered ==
    at = "ask" /\ "cut message" \notin excuses => \A g \in DOMAIN talk : Whole(talk[g])

(* What a checkpoint holds is not done again: a resumed run goes on from   *)
(* it, unless the one before died before its own first checkpoint.         *)
SavedIsResumed ==
    at # "off" /\ "early crash" \notin excuses =>
        /\ Len(once) <= Len(talk)
        /\ \A g \in DOMAIN once :
             once[g].asked = talk[g].asked /\ once[g].answered <= talk[g].answered

(* Calls that exclude each other never run at the same time.               *)
ApartKept == \A x, y \in running : x # y => ~Excludes(Open.asked[x], Open.asked[y])

(* The budget is overrun by the call after the last round and, per crash,  *)
(* by the call paid for since the last checkpoint; never by more, unless a *)
(* run died before its own first checkpoint and the count starts anew.     *)
BudgetKept ==
    "early crash" \notin excuses => spent <= Budget + 1 + count.crashes

(* Every run that is not killed again ends.                                *)
Ended == at = "done"
=============================================================================
