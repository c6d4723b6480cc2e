----------------------------- MODULE GraphThread -----------------------------
(* One thread of LangGraphEngine: a graph work -> ask -> act whose node ask *)
(* is an interrupt.  Reaching it, execute writes an inbox item and links   *)
(* it to the thread; the decision on the item comes back as a resume.      *)
(* Between nodes the graph library saves a checkpoint (external).          *)
EXTENDS Naturals, Sequences

CONSTANTS Resumes, MaxFaults, MaxCrashes

VARIABLES
    tracked,        \* do the nodes change what the digest covers
    next,           \* persisted: "work", "ask", "act" or "end"
    stamp,          \* persisted: stands for the digest of the state
    decision,       \* persisted: "none", "approved", "rejected"
    item,           \* the inbox item: status, digest
    run,            \* execute and the resumes: at, node, decided
    acted,          \* history: decisions under which act has run, in order of ending
    excuses,        \* history: "decided early", "lease overrun"
    count

vars == <<tracked, next, stamp, decision, item, run, acted, excuses, count>>

First == "execute"
Runners == {First} \union Resumes
Idle == [at |-> "off", node |-> "none", decided |-> "none"]

Init ==
    /\ tracked \in BOOLEAN /\ next = "work" /\ stamp = 0 /\ decision = "none"
    /\ item = [status |-> "none", digest |-> 0]
    /\ run = [r \in Runners |-> IF r = First THEN [Idle EXCEPT !.at = "run"] ELSE Idle]
    /\ acted = <<>> /\ excuses = {} /\ count = [faults |-> 0, crashes |-> 0]

Over(r) == run[r].at \in {"off", "done", "drift", "failed"}
Goes(r, at) == run' = [run EXCEPT ![r].at = at]

\* The stream takes the next node from the checkpoint, unless execute has
\* come to an interrupt; a resume goes through it.
TakeThrough(r) ==       \* faulty variant: the graph is compiled without interrupts
    /\ run[r].at = "run" /\ next # "end"
    /\ run' = [run EXCEPT ![r].at = "node", ![r].node = next]
    /\ UNCHANGED <<tracked, next, stamp, decision, item, acted, excuses, count>>
Take(r) ==
    /\ run[r].at = "run" /\ next # "end" /\ ~(r = First /\ next = "ask")
    /\ run' = [run EXCEPT ![r].at = "node", ![r].node = next]
    /\ UNCHANGED <<tracked, next, stamp, decision, item, acted, excuses, count>>

MaxActs == 2        \* bound: act is not followed further than its second time
After(node) == CASE node = "work" -> "ask" [] node = "ask" -> "act" [] OTHER -> "end"
Put(r) ==
    /\ run[r].at = "node" /\ Len(acted) < MaxActs
    /\ Goes(r, "run") /\ next' = After(run[r].node)
    /\ stamp' = IF tracked /\ run[r].node # "ask" THEN stamp + 1 ELSE stamp
    /\ acted' = IF run[r].node = "act" THEN Append(acted, decision) ELSE acted
    /\ UNCHANGED <<tracked, decision, item, excuses, count>>

\* _emit_pause_if_needed: the item is written, then written again with its
\* prompt, as pending and whatever became of it, then the thread is told of
\* it, as if the interrupt node had just run.
Ask ==
    /\ run[First].at = "run" /\ next = "ask" /\ Goes(First, "asked")
    /\ item' = [status |-> "pending", digest |-> stamp]
    /\ UNCHANGED <<tracked, next, stamp, decision, acted, excuses, count>>
Prompt ==
    /\ run[First].at = "asked" /\ Goes(First, "prompted")
    /\ item' = [item EXCEPT !.status = "pending"]
    /\ UNCHANGED <<tracked, next, stamp, decision, acted, excuses, count>>
Link ==
    /\ run[First].at = "prompted" /\ Goes(First, "done") /\ next' = "act"
    /\ UNCHANGED <<tracked, stamp, decision, item, acted, excuses, count>>

\* A command claims the item and submits the decision as a resume.
Decide(r, verdict) ==
    /\ item.status = "pending" /\ run[r].at = "off"
    /\ item' = [item EXCEPT !.status = "claimed"]
    /\ run' = [run EXCEPT ![r] = [at |-> "sent", node |-> "none", decided |-> verdict]]
    /\ excuses' = excuses \union
         IF run[First].at \in {"asked", "prompted"} THEN {"decided early"} ELSE {}
    /\ UNCHANGED <<tracked, next, stamp, decision, acted, count>>

\* A claim that is older than its lease is pending again.
Lapse ==
    /\ item.status = "claimed" /\ item' = [item EXCEPT !.status = "pending"]
    /\ excuses' = excuses \union
         IF \E r \in Resumes : run[r].at \in {"sent", "run", "node"} THEN {"lease overrun"} ELSE {}
    /\ UNCHANGED <<tracked, next, stamp, decision, run, acted, count>>

\* resume: the state must be the one that was asked about; then the decision
\* becomes part of it and the graph goes on.  The runner marks the item.
Resume(r) ==
    /\ run[r].at = "sent"
    /\ IF stamp # item.digest
       THEN /\ Goes(r, "drift") /\ item' = [item EXCEPT !.status = "pending"]
            /\ UNCHANGED decision
       ELSE Goes(r, "run") /\ decision' = run[r].decided /\ UNCHANGED item
    /\ UNCHANGED <<tracked, next, stamp, acted, excuses, count>>

Finish(r) ==
    /\ run[r].at = "run" /\ next = "end" /\ Goes(r, "done")
    /\ item' = IF r = First THEN item ELSE [item EXCEPT !.status = "consumed"]
    /\ UNCHANGED <<tracked, next, stamp, decision, acted, excuses, count>>

\* A node raises: the thread stays where it was,
\* and the item of a resume is open again.
Raises(r) ==
    /\ run[r].at \in {"node", "asked", "prompted"} /\ Goes(r, "failed")
    /\ count.faults < MaxFaults /\ count' = [count EXCEPT !.faults = @ + 1]
    /\ item' = IF r = First THEN item ELSE [item EXCEPT !.status = "pending"]
    /\ UNCHANGED <<tracked, next, stamp, decision, acted, excuses>>

\* What runs or waits to run is gone.
Crash ==
    /\ count.crashes < MaxCrashes /\ count' = [count EXCEPT !.crashes = @ + 1]
    /\ run' = [r \in Runners |->
          IF Over(r) THEN run[r] ELSE [run[r] EXCEPT !.at = "failed"]]
    /\ run' # run
    /\ UNCHANGED <<tracked, next, stamp, decision, item, acted, excuses>>

Step ==
    \/ \E r \in Runners : Take(r) \/ Put(r) \/ Finish(r)
    \/ Ask \/ Prompt \/ Link
    \/ \E r \in Resumes : Resume(r)
Next ==
    \/ Step \/ Lapse \/ Crash
    \/ \E r \in Resumes, verdict \in {"approved", "rejected"} : Decide(r, verdict)
    \/ \E r \in Runners : Raises(r)
Spec == Init /\ [][Next]_vars

-----------------------------------------------------------------------------
TypeOK ==
    /\ tracked \in BOOLEAN /\ excuses \subseteq {"decided early", "lease overrun"}
    /\ next \in {"work", "ask", "act", "end"} /\ stamp \in 0..4
    /\ decision \in {"none", "approved", "rejected"}
    /\ item.status \in {"none", "pending", "claimed", "consumed"} /\ item.digest \in 0..4
    /\ \A r \in Runners : run[r].at \in
         {"off", "sent", "run", "node", "asked", "prompted", "done", "drift", "failed"}
    /\ Len(acted) <= MaxActs

(* act runs once, and only after a decision.  A decision that comes before *)
(* the second write of its item opens the item again, and the link to the  *)
(* thread then takes the graph back to its interrupt; a resume that        *)
(* outlives the lease of its item meets a second one.                      *)
ActedOnce ==
    excuses = {} => Len(acted) <= 1 /\ \A i \in DOMAIN acted : acted[i] # "none"

(* A thread that waits at its interrupt has an item on which it can be     *)
(* decided, unless its run was cut off or failed before it wrote one.      *)
WaitsWithItem ==
    \/ count.faults + count.crashes > 0
    \/ run[First].at = "done" => item.status # "none"

(* Every run and resume comes to its end, as far as it is followed.        *)
Settled == Len(acted) = MaxActs \/ \A r \in Runners : Over(r)
=============================================================================
