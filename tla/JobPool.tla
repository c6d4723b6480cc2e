------------------------------ MODULE JobPool ------------------------------
(***************************************************************************)
(* What the WorkerScheduler promises, without its queue, its counters and  *)
(* its side effects: a pool of Capacity slots.  A submitted job is taken   *)
(* at once when a slot is free and waits otherwise; a slot that becomes    *)
(* free passes, in the same step, to a most urgent waiting job; a job that *)
(* leaves its slot is either finished for good or waits for another try.   *)
(***************************************************************************)
EXTENDS Naturals, FiniteSets

CONSTANTS
    Jobs,       \* every call of submit_task is one job
    Priority,   \* the priority each job is submitted with, lower is more urgent
    Capacity    \* the number of slots

VARIABLE status

Statuses == {"new", "rejected", "waiting", "running", "finished"}

In(s) == {j \in Jobs : status[j] = s}

\* The waiting jobs no other waiting job is more urgent than.
MostUrgent(W) == {j \in W : \A k \in W : Priority[j] <= Priority[k]}

Init == status = [j \in Jobs |-> "new"]

Reject(j) ==
    /\ status[j] = "new"
    /\ status' = [status EXCEPT ![j] = "rejected"]

Accept(j) ==
    /\ status[j] = "new"
    /\ status' = [status EXCEPT ![j] =
            IF Cardinality(In("running")) < Capacity THEN "running" ELSE "waiting"]

\* j gives its slot up, finished or to be retried (then it waits with the
\* others and may be the one that gets the slot back).
Release(j, next) ==
    LET waiting == In("waiting") \union (IF next = "waiting" THEN {j} ELSE {})
    IN  /\ status[j] = "running"
        /\ \/ /\ waiting = {}
              /\ status' = [status EXCEPT ![j] = next]
           \/ \E k \in MostUrgent(waiting) :
                 status' = [status EXCEPT ![j] = next, ![k] = "running"]

Next == \E j \in Jobs :
    \/ Reject(j)
    \/ Accept(j)
    \/ \E next \in {"waiting", "finished"} : Release(j, next)

Spec == Init /\ [][Next]_status

=============================================================================
