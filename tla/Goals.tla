------------------------------- MODULE Goals -------------------------------
(* The goal files that the deliveries of one external source make, and one *)
(* of them in full: its approval, the projection of ended tasks and the    *)
(* health check that APScheduler runs for it.  Files are read and written  *)
(* without an await between, so the awaits are where the state goes stale: *)
(* the parser, the model that compares an update, the inbox.  And not each *)
(* file that is written can be read: the priority of the content is not    *)
(* validated, the titles of milestones are not quoted, a write in place    *)
(* may be cut short.  Such a file is passed over by whoever looks for it.  *)
EXTENDS Naturals, FiniteSets

CONSTANTS
    Tasks, MilestoneOf,
    Deliveries,     \* of the source, by mail, document or webhook
    Followed,       \* of these, the one whose goal, if it makes one, is followed in full
    RequireApproval,\* the policies a delivery may come with
    MaxCrashes      \* crashes, writes cut short and events that raise

VARIABLES
    goal,           \* the file followed: status of the goal, tasks and milestones done
    goals,          \* files made, by delivery: those found now, those ever not found
    delivery,       \* where each delivery is, and the copy it works on
    job,            \* health check: "none", "idle", or "told": it wrote its inbox item
    approving,      \* the approval is written and not yet published
    excused,        \* history: an update rewrote the goal, its approval was not heard
    projected,      \* history: tasks projected as completed
    crashes

vars == <<goal, goals, delivery, job, approving, excused, projected, crashes>>

Statuses == {"absent", "unreadable", "pending_approval", "active", "completed", "abandoned"}
Milestones == {MilestoneOf[t] : t \in Tasks}
Goal == [status : Statuses, done : SUBSET Tasks, reached : SUBSET Milestones]
NoGoal == [status |-> "absent", done |-> {}, reached |-> {}]
Unreadable == [NoGoal EXCEPT !.status = "unreadable"]

TypeOK ==
    /\ goal \in Goal
    /\ goals \in [made : SUBSET Deliveries, found : SUBSET Deliveries, missed : SUBSET Deliveries]
    /\ goals.found \union goals.missed = goals.made
    /\ delivery \in [Deliveries -> [at : {"new", "parsing", "comparing", "over"},
                                   file : Deliveries, copy : Goal]]
    /\ job \in {"none", "idle", "told"}
    /\ approving \in BOOLEAN
    /\ excused \subseteq {"tasks", "status", "event"} /\ projected \subseteq Tasks
    /\ crashes \in 0..MaxCrashes

Init ==
    /\ goal = NoGoal /\ goals = [made |-> {}, found |-> {}, missed |-> {}] /\ job = "none"
    /\ delivery = [d \in Deliveries |-> [at |-> "new", file |-> d, copy |-> NoGoal]]
    /\ approving = FALSE
    /\ excused = {} /\ projected = {} /\ crashes = 0

Goes(d, at) == delivery' = [delivery EXCEPT ![d] = [at |-> at, file |-> d, copy |-> NoGoal]]

\* A file is written.  The look-up by source finds it, or it is "stray": it
\* reads as the goal of another source or of none, for the link is empty or
\* does not survive YAML.  Or it is unreadable.
Writes(f, fate) ==
    goals' = [made |-> goals.made \union {f},
              found |-> IF fate = "found" THEN goals.found \union {f} ELSE goals.found \ {f},
              missed |-> IF fate = "found" THEN goals.missed ELSE goals.missed \union {f}]

\* A bridge resolves the policy and publishes the content; it ends here when
\* no goal is to be created, nothing can be read, or the scan rejects it (an
\* inbox item tells).
ReceiveContent(d) ==
    /\ delivery[d].at = "new"
    /\ \E at \in {"parsing", "over"} : Goes(d, at)
    /\ UNCHANGED <<goal, goals, job, approving, excused, projected, crashes>>

Generates(d) ==
    /\ delivery[d].at = "parsing"
    /\ Goes(d, "over")
    /\ \E fate \in {"found", "stray", "unreadable"}, approval \in RequireApproval :
          /\ Writes(d, fate)
          /\ goal' = CASE d # Followed -> goal
                       [] fate = "unreadable" -> Unreadable
                       [] OTHER -> [NoGoal EXCEPT !.status =
                             IF approval THEN "pending_approval" ELSE "active"]
          /\ excused' = excused \union (IF d = Followed /\ ~approval THEN {"status"} ELSE {})
    /\ UNCHANGED <<job, approving, projected, crashes>>

\* Faulty variant: the file is looked for before the parser is awaited.
GenerateGoalBlind(d) == Generates(d)

\* Parsed, and no file of the source is found: look-up and write are one step.
\* Nothing subscribes to the event that tells of the new goal, so one that
\* is active from the start has no health check until a restart.
GenerateGoal(d) == goals.found = {} /\ Generates(d)

\* Parsed, and one is found: the model compares the copy read now.
CompareUpdate(d) ==
    /\ delivery[d].at = "parsing"
    /\ \E f \in goals.found :
          delivery' = [delivery EXCEPT ![d] =
              [at |-> "comparing", file |-> f, copy |-> IF f = Followed THEN goal ELSE NoGoal]]
    /\ UNCHANGED <<goal, goals, job, approving, excused, projected, crashes>>

\* The parser finds nothing, or there is no model to compare with.
Skip(d) ==
    /\ delivery[d].at = "parsing"
    /\ Goes(d, "over")
    /\ UNCHANGED <<goal, goals, job, approving, excused, projected, crashes>>

\* The copy with whatever the model changed in its status and its tasks; a
\* failed comparison or a conflict leaves the copy.
Merged(copy) ==
    {[copy EXCEPT !.status = status, !.done = done] :
        status \in {copy.status, "active", "completed"}, done \in {copy.done, {}}}

\* It is written over the file, whatever the file says by now.
UpdateGoal(d) ==
    /\ delivery[d].at = "comparing"
    /\ Goes(d, "over")
    /\ \E fate \in {"found", "unreadable"} :
          /\ Writes(delivery[d].file, fate)
          /\ goal' \in CASE delivery[d].file # Followed -> {goal}
                         [] fate = "unreadable" -> {Unreadable}
                         [] OTHER -> Merged(delivery[d].copy)
    /\ excused' = excused
          \union (IF goal'.done # goal.done \/ goal'.reached # goal.reached THEN {"tasks"} ELSE {})
          \union (IF goal'.status # goal.status THEN {"status"} ELSE {})
    /\ UNCHANGED <<job, approving, projected, crashes>>

\* /approve_goal writes the file, and then awaits the handlers of the event.
\* One of them reads it again and registers the health check; the filter of
\* another subscription may raise before its turn.
ApproveGoal ==
    /\ goal.status = "pending_approval" /\ ~approving
    /\ goal' = [goal EXCEPT !.status = "active"]
    /\ approving' = TRUE
    /\ UNCHANGED <<goals, delivery, job, excused, projected, crashes>>
HandleGoalApproved ==
    /\ approving /\ approving' = FALSE
    /\ job' = IF job = "none" /\ goal.status # "unreadable" THEN "idle" ELSE job
    /\ UNCHANGED <<goal, goals, delivery, excused, projected, crashes>>
PublishRaises ==
    /\ approving /\ approving' = FALSE
    /\ crashes < MaxCrashes /\ crashes' = crashes + 1
    /\ excused' = excused \union {"event"}
    /\ UNCHANGED <<goal, goals, delivery, job, projected>>
RejectGoal ==
    /\ goal.status = "pending_approval"
    /\ goal' = [goal EXCEPT !.status = "abandoned"]
    /\ UNCHANGED <<goals, delivery, job, approving, excused, projected, crashes>>

\* Faulty variant: a milestone is reached with its first task.
ReachedAny(done) == {m \in Milestones : \E t \in done : MilestoneOf[t] = m}

\* _refresh_milestone_status and auto_advance_milestone; one that is reached
\* goes back when some but not all of its tasks are done.
Reached(done) == {m \in Milestones : \A t \in Tasks : MilestoneOf[t] = m => t \in done}

\* project_task_outcome_to_goal, under the lock of the goal, with no await
\* inside, whatever the status of the goal: a run of the task completed it, or
\* failed and blocks it.  A goal once completed stays so.  The code fills in no
\* goal_task_id itself: these are the manifests that come with one.
ProjectTask(t, completed) ==
    /\ goal.status \notin {"absent", "unreadable"}
    /\ LET done == IF completed THEN goal.done \union {t} ELSE goal.done \ {t}
           untouched == {m \in goal.reached : \A u \in done : MilestoneOf[u] # m}
           reached == Reached(done) \union
                      (IF completed THEN untouched ELSE untouched \ {MilestoneOf[t]}) IN
       goal' = [status |-> IF reached = Milestones THEN "completed" ELSE goal.status,
                done |-> done, reached |-> reached]
    /\ projected' = IF completed THEN projected \union {t} ELSE projected \ {t}
    /\ UNCHANGED <<goals, delivery, job, approving, excused, crashes>>

\* run_goal_health_check of an active goal that deviates writes the inbox
\* item, which the next heartbeat acts upon, and asks the stakeholders.
HealthCheck ==
    /\ job = "idle" /\ goal.status = "active"
    /\ job' = "told"
    /\ UNCHANGED <<goal, goals, delivery, approving, excused, projected, crashes>>
RequestProgress ==
    /\ job = "told" /\ job' = "idle"
    /\ UNCHANGED <<goal, goals, delivery, approving, excused, projected, crashes>>

\* The write of an approval or a projection fails or is cut short: the file
\* was truncated when it was opened.
WriteTorn ==
    /\ goal.status \notin {"absent", "unreadable"}
    /\ crashes < MaxCrashes /\ crashes' = crashes + 1
    /\ goal' = Unreadable /\ Writes(Followed, "unreadable")
    /\ excused' = excused \union {"tasks"}
    /\ UNCHANGED <<delivery, job, approving, projected>>

\* A restart: what was in flight is gone, the active goals get their jobs.
Restart ==
    /\ crashes < MaxCrashes /\ crashes' = crashes + 1
    /\ delivery' = [d \in Deliveries |->
          IF delivery[d].at = "new" THEN delivery[d]
          ELSE [at |-> "over", file |-> d, copy |-> NoGoal]]
    /\ job' = IF goal.status = "active" THEN "idle" ELSE "none"
    /\ approving' = FALSE
    /\ excused' = IF goal.status = "active" THEN excused \ {"status", "event"} ELSE excused
    /\ UNCHANGED <<goal, goals, projected>>

Deliver(d) == ReceiveContent(d) \/ GenerateGoal(d) \/ CompareUpdate(d) \/ Skip(d) \/ UpdateGoal(d)
Next ==
    \/ \E d \in Deliveries : Deliver(d)
    \/ ApproveGoal \/ HandleGoalApproved \/ PublishRaises \/ RejectGoal
    \/ \E t \in Tasks, completed \in BOOLEAN : ProjectTask(t, completed)
    \/ HealthCheck \/ RequestProgress \/ WriteTorn \/ Restart

Spec == Init /\ [][Next]_vars

-----------------------------------------------------------------------------
(* However often a source is delivered, and whatever is awaited meanwhile, *)
(* it gets one goal that could be found all along; a further one is made   *)
(* only after a file that cannot be read or does not carry the source.     *)
OneGoalPerSource == Cardinality(goals.made \ goals.missed) <= 1

(* A task whose last run was projected as completed is so, and a milestone *)
(* is reached when all its tasks are, unless an update was written over it *)
(* or the file was torn.                                                   *)
ProjectionKept ==
    "tasks" \notin excused =>
        /\ projected \subseteq goal.done
        /\ goal.reached = {m \in Milestones : \A t \in Tasks :
                              MilestoneOf[t] = m => t \in goal.done}

(* An approved goal has its health check as soon as the approval returned; *)
(* only a status that came with external content, or an event that raised  *)
(* before its handler's turn, leaves one without.                          *)
ActiveIsWatched ==
    goal.status = "active" /\ excused \intersect {"status", "event"} = {} =>
        job # "none" \/ approving
=============================================================================
