----------------------------- MODULE Scheduler -----------------------------
(***************************************************************************)
(* WorkerScheduler (src/worker/scheduler.py) and the side effects it calls *)
(* (src/worker/scheduler_effects.py): concurrency limit, daily quota,      *)
(* stable priority queue, retries, completion futures, dead letters.       *)
(*                                                                         *)
(* The program is one asyncio loop.  The bodies of `async with self._lock' *)
(* contain no await, so each of them is one step, and no step of the       *)
(* scheduler waits for the lock.  What is awaited is the execution of a    *)
(* job, the event bus and the dead-letter store: between those points jobs *)
(* interleave freely, and each of them may raise.                          *)
(***************************************************************************)
EXTENDS Integers, FiniteSets, Sequences, SequencesExt

CONSTANTS
    Jobs,                \* one element for each call of submit_task
    Priority,            \* the priority each job is submitted with
    MaxConcurrentTasks,  \* SchedulerConfig.max_concurrent_tasks
    DailyTaskQuota,      \* SchedulerConfig.daily_task_quota
    MaxTaskRetries,      \* SchedulerConfig.max_task_retries
    LastDay,             \* bound: the dates are 1..LastDay
    PublishFaults,       \* the jobs EventBus.publish may raise for (a malformed filter)
    DeadLetterFaults     \* the jobs DeadLetterStore.add may raise for (file I/O)

ASSUME PriorityType == Priority \in [Jobs -> Nat]
ASSUME ConfigType ==
    /\ IsFiniteSet(Jobs)
    /\ MaxConcurrentTasks \in Nat
    /\ DailyTaskQuota \in Nat
    /\ MaxTaskRetries \in Int
    /\ LastDay \in Nat \ {0}
    /\ PublishFaults \subseteq Jobs /\ DeadLetterFaults \subseteq Jobs

VARIABLES
    activeCount,   \* _active_count
    dailyCount,    \* _daily_count
    countDate,     \* _daily_count_date, 0 for None
    today,         \* date.today()
    queue,         \* _queue, jobs in the order they will be popped
    phase,         \* where the task running _run_task(job) is
    inExcept,      \* _run_task is in its except clause
    retryCount,    \* job["retry_count"]
    future,        \* job["completion_future"]
    deadLetters,   \* entries the dead-letter store holds for the job
    successes,     \* history: executions that returned success
    failures,      \* history: executions that failed or raised
    acceptedOn     \* history: the jobs accepted at each date

vars == <<activeCount, dailyCount, countDate, today, queue, phase, inExcept,
          retryCount, future, deadLetters, successes, failures, acceptedOn>>

counters == <<dailyCount, countDate, today, acceptedOn>>
slots    == <<activeCount, queue>>

Days == 1..LastDay

\* A job in one of these phases holds one of the slots _active_count counts.
LivePhases == {"executing", "completing", "failing", "deadLettering", "announcing"}
Phases     == {"new", "rejected", "queued", "done"} \union LivePhases

Live == {j \in Jobs : phase[j] \in LivePhases}

MaxRetries == IF MaxTaskRetries > 0 THEN MaxTaskRetries ELSE 0

-----------------------------------------------------------------------------
(* The queue: append, then a stable sort by priority.                      *)

\* Faulty variants: an insertion before equals, and an append that does not
\* sort.
InsertPosBeforeEquals(q, j) ==
    Cardinality({i \in DOMAIN q : Priority[q[i]] < Priority[j]}) + 1
InsertPosUnsorted(q, j) == Len(q) + 1

InsertPos(q, j) ==
    Cardinality({i \in DOMAIN q : Priority[q[i]] <= Priority[j]}) + 1

Enqueue(q, j) == InsertAt(q, InsertPos(q, j), j)

\* Faulty variants: the slot is freed and no queued job started, and the head
\* is started but stays in the queue.
TaskCompletedNoPop(q, ph) ==
    activeCount' = activeCount - 1 /\ queue' = q /\ phase' = ph
TaskCompletedPeek(q, ph) ==
    IF q = <<>>
    THEN activeCount' = activeCount - 1 /\ queue' = q /\ phase' = ph
    ELSE /\ activeCount' = activeCount
         /\ queue' = q
         /\ phase' = [ph EXCEPT ![Head(q)] = "executing"]

\* _task_completed, called with the queue q and the phases ph the rest of
\* the step leaves: the slot passes to the head of the queue, if any.
TaskCompleted(q, ph) ==
    \/ /\ q = <<>>
       /\ activeCount' = activeCount - 1
       /\ queue' = q
       /\ phase' = ph
    \/ /\ q # <<>>
       /\ activeCount' = (activeCount - 1) + 1
       /\ queue' = Tail(q)
       /\ phase' = [ph EXCEPT ![Head(q)] = "executing"]

-----------------------------------------------------------------------------
Init ==
    /\ activeCount = 0
    /\ dailyCount = 0
    /\ countDate = 0
    /\ today = 1
    /\ queue = <<>>
    /\ phase = [j \in Jobs |-> "new"]
    /\ inExcept = [j \in Jobs |-> FALSE]
    /\ retryCount = [j \in Jobs |-> 0]
    /\ future = [j \in Jobs |-> "pending"]
    /\ deadLetters = [j \in Jobs |-> 0]
    /\ successes = [j \in Jobs |-> 0]
    /\ failures = [j \in Jobs |-> 0]
    /\ acceptedOn = [d \in Days |-> {}]

\* Faulty variants: the count of an earlier date is kept, and the quota
\* admits one job too many.
RefreshedCountStale == dailyCount
QuotaLeftOffByOne == (IF countDate # today THEN 0 ELSE dailyCount) <= DailyTaskQuota

\* The count that _refresh_daily_counter leaves.
RefreshedCount == IF countDate # today THEN 0 ELSE dailyCount

QuotaLeft == RefreshedCount < DailyTaskQuota

SubmitRejected(j) ==
    /\ phase[j] = "new"
    /\ countDate' = today
    /\ dailyCount' = RefreshedCount
    /\ ~QuotaLeft
    /\ phase' = [phase EXCEPT ![j] = "rejected"]
    /\ UNCHANGED <<slots, today, acceptedOn, inExcept, retryCount, future,
                   deadLetters, successes, failures>>

\* Faulty variant: the slot of a job that starts at once is not counted.
StartNowUncounted(j) ==
    /\ activeCount < MaxConcurrentTasks
    /\ phase' = [phase EXCEPT ![j] = "executing"]
    /\ UNCHANGED slots

StartNow(j) ==
    /\ activeCount < MaxConcurrentTasks
    /\ activeCount' = activeCount + 1
    /\ phase' = [phase EXCEPT ![j] = "executing"]
    /\ UNCHANGED queue

Queue(j) ==
    /\ activeCount >= MaxConcurrentTasks
    /\ queue' = Enqueue(queue, j)
    /\ phase' = [phase EXCEPT ![j] = "queued"]
    /\ UNCHANGED activeCount

SubmitAccepted(j) ==
    /\ phase[j] = "new"
    /\ QuotaLeft
    /\ countDate' = today
    /\ dailyCount' = RefreshedCount + 1
    /\ acceptedOn' = [acceptedOn EXCEPT ![today] = @ \union {j}]
    /\ StartNow(j) \/ Queue(j)
    /\ UNCHANGED <<today, inExcept, retryCount, future, deadLetters,
                   successes, failures>>

SubmitTask(j) == SubmitRejected(j) \/ SubmitAccepted(j)

\* Faulty variant: one retry too many.
RetriesLeftOffByOne(j) == retryCount[j] <= MaxRetries

RetriesLeft(j) == retryCount[j] < MaxRetries

\* _handle_task_failure up to its first await: either the job goes back to
\* the queue and its slot is handed on, or the final failure starts, in the
\* try block or in the except clause.
HandleTaskFailure(j, excepting) ==
    \/ /\ RetriesLeft(j)
       /\ retryCount' = [retryCount EXCEPT ![j] = @ + 1]
       /\ TaskCompleted(Enqueue(queue, j), [phase EXCEPT ![j] = "queued"])
       /\ inExcept' = [inExcept EXCEPT ![j] = FALSE]
       /\ UNCHANGED future
    \/ /\ ~RetriesLeft(j)
       /\ phase' = [phase EXCEPT ![j] = "failing"]
       /\ future' = [future EXCEPT ![j] = IF @ = "pending" THEN "failure" ELSE @]
       /\ inExcept' = [inExcept EXCEPT ![j] = excepting]
       /\ UNCHANGED <<slots, retryCount>>

\* _execute_job returns a success: _resolve_completion resolves the future
\* and starts publishing.
ExecuteSucceeds(j) ==
    /\ phase[j] = "executing"
    /\ successes' = [successes EXCEPT ![j] = @ + 1]
    /\ future' = [future EXCEPT ![j] = IF @ = "pending" THEN "success" ELSE @]
    /\ phase' = [phase EXCEPT ![j] = "completing"]
    /\ UNCHANGED <<slots, counters, inExcept, retryCount, deadLetters, failures>>

\* _execute_job returns a failure: handled inside the try block.
ExecuteFails(j) ==
    /\ phase[j] = "executing"
    /\ failures' = [failures EXCEPT ![j] = @ + 1]
    /\ HandleTaskFailure(j, FALSE)
    /\ UNCHANGED <<counters, deadLetters, successes>>

\* _execute_job raises: handled in the except clause.
ExecuteRaises(j) ==
    /\ phase[j] = "executing"
    /\ failures' = [failures EXCEPT ![j] = @ + 1]
    /\ HandleTaskFailure(j, TRUE)
    /\ UNCHANGED <<counters, deadLetters, successes>>

\* The task of j ends: the finally clause.
Finish(j) ==
    /\ TaskCompleted(queue, [phase EXCEPT ![j] = "done"])
    /\ inExcept' = [inExcept EXCEPT ![j] = FALSE]

\* Faulty variant: the exception skips the finally clause.
SideEffectRaisesLeak(j) ==
    \/ ~inExcept[j] /\ HandleTaskFailure(j, TRUE)
    \/ /\ inExcept[j]
       /\ phase' = [phase EXCEPT ![j] = "done"]
       /\ UNCHANGED <<slots, inExcept, retryCount, future>>

\* An awaited side effect raises.  In the try block the except clause starts
\* _handle_task_failure over; raised in the except clause, the exception
\* leaves _run_task through its finally clause.
SideEffectRaises(j) ==
    \/ /\ ~inExcept[j]
       /\ HandleTaskFailure(j, TRUE)
    \/ /\ inExcept[j]
       /\ Finish(j)
       /\ UNCHANGED <<retryCount, future>>

\* Faulty variant: no return after _resolve_completion.
CompletionPublishedFallsThrough(j) ==
    /\ phase[j] = "completing"
    /\ HandleTaskFailure(j, FALSE)
    /\ UNCHANGED <<counters, deadLetters, successes, failures>>

\* task.completed and isolated_run.completed are published, the task ends.
CompletionPublished(j) ==
    /\ phase[j] = "completing"
    /\ Finish(j)
    /\ UNCHANGED <<counters, retryCount, future, deadLetters, successes, failures>>

\* isolated_run.failed and task.failed are published.
FailurePublished(j) ==
    /\ phase[j] = "failing"
    /\ phase' = [phase EXCEPT ![j] = "deadLettering"]
    /\ UNCHANGED <<slots, counters, inExcept, retryCount, future, deadLetters,
                   successes, failures>>

DeadLettered(j) ==
    /\ phase[j] = "deadLettering"
    /\ deadLetters' = [deadLetters EXCEPT ![j] = @ + 1]
    /\ phase' = [phase EXCEPT ![j] = "announcing"]
    /\ UNCHANGED <<slots, counters, inExcept, retryCount, future, successes,
                   failures>>

\* task.dead_lettered is published, the task ends.
DeadLetterAnnounced(j) ==
    /\ phase[j] = "announcing"
    /\ Finish(j)
    /\ UNCHANGED <<counters, retryCount, future, deadLetters, successes, failures>>

PublishRaises(j) ==
    /\ j \in PublishFaults
    /\ phase[j] \in {"completing", "failing", "announcing"}
    /\ SideEffectRaises(j)
    /\ UNCHANGED <<counters, deadLetters, successes, failures>>

DeadLetterRaises(j) ==
    /\ j \in DeadLetterFaults
    /\ phase[j] = "deadLettering"
    /\ SideEffectRaises(j)
    /\ UNCHANGED <<counters, deadLetters, successes, failures>>

DayPasses ==
    /\ today < LastDay
    /\ today' = today + 1
    /\ UNCHANGED <<slots, dailyCount, countDate, acceptedOn, phase, inExcept,
                   retryCount, future, deadLetters, successes, failures>>

\* The steps of the asyncio task that runs _run_task(j).
RunTask(j) ==
    \/ ExecuteSucceeds(j) \/ ExecuteFails(j) \/ ExecuteRaises(j)
    \/ CompletionPublished(j) \/ FailurePublished(j)
    \/ DeadLettered(j) \/ DeadLetterAnnounced(j)
    \/ PublishRaises(j) \/ DeadLetterRaises(j)

Next ==
    \/ \E j \in Jobs : SubmitTask(j) \/ RunTask(j)
    \/ DayPasses

Spec == Init /\ [][Next]_vars

\* The event loop runs every task that can run; an execution, a publication
\* and a dead-letter write end, well or badly.
FairSpec == Spec /\ \A j \in Jobs : WF_vars(RunTask(j))

-----------------------------------------------------------------------------
(* Properties.                                                             *)

\* Every variable has its type; a queue entry is a job.
TypeOK ==
    /\ activeCount \in Nat
    /\ dailyCount \in Nat
    /\ countDate \in Nat
    /\ today \in Nat
    /\ queue \in Seq(Jobs)
    /\ phase \in [Jobs -> Phases]
    /\ inExcept \in [Jobs -> BOOLEAN]
    /\ retryCount \in [Jobs -> Nat]
    /\ future \in [Jobs -> {"pending", "success", "failure"}]
    /\ deadLetters \in [Jobs -> Nat]
    /\ successes \in [Jobs -> Nat]
    /\ failures \in [Jobs -> Nat]
    /\ acceptedOn \in [Days -> SUBSET Jobs]

\* _active_count is the number of tasks that hold a slot, whatever raises in
\* them: a slot is neither leaked nor freed twice, and never more than
\* max_concurrent_tasks are held.
SlotsCounted ==
    /\ activeCount = Cardinality(Live)
    /\ activeCount <= MaxConcurrentTasks

\* A queued job waits only because every slot is taken: _task_completed is
\* the only code that pops the queue, so a job queued beside a free slot
\* might wait for ever.
NoIdleSlot == queue # <<>> => activeCount = MaxConcurrentTasks

\* The queue holds each queued job once and nothing else: a retry neither
\* loses the job nor runs it twice at a time.
QueueHoldsQueued ==
    /\ \A i, k \in DOMAIN queue : queue[i] = queue[k] => i = k
    /\ ToSet(queue) = {j \in Jobs : phase[j] = "queued"}

\* No more than daily_task_quota jobs are accepted on one date, whatever
\* happens around midnight.
QuotaRespected ==
    \A d \in Days : Cardinality(acceptedOn[d]) <= DailyTaskQuota

\* Retries included, a job is executed at most max_task_retries + 1 times,
\* and the store holds no more than two dead letters for it.
ExecutionsBounded ==
    \A j \in Jobs :
        /\ successes[j] + failures[j] <= MaxRetries + 1
        /\ deadLetters[j] <= 2

\* A job whose side effects do not raise, whatever those of other jobs do,
\* ends in one of two ways: one success after its failed tries, or every try
\* failed and one dead letter; its completion future tells the two apart.
OneOutcome ==
    \A j \in Jobs \ (PublishFaults \union DeadLetterFaults) : phase[j] = "done" =>
        \/ /\ successes[j] = 1 /\ failures[j] <= MaxRetries
           /\ deadLetters[j] = 0 /\ future[j] = "success"
        \/ /\ successes[j] = 0 /\ failures[j] = MaxRetries + 1
           /\ deadLetters[j] = 1 /\ future[j] = "failure"

\* submit_task rejects only when the quota of the current date is used up:
\* a count left from an earlier date rejects nothing.
RejectsOnlyOverQuota ==
    [][\A j \in Jobs :
         phase[j] = "new" /\ phase'[j] = "rejected"
            => Cardinality(acceptedOn[today]) >= DailyTaskQuota]_vars

Before(q, j, k) == \E m, n \in DOMAIN q : m < n /\ q[m] = j /\ q[n] = k

\* Queued jobs keep their order, and a job that enters the queue, new or
\* retried, passes only jobs strictly less urgent than itself.
QueueIsFair ==
    [][\A j, k \in ToSet(queue') : j # k =>
         /\ Before(queue, j, k) => Before(queue', j, k)
         /\ (j \in ToSet(queue) /\ k \notin ToSet(queue))
               => (Before(queue', k, j) <=> Priority[k] < Priority[j])]_vars

\* Every accepted job ends, even when side effects raise.
AcceptedJobsEnd ==
    \A j \in Jobs : (phase[j] \in LivePhases \union {"queued"}) ~> (phase[j] = "done")

\* The scheduler is a job pool: a job waits when it is queued, runs while it
\* holds a slot.
PoolStatus ==
    [j \in Jobs |->
        CASE phase[j] = "queued" -> "waiting"
          [] phase[j] = "done"   -> "finished"
          [] phase[j] \in LivePhases -> "running"
          [] OTHER -> phase[j]]

Pool == INSTANCE JobPool WITH Capacity <- MaxConcurrentTasks, status <- PoolStatus

ImplementsPool == Pool!Spec

=============================================================================
