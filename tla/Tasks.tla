------------------------------- MODULE Tasks -------------------------------
(***************************************************************************)
(* The life of a spawned task: TaskSpawner writes a manifest and submits a *)
(* job, WorkerRouter.route_stream prepares each run of the job, TaskRunner *)
(* keeps the manifest in step with the run, and the hooks of               *)
(* runtime/task_hooks.py learn from how it ended.  The job itself (slots,  *)
(* quota, order) is Scheduler's; here it is queued, run up to MaxRuns      *)
(* times, and over.                                                        *)
(***************************************************************************)
EXTENDS Naturals, FiniteSets

CONSTANTS
    Tasks,
    MaxRuns,        \* runs of a job: the retries of the scheduler plus one
    MaxFaults,      \* writes and hooks that raise
    MaxCrashes,
    Previews,       \* tasks that only preview a suggestion
    EpisodesAge     \* may there be episodes to archive: a subset of BOOLEAN

VARIABLES
    manifest,       \* status in the file tasks/active/<id>.json
    at,             \* where the job of the task is
    runs,           \* runs begun
    verdict,        \* how the current run ended
    answer,         \* what spawn_task told the conversation
    learned,        \* what the hooks recorded about the task
    reason,         \* history: why nobody will finish the manifest
    faults, crashes

vars == <<manifest, at, runs, verdict, answer, learned, reason, faults, crashes>>

Statuses == {"absent", "pending", "running", "completed", "error"}
Open == {"pending", "running"}
Stages == {"new", "announcing", "queued", "routing", "building", "running", "settled",
           "episode", "archive", "goal", "profile", "rules", "feedback", "over"}
Records == {"episode", "success", "failure", "goal", "profile", "rule"}

TypeOK ==
    /\ manifest \in [Tasks -> Statuses]
    /\ at \in [Tasks -> Stages]
    /\ runs \in [Tasks -> 0..MaxRuns]
    /\ verdict \in [Tasks -> {"none", "success", "failure"}]
    /\ answer \in [Tasks -> {"none", "accepted", "rejected"}]
    /\ learned \in [Tasks -> SUBSET Records]
    /\ reason \in [Tasks -> {"none", "save", "route", "abandoned", "crash"}]
    /\ faults \in 0..MaxFaults /\ crashes \in 0..MaxCrashes

Init ==
    /\ manifest = [t \in Tasks |-> "absent"]
    /\ at = [t \in Tasks |-> "new"]
    /\ runs = [t \in Tasks |-> 0]
    /\ verdict = [t \in Tasks |-> "none"]
    /\ answer = [t \in Tasks |-> "none"]
    /\ learned = [t \in Tasks |-> {}]
    /\ reason = [t \in Tasks |-> "none"]
    /\ faults = 0 /\ crashes = 0

Moves(t, from, to) == at[t] = from /\ at' = [at EXCEPT ![t] = to]
Fails == faults < MaxFaults /\ faults' = faults + 1
Learns(t, what) == learned' = [learned EXCEPT ![t] = @ \union what]

-----------------------------------------------------------------------------
(* TaskSpawner.execute                                                     *)

\* An empty description or an unknown skill: no manifest is written.
SpawnInvalid(t) ==
    /\ Moves(t, "new", "over")
    /\ answer' = [answer EXCEPT ![t] = "rejected"]
    /\ UNCHANGED <<manifest, runs, verdict, learned, reason, faults, crashes>>

\* Saved as pending and accepted by the scheduler.
SpawnAccepted(t) ==
    /\ Moves(t, "new", "queued")
    /\ manifest' = [manifest EXCEPT ![t] = "pending"]
    /\ answer' = [answer EXCEPT ![t] = "accepted"]
    /\ UNCHANGED <<runs, verdict, learned, reason, faults, crashes>>

\* No scheduler for the worker, or its quota is exhausted: the manifest is
\* saved a second time, as an error, before task.failed is published.
SpawnRefused(t) ==
    /\ Moves(t, "new", "announcing")
    /\ manifest' = [manifest EXCEPT ![t] = "error"]
    /\ UNCHANGED <<runs, verdict, answer, learned, reason, faults, crashes>>

\* The publication returned or raised: the conversation is told either way.
Announced(t) ==
    /\ Moves(t, "announcing", "over")
    /\ answer' = [answer EXCEPT ![t] = "rejected"]
    /\ UNCHANGED <<manifest, runs, verdict, learned, reason, faults, crashes>>

\* One of the two saves raises: the exception becomes a rejection, and the
\* manifest may have stayed pending.
SpawnSaveRaises(t) ==
    /\ Moves(t, "new", "over")
    /\ Fails
    /\ \E s \in {"absent", "pending"} :
          /\ manifest' = [manifest EXCEPT ![t] = s]
          /\ reason' = [reason EXCEPT ![t] = IF s = "pending" THEN "save" ELSE @]
    /\ answer' = [answer EXCEPT ![t] = "rejected"]
    /\ UNCHANGED <<runs, verdict, learned, crashes>>

-----------------------------------------------------------------------------
(* A run                                                                   *)

Dequeue(t) ==
    /\ Moves(t, "queued", "routing")
    /\ runs' = [runs EXCEPT ![t] = @ + 1]
    /\ verdict' = [verdict EXCEPT ![t] = "none"]
    /\ learned' = [learned EXCEPT ![t] = {}]
    /\ UNCHANGED <<manifest, answer, reason, faults, crashes>>

\* Faulty variant: the last failure goes back to the queue as well.
AfterRunAlways(t, ok) ==
    at' = [at EXCEPT ![t] = IF ok \/ runs[t] > MaxRuns THEN "over" ELSE "queued"]

\* What the scheduler makes of the end of a run: retry while it may.
AfterRun(t, ok) ==
    at' = [at EXCEPT ![t] = IF ok \/ runs[t] = MaxRuns THEN "over" ELSE "queued"]

\* Tenant, worker or skill is not found: route_stream yields an error and
\* returns before there is a run that would touch the manifest.
RouteFails(t) ==
    /\ at[t] = "routing"
    /\ AfterRun(t, FALSE)
    /\ reason' = [reason EXCEPT ![t] =
                    IF runs[t] = MaxRuns /\ manifest[t] \in Open THEN "route" ELSE @]
    /\ UNCHANGED <<manifest, runs, verdict, answer, learned, faults, crashes>>

\* Worker, trust gate, skill and tools are settled; rules, memory, profile
\* and goal script are loaded, and what cannot be read is left out.
Routed(t) ==
    /\ Moves(t, "routing", "building")
    /\ UNCHANGED <<manifest, runs, verdict, answer, learned, reason, faults, crashes>>

\* Context built, manifest saved as running under a new run_id.
RunBegins(t) ==
    /\ Moves(t, "building", "running")
    /\ manifest' = [manifest EXCEPT ![t] = "running"]
    /\ UNCHANGED <<runs, verdict, answer, learned, reason, faults, crashes>>

\* Faulty variant: an error event of the engine is not looked at.
RunEndsIgnoringErrors(t) ==
    /\ Moves(t, "running", "settled")
    /\ \E v \in {"success", "failure"} : verdict' = [verdict EXCEPT ![t] = v]
    /\ manifest' = [manifest EXCEPT ![t] = "completed"]
    /\ UNCHANGED <<runs, answer, learned, reason, faults, crashes>>

\* The stream ended: with an error event, an unsuccessful end or an
\* exception, the manifest is an error; else it is completed.
RunEnds(t) ==
    /\ Moves(t, "running", "settled")
    /\ \E v \in {"success", "failure"} :
          /\ verdict' = [verdict EXCEPT ![t] = v]
          /\ manifest' = [manifest EXCEPT ![t] =
                            IF v = "success" THEN "completed" ELSE "error"]
    /\ UNCHANGED <<runs, answer, learned, reason, faults, crashes>>

\* Asking memory raises, or saving the manifest does, before the run or
\* after it: the exception leaves the generator, and the scheduler takes the
\* run for a failure.
RunSaveRaises(t) ==
    /\ at[t] \in {"building", "running"}
    /\ Fails
    /\ AfterRun(t, FALSE)
    /\ reason' = [reason EXCEPT ![t] = IF runs[t] = MaxRuns /\ manifest[t] \in Open THEN "save" ELSE @]
    /\ UNCHANGED <<manifest, runs, verdict, answer, learned, crashes>>

\* The consumer stops reading, or its asyncio task is cancelled: neither
\* GeneratorExit nor CancelledError is an Exception, nothing is saved.
RunAbandoned(t) ==
    /\ Moves(t, "running", "over")
    /\ Fails
    /\ reason' = [reason EXCEPT ![t] = "abandoned"]
    /\ UNCHANGED <<manifest, runs, verdict, answer, learned, crashes>>

-----------------------------------------------------------------------------
(* The hooks: an exception ends them and is only logged                    *)

\* Which hook runs, and with what it begins; both are free to skip the
\* episode (no summary, trust gate).
HookBegins(t) ==
    /\ at[t] = "settled"
    /\ \E write \in BOOLEAN :
          at' = [at EXCEPT ![t] = CASE write -> "episode"
                                    [] ~write /\ verdict[t] = "success" ->
                                          IF t \in Previews THEN "over" ELSE "goal"
                                    [] OTHER -> "feedback"]
    /\ UNCHANGED <<manifest, runs, verdict, answer, learned, reason, faults, crashes>>

\* Faulty variant: a failed run is credited to the rules it applied.
WriteEpisodeSwapped(t) ==
    /\ at[t] = "episode"
    /\ Learns(t, {"episode", "success"})
    /\ at' = [at EXCEPT ![t] = IF verdict[t] = "success" THEN "archive" ELSE "feedback"]
    /\ UNCHANGED <<manifest, runs, verdict, answer, reason, faults, crashes>>

\* The episode is persisted under the episode lock, and the rules that were
\* applied are credited, unless the run was a preview.
WriteEpisode(t) ==
    /\ at[t] = "episode"
    /\ IF verdict[t] = "success"
       THEN /\ Learns(t, {"episode"})
            /\ at' = [at EXCEPT ![t] = "archive"]
       ELSE /\ Learns(t, {"episode"} \union (IF t \in Previews THEN {} ELSE {"failure"}))
            /\ at' = [at EXCEPT ![t] = "feedback"]
    /\ UNCHANGED <<manifest, runs, verdict, answer, reason, faults, crashes>>

\* Without old episodes there is nothing to archive.  With some, the code
\* names an indexer that it has not imported where it is used: NameError,
\* and everything after it is skipped.
ArchiveEpisodes(t) ==
    /\ at[t] = "archive"
    /\ \/ /\ TRUE \in EpisodesAge
          /\ AfterRun(t, TRUE)
          /\ UNCHANGED learned
       \/ /\ FALSE \in EpisodesAge
          /\ at' = [at EXCEPT ![t] = IF t \in Previews THEN "over" ELSE "goal"]
          /\ IF t \in Previews THEN UNCHANGED learned
                               ELSE Learns(t, {"success"})
    /\ UNCHANGED <<manifest, runs, verdict, answer, reason, faults, crashes>>

\* The goal, preferences and decisions, and at most one rule, in this order.
ProjectGoal(t) ==
    /\ Moves(t, "goal", "profile") /\ Learns(t, {"goal"})
    /\ UNCHANGED <<manifest, runs, verdict, answer, reason, faults, crashes>>
LearnProfile(t) ==
    /\ Moves(t, "profile", "rules") /\ Learns(t, {"profile"})
    /\ UNCHANGED <<manifest, runs, verdict, answer, reason, faults, crashes>>
LearnRule(t) ==
    /\ Moves(t, "rules", "over")
    /\ \E found \in BOOLEAN : Learns(t, IF found THEN {"rule"} ELSE {})
    /\ UNCHANGED <<manifest, runs, verdict, answer, reason, faults, crashes>>

\* The error hook ends; the job was a failure for the scheduler.
FeedbackEnds(t) ==
    /\ at[t] = "feedback"
    /\ AfterRun(t, FALSE)
    /\ UNCHANGED <<manifest, runs, verdict, answer, learned, reason, faults, crashes>>

HookStages == {"episode", "archive", "goal", "profile", "rules", "feedback"}

HookRaises(t) ==
    /\ at[t] \in HookStages
    /\ Fails
    /\ AfterRun(t, verdict[t] = "success")
    /\ UNCHANGED <<manifest, runs, verdict, answer, learned, reason, crashes>>

\* The process is killed: files stay, jobs are gone, and no start-up code
\* looks for manifests that are not final.
Crash ==
    /\ crashes < MaxCrashes
    /\ crashes' = crashes + 1
    /\ at' = [t \in Tasks |-> IF at[t] = "new" THEN "new" ELSE "over"]
    /\ reason' = [t \in Tasks |->
                    IF at[t] \notin {"new", "over"} /\ manifest[t] \in Open
                    THEN "crash" ELSE reason[t]]
    /\ UNCHANGED <<manifest, runs, verdict, answer, learned, faults>>

Step(t) ==
    \/ Announced(t) \/ Dequeue(t) \/ RouteFails(t) \/ Routed(t) \/ RunBegins(t) \/ RunEnds(t)
    \/ HookBegins(t) \/ WriteEpisode(t) \/ ArchiveEpisodes(t) \/ ProjectGoal(t)
    \/ LearnProfile(t) \/ LearnRule(t) \/ FeedbackEnds(t)

Next ==
    \/ \E t \in Tasks :
          \/ Step(t)
          \/ SpawnInvalid(t) \/ SpawnAccepted(t) \/ SpawnRefused(t) \/ SpawnSaveRaises(t)
          \/ RunSaveRaises(t) \/ RunAbandoned(t) \/ HookRaises(t)
    \/ Crash

Spec == Init /\ [][Next]_vars

-----------------------------------------------------------------------------
(* A manifest that is not final belongs to a job that will make it final,  *)
(* or to one of the four ways in which it is left behind for good.         *)
OpenHasJob ==
    \A t \in Tasks :
        manifest[t] \in Open /\ reason[t] = "none"
            => at[t] \in {"queued", "routing", "building", "running"}

(* Once the job is over the manifest says how its last run ended, and a    *)
(* rejected task has never run.                                            *)
ManifestTellsVerdict ==
    \A t \in Tasks :
        /\ at[t] = "over" /\ verdict[t] # "none" /\ reason[t] = "none"
              => (manifest[t] = "completed") = (verdict[t] = "success")
        /\ answer[t] = "rejected" => runs[t] = 0 /\ manifest[t] # "running"

(* Experience fits the run: rules are not credited for failures nor blamed *)
(* for successes, a preview touches neither rules nor goal, and a goal is  *)
(* advanced only for a manifest that says completed.                       *)
LearnsWhatHappened ==
    \A t \in Tasks :
        /\ "success" \in learned[t] => verdict[t] = "success"
        /\ "failure" \in learned[t] => verdict[t] = "failure"
        /\ "goal" \in learned[t] => manifest[t] = "completed"
        /\ t \in Previews => learned[t] \subseteq {"episode"}

(* Every accepted task comes to an end.                                    *)
Settled == \A t \in Tasks : answer[t] = "accepted" => at[t] = "over"
=============================================================================
