---------------------------- MODULE MainSession ----------------------------
(* MainSessionRuntime of one worker: the handlers of the bus append to the *)
(* worker's main session and heartbeats rewrite its meta data, each over a *)
(* copy of the session taken before its awaits.  The session is in the     *)
(* cache of the SessionManager from the first use on.                      *)
EXTENDS Naturals, FiniteSets

CONSTANTS
    Jobs,           \* ended jobs of the worker
    Events,         \* how many events each publishes about its end
    MaxBeats,       \* heartbeats, one after the other
    MaxFaults       \* calls of Redis that raise

VARIABLES
    subscribed,     \* between start and stop
    published,      \* how many of its events each job has published
    messages,       \* of the session: notes of jobs, of heartbeats
    redis, file,    \* the heartbeat whose meta data each place has
    proc,           \* of each handler and heartbeat: where, with which copy
    overlapped,     \* history: those that another one ran beside
    faults

vars == <<subscribed, published, messages, redis, file, proc, overlapped, faults>>

Notes == {<<j, n>> \in Jobs \X (1..2) : n <= Events[j]}
Beats == {"beat"} \X (1..MaxBeats)
Procs == Notes \union Beats
Busy == {p \in Procs : proc[p].at \in {"took", "synced", "stored"}}

TypeOK ==
    /\ subscribed \in BOOLEAN
    /\ published \in [Jobs -> 0..2]
    /\ messages \subseteq Notes /\ overlapped \subseteq Procs
    /\ redis \in 0..MaxBeats /\ file \in 0..MaxBeats
    /\ \A p \in Procs :
          /\ proc[p].at \in {"new", "took", "synced", "stored", "done", "missed"}
          /\ proc[p].took \subseteq Notes
    /\ faults \in 0..MaxFaults

Init ==
    /\ subscribed = TRUE        \* start, at start-up
    /\ published = [j \in Jobs |-> 0]
    /\ messages = {} /\ overlapped = {} /\ redis = 0 /\ file = 0
    /\ proc = [p \in Procs |-> [at |-> "new", took |-> {}]]
    /\ faults = 0

Goes(p, at, took) == proc' = [proc EXCEPT ![p] = [at |-> at, took |-> took]]

Stop ==
    /\ subscribed /\ subscribed' = FALSE
    /\ UNCHANGED <<published, messages, redis, file, proc, overlapped, faults>>

\* get_session: the cached session, before its meta data is awaited.
TakeSession(p) ==
    /\ Goes(p, "took", messages)
    /\ overlapped' = overlapped \union (IF Busy = {} THEN {} ELSE Busy \union {p})

\* A job publishes task.completed or failed, awaits its handlers, and then
\* isolated_run.completed or failed; a job that has both the thread and the
\* main session of a heartbeat is heard twice.
Publish(j) ==
    /\ published[j] < Events[j]
    /\ published[j] = 1 => proc[<<j, 1>>].at \in {"done", "missed"}
    /\ published' = [published EXCEPT ![j] = @ + 1]
    /\ LET n == <<j, published[j] + 1>> IN
       IF subscribed THEN TakeSession(n)
       ELSE Goes(n, "missed", {}) /\ UNCHANGED overlapped
    /\ UNCHANGED <<subscribed, messages, redis, file, faults>>

\* run_once ends with update_heartbeat_state; beats come one by one.
BeatBegins(b) ==
    /\ proc[b].at = "new"
    /\ \A c \in Beats : c[2] < b[2] => proc[c].at = "done"
    /\ TakeSession(b)
    /\ UNCHANGED <<subscribed, published, messages, redis, file, faults>>

\* get_session ends: the copy, with the meta data that was read, is saved.
Synced(p) ==
    /\ proc[p].at = "took"
    /\ Goes(p, "synced", proc[p].took)
    /\ messages' = proc[p].took
    /\ UNCHANGED <<subscribed, published, redis, file, overlapped, faults>>

\* Faulty variant: a handler forgets to keep what was there.
AppendMessageAlone(n) ==
    /\ proc[n].at = "synced" /\ n \in Notes
    /\ Goes(n, "done", {})
    /\ messages' = {n}
    /\ UNCHANGED <<subscribed, published, redis, file, overlapped, faults>>

\* append_message: to the copy, which is saved as the session.
AppendMessage(n) ==
    /\ proc[n].at = "synced" /\ n \in Notes
    /\ Goes(n, "done", {})
    /\ messages' = proc[n].took \union {n}
    /\ UNCHANGED <<subscribed, published, redis, file, overlapped, faults>>

\* The meta data goes to Redis field by field or, when a call raises, to the
\* file; the fields that are already in Redis stay there.
SaveMeta(b) ==
    /\ b \in Beats /\ proc[b].at = "synced"
    /\ \/ redis' = b[2] /\ UNCHANGED <<file, faults>>
       \/ /\ file' = b[2] /\ redis' \in {redis, b[2]}
          /\ faults < MaxFaults /\ faults' = faults + 1
    /\ Goes(b, "stored", proc[b].took)
    /\ UNCHANGED <<subscribed, published, messages, overlapped>>

BeatEnds(b) ==
    /\ b \in Beats /\ proc[b].at = "stored"
    /\ Goes(b, "done", {})
    /\ messages' = proc[b].took
    /\ UNCHANGED <<subscribed, published, redis, file, overlapped, faults>>

Handler(p) == Synced(p) \/ AppendMessage(p) \/ SaveMeta(p) \/ BeatEnds(p)
Next ==
    \/ Stop
    \/ \E j \in Jobs : Publish(j)
    \/ \E b \in Beats : BeatBegins(b)
    \/ \E p \in Procs : Handler(p)

Spec == Init /\ [][Next]_vars

-----------------------------------------------------------------------------
(* The note of a handler that no other ran beside is in the session, and   *)
(* no later handler or heartbeat drops it; only overlapping ones lose      *)
(* notes.                                                                  *)
NotesKept ==
    \A n \in Notes \ overlapped :
        proc[n].at = "done" => n \in messages \/ \E p \in Busy : n \in proc[p].took

(* The meta data of the last heartbeat is where load_meta looks first,     *)
(* unless Redis raised; and it is in one of the places in any case.        *)
MetaOfLastBeat ==
    \A b \in Beats :
        (\A c \in Beats : proc[c].at \in {"stored", "done"} <=> c[2] <= b[2])
            => b[2] \in {redis, file} /\ (faults = 0 => redis = b[2])
=============================================================================
