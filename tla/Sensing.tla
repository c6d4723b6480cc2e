------------------------------ MODULE Sensing ------------------------------
(* One sensor of a worker under SensorRegistry: what it has seen is in     *)
(* memory and, as its snapshot, on disk; a poll fetches, marks what it     *)
(* found as seen, routes it to inbox and bus, and saves the snapshot.  A   *)
(* reload replaces the sensor by one restored from the snapshot, while a   *)
(* poll of the old one goes on.                                            *)
EXTENDS Naturals, FiniteSets

CONSTANTS
    Facts,
    MaxFaults, MaxCrashes, MaxReloads

VARIABLES
    kind,           \* "email", "git", "folder" or "webhook"
    world,          \* facts that are there to be seen
    sensor,         \* the registered one: at, seen, found, since
    old,            \* a replaced one whose poll still runs
    saved,          \* the snapshot on disk: seen, since
    marked,         \* mails that the deduplicator in Redis knows
    told,           \* how often each fact was routed
    slipped,        \* history: facts that came between git log and its stamp
    unsure,         \* history: what can excuse a loss or a repetition
    count           \* faults, crashes and reloads so far

vars == <<kind, world, sensor, old, saved, marked, told, slipped, unsure, count>>

Snapshot == [seen : SUBSET Facts, since : SUBSET Facts]
Sensors == [at : {"idle", "fetched", "routing"}, found : SUBSET Facts,
            seen : SUBSET Facts, since : SUBSET Facts]
Restored(snapshot) ==
    [at |-> "idle", found |-> {}, seen |-> snapshot.seen, since |-> snapshot.since]
SnapshotOf(s) == [seen |-> s.seen, since |-> s.since]
Blank == [seen |-> {}, since |-> {}]
Gone == Restored(Blank)

TypeOK ==
    /\ kind \in {"email", "git", "folder", "webhook"}
    /\ world \subseteq Facts /\ marked \subseteq Facts /\ slipped \subseteq Facts
    /\ sensor \in Sensors /\ old \in Sensors /\ saved \in Snapshot
    /\ told \in [Facts -> 0..3]
    /\ unsure \subseteq {"raised", "crashed", "reloaded", "emptied", "failed fetch"}
    /\ count.faults \in 0..MaxFaults /\ count.crashes \in 0..MaxCrashes
    /\ count.reloads \in 0..MaxReloads

Init ==
    /\ kind \in {"email", "git", "folder", "webhook"}
    /\ world = {} /\ marked = {} /\ slipped = {} /\ unsure = {}
    /\ sensor = Gone /\ old = Gone /\ saved = Blank
    /\ told = [f \in Facts |-> 0]
    /\ count = [faults |-> 0, crashes |-> 0, reloads |-> 0]

\* A mail comes, a commit is made, a file changes.
Happens(f) ==
    /\ kind # "webhook" /\ f \notin world /\ world' = world \union {f}
    /\ UNCHANGED <<kind, sensor, old, saved, marked, told, slipped, unsure, count>>

Raises(why) ==
    /\ count.faults < MaxFaults /\ count' = [count EXCEPT !.faults = @ + 1]
    /\ unsure' = unsure \union {why}

\* The source answers.  git log --since leaves out what is older than the
\* stamp of the last poll.  A source that raises answers nothing, and a
\* folder then counts as empty.
Fetch ==
    /\ sensor.at = "idle" /\ kind # "webhook"
    /\ \/ /\ sensor' = [sensor EXCEPT !.at = "fetched",
                          !.found = (world \ sensor.since) \ sensor.seen]
          /\ UNCHANGED <<unsure, count>>
       \/ /\ sensor' = [sensor EXCEPT !.at = "fetched", !.found = {},
                          !.seen = IF kind = "folder" THEN {} ELSE @]
          /\ Raises(IF kind = "folder" THEN "emptied" ELSE "failed fetch")
    /\ UNCHANGED <<kind, world, old, saved, marked, told, slipped>>

\* poll: all that was found is marked as seen before any of it is routed,
\* git stamps the time, and a mail that the deduplicator has met before is
\* left out.
EmailMarks(s) == [s EXCEPT !.seen = @ \union s.found, !.found = @ \ marked]
GitMarks(s) == [s EXCEPT !.seen = @ \union s.found, !.since = world]
FolderMarks(s) == [s EXCEPT !.seen = @ \union s.found]
Marked(s) ==
    [(CASE kind = "email" -> EmailMarks(s)
        [] kind = "git" -> GitMarks(s)
        [] OTHER -> FolderMarks(s)) EXCEPT !.at = "routing"]
Deduplicate(s) == marked' = IF kind = "email" THEN marked \union s.found ELSE marked
Mark ==
    /\ sensor.at = "fetched" /\ sensor' = Marked(sensor) /\ Deduplicate(sensor)
    /\ slipped' = IF kind = "git" THEN slipped \union (world \ sensor'.seen) ELSE slipped
    /\ UNCHANGED <<kind, world, old, saved, told, unsure, count>>

\* on_facts_sensed: the facts one after the other.
Tell(f) == told[f] < 3 /\ told' = [told EXCEPT ![f] = @ + 1]
Route(f) ==
    /\ sensor.at = "routing" /\ f \in sensor.found
    /\ sensor' = [sensor EXCEPT !.found = @ \ {f}]
    /\ Tell(f)
    /\ UNCHANGED <<kind, world, old, saved, marked, slipped, unsure, count>>

\* The inbox's write raises and ends the job; the marks stay.
RouteRaises ==
    /\ sensor.at = "routing" /\ sensor.found # {} /\ Raises("raised")
    /\ sensor' = [sensor EXCEPT !.at = "idle", !.found = {}]
    /\ UNCHANGED <<kind, world, old, saved, marked, told, slipped>>

\* A webhook's fact is routed in the request that brings it, and the request
\* fails when the inbox's write raises.
Ingest(f) ==
    /\ kind = "webhook" /\ f \notin world /\ world' = world \union {f}
    /\ \/ Tell(f) /\ saved' = SnapshotOf(sensor) /\ UNCHANGED <<unsure, count>>
       \/ Raises("raised") /\ UNCHANGED <<told, saved>>
    /\ UNCHANGED <<kind, sensor, old, marked, slipped>>

\* Faulty variant: saved before the facts are routed.
SaveEarly ==
    /\ sensor.at = "routing" /\ saved' = SnapshotOf(sensor)
    /\ sensor' = IF sensor.found = {} THEN [sensor EXCEPT !.at = "idle"] ELSE sensor
    /\ UNCHANGED <<kind, world, old, marked, told, slipped, unsure, count>>

Save ==
    /\ sensor.at = "routing" /\ sensor.found = {}
    /\ saved' = SnapshotOf(sensor)
    /\ sensor' = [sensor EXCEPT !.at = "idle"]
    /\ UNCHANGED <<kind, world, old, marked, told, slipped, unsure, count>>

\* stop_all saves the snapshot and the new sensor is restored from it; a
\* poll in progress is not waited for.
Reload ==
    /\ count.reloads < MaxReloads /\ count' = [count EXCEPT !.reloads = @ + 1]
    /\ saved' = SnapshotOf(sensor) /\ sensor' = Restored(saved')
    /\ old' = IF sensor.at = "idle" THEN old ELSE sensor
    /\ unsure' = IF sensor.at = "idle" THEN unsure ELSE unsure \union {"reloaded"}
    /\ UNCHANGED <<kind, world, marked, told, slipped>>

OldStep ==
    /\ old.at # "idle"
    /\ \/ /\ old.at = "fetched" /\ old' = Marked(old) /\ Deduplicate(old)
          /\ UNCHANGED <<told, saved>>
       \/ \E f \in old.found :
            /\ old.at = "routing" /\ old' = [old EXCEPT !.found = @ \ {f}]
            /\ Tell(f) /\ UNCHANGED <<saved, marked>>
       \/ /\ old.at = "routing" /\ old.found = {}
          /\ saved' = SnapshotOf(old) /\ old' = Gone /\ UNCHANGED <<told, marked>>
    /\ UNCHANGED <<kind, world, sensor, slipped, unsure, count>>

Crash ==
    /\ count.crashes < MaxCrashes /\ count' = [count EXCEPT !.crashes = @ + 1]
    /\ sensor' = Restored(saved) /\ old' = Gone
    /\ unsure' = unsure \union {"crashed"}
    /\ UNCHANGED <<kind, world, saved, marked, told, slipped>>

Poll == Fetch \/ Mark \/ (\E f \in Facts : Route(f)) \/ Save
Next ==
    \/ \E f \in Facts : Happens(f) \/ Ingest(f)
    \/ Poll \/ RouteRaises \/ Reload \/ OldStep \/ Crash
Spec == Init /\ [][Next]_vars

-----------------------------------------------------------------------------
(* What the snapshot on disk calls seen was routed, so that a restart      *)
(* forgets no fact; a write of the inbox that raised and a reload in the   *)
(* middle of a poll break it, and for mail a crash: the deduplicator has   *)
(* marked it before it was routed.                                         *)
Excused ==
    \/ unsure \intersect {"raised", "reloaded"} # {}
    \/ kind = "email" /\ "crashed" \in unsure
SavedWasTold == Excused \/ \A f \in saved.seen : told[f] > 0

(* A fact is routed once unless a crash, a reload in a poll or a folder    *)
(* that could not be listed comes in between.                              *)
ToldOnce ==
    unsure \intersect {"crashed", "reloaded", "emptied"} = {} => \A f \in Facts : told[f] <= 1

(* What happens is told in the end: nothing is lost but by a raising write *)
(* or to git's stamp.                                                      *)
Settled == Excused \/ \A f \in world \ slipped : told[f] > 0
=============================================================================
