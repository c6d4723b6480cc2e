----------------------------- MODULE Heartbeat -----------------------------
(* HeartbeatRunner.run_once of one worker: what becomes of the inbox items *)
(* it takes.  The beats of a worker do not overlap (one APScheduler job).  *)
(* Kind is what HeartbeatStrategy.decide_action and resolve_gate_level     *)
(* make of an item, Key its dedupe_key.                                    *)
EXTENDS Naturals, FiniteSets

CONSTANTS
    Items, Key, Kind,
    MaxFaults,      \* turns, calls of Redis and other steps that raise
    MaxCrashes

VARIABLES
    item,           \* status in the inbox
    beat,           \* where the beat is, its items, those not suppressed
    redis, file,    \* the keys in either copy of the AttentionLedger
    sent,           \* times a task or confirmation was made of an item
    refs,           \* the tasks of the beat that the scheduler accepted
    shown,          \* history: items in a cognitive turn that ended
    back,           \* history: times an item was put back
    faults, crashes

vars == <<item, beat, redis, file, sent, refs, shown, back, faults, crashes>>

Keys == {Key[i] : i \in Items}
Dispatched == {i \in Items : Kind[i] # "summary"}
NoBeat == [at |-> "idle", taken |-> {}, actionable |-> {}]
MaxBack == MaxFaults + MaxCrashes

TypeOK ==
    /\ item \in [Items -> {"pending", "processing", "consumed"}]
    /\ beat.at \in {"idle", "split", "dispatch", "turn", "mark", "consume", "update"}
    /\ beat.actionable \subseteq beat.taken /\ beat.taken \subseteq Items
    /\ redis \subseteq Keys /\ file \subseteq Keys /\ shown \subseteq Items
    /\ sent \in [Items -> 0..(1 + MaxBack)] /\ back \in [Items -> 0..MaxBack]
    /\ refs \subseteq beat.actionable \intersect Dispatched
    /\ faults \in 0..MaxFaults /\ crashes \in 0..MaxCrashes

Init ==
    /\ item = [i \in Items |-> "pending"]
    /\ beat = NoBeat
    /\ redis = {} /\ file = {} /\ refs = {} /\ shown = {}
    /\ sent = [i \in Items |-> 0] /\ back = [i \in Items |-> 0]
    /\ faults = 0 /\ crashes = 0

Raises == faults < MaxFaults /\ faults' = faults + 1
Become(S, status) == item' = [i \in Items |-> IF i \in S THEN status ELSE item[i]]
Plus(f, S) == [i \in Items |-> IF i \in S THEN f[i] + 1 ELSE f[i]]

FetchPending ==
    /\ beat.at = "idle"
    /\ \E S \in SUBSET {i \in Items : item[i] = "pending"} :
          /\ S # {} /\ Become(S, "processing")
          /\ beat' = [NoBeat EXCEPT !.at = "split", !.taken = S]
    /\ UNCHANGED <<redis, file, sent, refs, shown, back, faults, crashes>>

Surfaced(known) ==
    beat' = [beat EXCEPT !.at = "dispatch", !.actionable = {i \in @ \union beat.taken : Key[i] \notin known}]

\* Faulty variant: what is taken up is recorded at once.
SplitActionableRecording ==
    /\ beat.at = "split"
    /\ Surfaced(redis \union file)
    /\ redis' = redis \union {Key[i] : i \in beat.taken}
    /\ UNCHANGED <<item, file, sent, refs, shown, back, faults, crashes>>

\* has_notified of each item: Redis first, the file if Redis has no record
\* or raises.
SplitActionable ==
    /\ beat.at = "split"
    /\ \/ Surfaced(redis \union file) /\ UNCHANGED faults
       \/ Surfaced(file) /\ Raises
    /\ UNCHANGED <<item, redis, file, sent, refs, shown, back, crashes>>

\* One item after the other: a gated one opens a confirmation, the others
\* become manifest and job; what the scheduler rejects gives no reference.
DispatchTaskItems ==
    /\ beat.at = "dispatch"
    /\ beat' = [beat EXCEPT !.at = "turn"]
    /\ sent' = Plus(sent, beat.actionable \intersect Dispatched)
    /\ refs' \in SUBSET {i \in beat.actionable : Kind[i] \in {"task", "isolated"}}
    /\ UNCHANGED <<item, redis, file, shown, back, faults, crashes>>

\* The items that are only to be summed up share one turn of the worker.
CognitiveTurn ==
    /\ beat.at = "turn"
    /\ beat' = [beat EXCEPT !.at = "mark"]
    /\ shown' = shown \union (beat.actionable \ Dispatched)
    /\ UNCHANGED <<item, redis, file, sent, refs, back, faults, crashes>>

\* record_notification of each, in Redis or, when it raises, in the file.
MarkNotifications ==
    /\ beat.at = "mark"
    /\ LET keys == {Key[i] : i \in beat.actionable} IN
       \/ redis' = redis \union keys /\ UNCHANGED <<file, faults>>
       \/ file' = file \union keys /\ redis' \in {redis, redis \union keys} /\ Raises
    /\ beat' = [beat EXCEPT !.at = "consume"]
    /\ UNCHANGED <<item, sent, refs, shown, back, crashes>>

MarkConsumed ==
    /\ beat.at = "consume"
    /\ Become(beat.taken, "consumed")
    /\ beat' = [beat EXCEPT !.at = "update"]
    /\ UNCHANGED <<redis, file, sent, refs, shown, back, faults, crashes>>

\* The main session gets the cursor, the concerns and the references.
UpdateHeartbeatState ==
    /\ beat.at = "update"
    /\ beat' = NoBeat /\ refs' = {}
    /\ UNCHANGED <<item, redis, file, sent, shown, back, faults, crashes>>

PutBack ==
    /\ Become(beat.taken, "pending")
    /\ back' = Plus(back, beat.taken)
    /\ beat' = NoBeat /\ refs' = {}

\* The turn yields an error, or a write of the inbox, of a manifest, of the
\* ledger or of the session raises: all items are put back, consumed ones
\* too, and what was sent stays sent.
BeatFails ==
    /\ beat.at \notin {"idle", "split"} /\ Raises
    /\ beat.at = "turn" => beat.actionable \ Dispatched # {}
    /\ IF beat.at = "dispatch"
       THEN \E S \in SUBSET (beat.actionable \intersect Dispatched) : sent' = Plus(sent, S)
       ELSE UNCHANGED sent
    /\ PutBack
    /\ UNCHANGED <<redis, file, shown, crashes>>

\* A kill: the claims of the beat time out in the inbox.
Crash ==
    /\ beat.at \notin {"idle", "update"} /\ crashes < MaxCrashes /\ crashes' = crashes + 1
    /\ PutBack
    /\ UNCHANGED <<redis, file, sent, shown, faults>>

\* The record of a key is older than the window of has_notified.
Forgets ==
    /\ \E k \in redis \union file : redis' = redis \ {k} /\ file' = file \ {k}
    /\ UNCHANGED <<item, beat, sent, refs, shown, back, faults, crashes>>

RunOnce ==
    \/ FetchPending \/ SplitActionable \/ DispatchTaskItems \/ CognitiveTurn
    \/ MarkNotifications \/ MarkConsumed \/ UpdateHeartbeatState
Next == RunOnce \/ BeatFails \/ Crash \/ Forgets

Spec == Init /\ [][Next]_vars

-----------------------------------------------------------------------------
Seen(i) == sent[i] > 0 \/ i \in shown

(* A consumed item was acted upon or shown, or one of its key was: failed  *)
(* beats and the ledger never make one vanish unseen.                      *)
ConsumedWasSeen ==
    \A i \in Items : item[i] = "consumed" => \E j \in Items : Key[j] = Key[i] /\ Seen(j)

(* An item is dispatched once, and again only for each time it was put     *)
(* back: by a turn that raised after its dispatch, for one.                *)
DispatchedOnce == \A i \in Items : sent[i] <= 1 + back[i]

(* Every item is consumed in the end.                                      *)
Settled == \A i \in Items : item[i] = "consumed"
=============================================================================
