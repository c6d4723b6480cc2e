---------------------------- MODULE InboxMirror ----------------------------
(* The copies of a worker's inbox, below the operations of Inbox.  Start-up *)
(* makes two SessionInboxStore objects over the same file: "hybrid" (the   *)
(* integrations and, through them, the sensors) loads from Redis and       *)
(* mirrors to the file; "file" (goal checks, heartbeat, commands) knows    *)
(* the file alone.  Each object has its own locks.  A copy is, of each     *)
(* item, the changes it reflects.                                          *)
EXTENDS Naturals, FiniteSets

CONSTANTS
    Items,
    MaxChanges,     \* of an item
    InUse,          \* the sets of stores a deployment may write through
    MaxFaults, MaxCrashes

VARIABLES
    stores,         \* which of them this one does
    redis, file,    \* per item, the changes made to it; none: not there
    held,           \* the items the running hybrid operation loaded
    at,             \* of that operation: "idle", "loaded", "mirrored"
    made,           \* history: the changes that were reported as made
    stale,          \* history: the copies that may have missed a change
    faults, crashes

vars == <<stores, redis, file, held, at, made, stale, faults, crashes>>

Copies == [Items -> 0..MaxChanges]
Empty == [i \in Items |-> 0]

TypeOK ==
    /\ stores \in InUse
    /\ redis \in Copies /\ file \in Copies /\ held \in Copies /\ made \in Copies
    /\ at \in {"idle", "loaded", "mirrored"}
    /\ stale \subseteq {"redis", "file"}
    /\ faults \in 0..MaxFaults /\ crashes \in 0..MaxCrashes

Init ==
    /\ stores \in InUse
    /\ redis = Empty /\ file = Empty /\ held = Empty /\ made = Empty
    /\ at = "idle" /\ stale = {} /\ faults = 0 /\ crashes = 0

Raises == faults < MaxFaults /\ faults' = faults + 1
Change(copy, i) == [copy EXCEPT ![i] = @ + 1]

\* _load_worker_items: Redis, and the file if Redis is empty or raises.
Load ==
    /\ "hybrid" \in stores /\ at = "idle" /\ at' = "loaded"
    /\ \/ held' = (IF redis = Empty THEN file ELSE redis) /\ UNCHANGED faults
       \/ held' = file /\ Raises
    /\ UNCHANGED <<stores, redis, file, made, stale, crashes>>

Latest(copy) == [i \in Items |-> IF copy[i] > made[i] THEN copy[i] ELSE made[i]]
\* A copy that is written with every change made is whole again.
Missed(name, copy) ==
    IF \A i \in Items : copy[i] >= made[i] THEN stale \ {name} ELSE stale

\* The operation changes an item and hset maps all of them; a call that
\* raises may have been done.
PersistRedis(i) ==
    /\ at = "loaded" /\ at' = "mirrored"
    /\ held[i] < MaxChanges
    /\ held' = Change(held, i)
    /\ \/ redis' = held' /\ stale' = Missed("redis", held') /\ UNCHANGED faults
       \/ redis' \in {redis, held'} /\ stale' = stale \union {"redis"} /\ Raises
    /\ UNCHANGED <<stores, file, made, crashes>>

\* Faulty variant: the file is taken for a fallback of Redis.
PersistFileAsFallback ==
    /\ at = "mirrored" /\ at' = "idle"
    /\ file' = (IF "redis" \in stale THEN held ELSE file)
    /\ made' = Latest(held)
    /\ held' = Empty
    /\ UNCHANGED <<stores, redis, stale, faults, crashes>>

\* write_text, in place, raises or is killed: the file as it was, as it was to
\* be, or truncated, which _load_worker_items reads as an inbox of no items.
Torn(copy) ==
    /\ file' \in {file, copy, Empty}
    /\ stale' = stale \union {"file"}

\* The file is written in any case; only its failure is the caller's.
PersistFile ==
    /\ at = "mirrored" /\ at' = "idle"
    /\ \/ file' = held /\ made' = Latest(held) /\ stale' = Missed("file", held) /\ UNCHANGED faults
       \/ Torn(held) /\ Raises /\ UNCHANGED made
    /\ held' = Empty
    /\ UNCHANGED <<stores, redis, crashes>>

\* Without Redis an operation has no await inside: load, change and write
\* are one step.
OperateOnFile(i) ==
    /\ "file" \in stores
    /\ file[i] < MaxChanges
    /\ \/ /\ file' = Change(file, i)
          /\ made' = Latest(file') /\ stale' = Missed("file", file')
          /\ UNCHANGED faults
       \/ Torn(Change(file, i)) /\ Raises /\ UNCHANGED made
    /\ UNCHANGED <<stores, redis, held, at, crashes>>

\* The process is killed, in the middle of a write to the file or before it.
Crash ==
    /\ crashes < MaxCrashes /\ crashes' = crashes + 1
    /\ at' = "idle" /\ held' = Empty
    /\ \/ at = "loaded" /\ UNCHANGED <<file, stale>>
       \/ at = "mirrored" /\ Torn(held)
       \/ "file" \in stores /\ \E i \in Items : file[i] < MaxChanges /\ Torn(Change(file, i))
    /\ UNCHANGED <<stores, redis, made, faults>>

\* Redis loses its memory; nobody writes it back but the next operation.
RedisForgets ==
    /\ at = "idle" /\ redis # Empty /\ redis' = Empty
    /\ UNCHANGED <<stores, file, held, at, made, stale, faults, crashes>>

Next ==
    \/ Load \/ PersistFile \/ Crash \/ RedisForgets
    \/ \E i \in Items : PersistRedis(i) \/ OperateOnFile(i)
Spec == Init /\ [][Next]_vars

-----------------------------------------------------------------------------
(* What was reported as written is in the file, and Redis has it or is     *)
(* empty: neither a read that falls back nor a Redis that starts afresh    *)
(* takes a change back, unless a copy missed a write, or the file was torn *)
(* by one, and no whole copy was written over it since.  This holds of one *)
(* store alone.                                                            *)
ChangesKept ==
    Cardinality(stores) = 1 /\ stale = {} /\ at = "idle"
        => file = made /\ redis \in {Empty, made}
=============================================================================
