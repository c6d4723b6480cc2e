------------------------------ MODULE Sessions ------------------------------
(***************************************************************************)
(* Conversation sessions: SessionManager over HybridSessionStore           *)
(* (src/conversation), the requests that take a session, stream an answer  *)
(* and save it (chat and task streams, IM messages, the main session of a  *)
(* worker), the admission of requests to a service worker, /reset, and the *)
(* clean-up at shutdown.                                                   *)
(*                                                                         *)
(* A session is an immutable value that a request takes, extends and saves *)
(* when its answer has been streamed: between the two anything may happen. *)
(* The cache of the process is asked first, then Redis, then the files,    *)
(* of which the most recently active one of the thread counts.  Nothing    *)
(* locks a thread.  A call of Redis suspends; files are read and written   *)
(* without suspension.                                                     *)
(***************************************************************************)
EXTENDS Integers, FiniteSets

CONSTANTS
    Requests,        \* a session takes the name of the request that made it
    Kind,            \* "chat", "task" or "reset"
    Thread,          \* the thread_id of a request
    Service,         \* the threads of the service worker
    MaxConcurrent,   \* max_concurrent_sessions of the service worker
    Notices,         \* failures of background tasks
    Spawner,         \* the request that spawned the task of a notice
    NoRequest, NoSession,
    MaxFaults,       \* bound on the calls of Redis that raise, and the
                     \* records it drops
    Ttl,             \* of a session, and of a place in the queue
    MaxTime,         \* bound on the clock
    MaxRestarts      \* bound

Threads == {Thread[r] : r \in Requests}
Turns   == Requests \union Notices

ASSUME SessionConstants ==
    /\ IsFiniteSet(Requests) /\ IsFiniteSet(Notices)
    /\ Requests \intersect Notices = {}
    /\ Kind \in [Requests -> {"chat", "task", "reset"}]
    /\ Spawner \in [Notices -> Requests]
    /\ Service \subseteq Threads
    /\ MaxConcurrent \in Nat \ {0}
    /\ NoRequest \notin Requests
    /\ MaxFaults \in Nat
    /\ Ttl \in Nat /\ MaxTime \in Nat /\ MaxRestarts \in Nat

\* A session, and None.
Session == [sid : Requests, thread : Threads, turns : SUBSET Turns, at : 0..MaxTime]

ASSUME NoSessionIsNone == NoSession \notin Session

VARIABLES
    now,
    cache,     \* SessionManager._cache: the session of a thread
    failed,    \* _failed_tasks: notices to add to a session
    waiting,   \* _service_wait_queues: threads with the time they queued at;
               \* their order only tells the position that is reported
    file,      \* sessions/<session_id>.json
    rec,       \* the record of a session in Redis
    idx,       \* the session Redis has for a thread
    listed,    \* the sessions Redis lists for the service worker
    req,       \* a request: its step, and the session it took
    doomed,    \* shutdown: the threads still to clean, if it is under way
    stopping,  \* the clean-up at shutdown is under way
    told,      \* the notices recorded
    expected,  \* history: the turns of a thread that were saved
    gone,      \* history: the turns of a thread that were deleted
    excused,   \* history: threads whose requests overlapped, or a write
               \* for which was lost or torn
    faults, restarts

redisVars == <<rec, idx, listed, faults>>
storeVars == <<file, redisVars>>
history   == <<expected, gone>>
vars == <<now, cache, failed, waiting, storeVars, req, doomed, stopping, told,
          history, excused, restarts>>

Init ==
    /\ now = 0
    /\ cache = [t \in Threads |-> NoSession]
    /\ failed = [s \in Requests |-> {}]
    /\ waiting = {}
    /\ file = [s \in Requests |-> NoSession]
    /\ rec = [s \in Requests |-> NoSession]
    /\ idx = [t \in Threads |-> NoRequest]
    /\ listed = {}
    /\ req = [r \in Requests |-> [pc |-> "new", took |-> NoSession]]
    /\ doomed = {}
    /\ stopping = FALSE
    /\ told = {}
    /\ expected = [t \in Threads |-> {}]
    /\ gone = [t \in Threads |-> {}]
    /\ excused = {}
    /\ faults = 0
    /\ restarts = 0

-----------------------------------------------------------------------------
(* HybridSessionStore.                                                     *)

\* save: the record, then the index of its thread, then the list.
RedisSaved(s, recorded, indexed, inList) ==
    /\ rec' = IF recorded THEN [rec EXCEPT ![s.sid] = s] ELSE rec
    /\ idx' = IF indexed THEN [idx EXCEPT ![s.thread] = s.sid] ELSE idx
    /\ listed' = IF inList THEN listed \union {s.sid} ELSE listed

RedisSave(s) ==
    /\ RedisSaved(s, TRUE, TRUE, s.thread \in Service)
    /\ UNCHANGED faults

RedisFault == faults < MaxFaults /\ faults' = faults + 1

RedisSaveRaises(s) ==
    /\ RedisFault
    /\ \E recorded, indexed \in BOOLEAN :
          (indexed => recorded) /\ RedisSaved(s, recorded, indexed, FALSE)

\* It succeeds, after a read that raised.
RedisSaveAfterFault(s) ==
    /\ RedisFault
    /\ RedisSaved(s, TRUE, TRUE, s.thread \in Service)

\* delete: the record, then, if it was there, the index of its thread and
\* its place in the list.
RedisDelete(s) ==
    /\ rec' = [rec EXCEPT ![s.sid] = NoSession]
    /\ idx' = IF rec[s.sid] = NoSession THEN idx ELSE [idx EXCEPT ![s.thread] = NoRequest]
    /\ listed' = IF rec[s.sid] = NoSession THEN listed ELSE listed \ {s.sid}
    /\ UNCHANGED faults

RedisDeleteRaises(s) ==
    /\ RedisFault
    /\ rec' \in {rec, [rec EXCEPT ![s.sid] = NoSession]}
    /\ UNCHANGED <<idx, listed>>

InRedis(t) == idx[t] # NoRequest /\ rec[idx[t]] # NoSession

FilesOf(t) ==
    {file[s] : s \in {x \in Requests : file[x] # NoSession /\ file[x].thread = t}}

Newest(S) == {s \in S : \A o \in S : o.at <= s.at}

\* Faulty variant: the files are not asked.
StoreFindsInRedis(t, s) ==
    \/ InRedis(t) /\ s = rec[idx[t]] /\ UNCHANGED redisVars
    \/ ~InRedis(t) /\ s = NoSession /\ UNCHANGED redisVars

\* find_by_thread: what Redis has, otherwise the newest file, with which
\* Redis is filled.  If Redis cannot be read, it is the newest file as well,
\* and filling Redis is tried all the same.
StoreFinds(t, s) ==
    \/ InRedis(t) /\ s = rec[idx[t]] /\ UNCHANGED redisVars
    \/ /\ ~InRedis(t)
       /\ FilesOf(t) = {} /\ s = NoSession
       /\ idx' = [idx EXCEPT ![t] = NoRequest]
       /\ UNCHANGED <<rec, listed, faults>>
    \/ ~InRedis(t) /\ s \in Newest(FilesOf(t)) /\ RedisSave(s)
    \/ s \in Newest(FilesOf(t)) /\ (RedisSaveRaises(s) \/ RedisSaveAfterFault(s))
    \/ /\ FilesOf(t) = {} /\ s = NoSession
       /\ RedisFault /\ UNCHANGED <<rec, idx, listed>>

\* list_sessions of the service worker: what Redis lists, without the
\* records it has dropped, or the files if that is nothing or cannot be read.
Listable == {rec[x] : x \in {y \in listed : rec[y] # NoSession}}
ServiceFiles == UNION {FilesOf(t) : t \in Service}

StoreLists(S) ==
    \/ /\ S = IF Listable # {} THEN Listable ELSE ServiceFiles
       /\ listed' = {x \in listed : rec[x] # NoSession}
       /\ UNCHANGED <<rec, idx, faults>>
    \/ S = ServiceFiles /\ RedisFault /\ UNCHANGED <<rec, idx, listed>>

-----------------------------------------------------------------------------
(* SessionManager.                                                         *)

Expired(s) == now - s.at > Ttl

\* Faulty variant: what the store has is not looked for.
FindsInCache(t, s) == s = cache[t] /\ UNCHANGED redisVars

\* The session of a thread: the cached one, or the one the store finds.
Finds(t, s) ==
    \/ cache[t] # NoSession /\ s = cache[t] /\ UNCHANGED redisVars
    \/ cache[t] = NoSession /\ StoreFinds(t, s)

\* Notices recorded for a session are added to it, once.
WithNotices(s) ==
    [s EXCEPT !.turns = @ \union failed[s.sid],
              !.at = IF failed[s.sid] = {} THEN @ ELSE now]

NewSession(r) ==
    [sid |-> r, thread |-> Thread[r], turns |-> {}, at |-> now]

\* count_active_sessions, without the thread that asks.
ActiveOthers(t, S) ==
    LET cached == {cache[x] : x \in {y \in Service : cache[y] # NoSession}}
        stored == {s \in S : \A c \in cached : c.sid # s.sid}
    IN  {s.sid : s \in {x \in cached \union stored : x.thread # t /\ ~Expired(x)}}

\* The queue without the requests that waited for longer than its TTL.
Fresh == {w \in waiting : now - w.at <= Ttl}

\* Faulty variants: a place is stamped with its end, and leaving the queue
\* frees the oldest place.
EnqueuedUntil(t) ==
    IF \E w \in Fresh : w.thread = t THEN Fresh
    ELSE Fresh \union {[thread |-> t, at |-> now + Ttl + 1]}
DequeuedHead(t) == {w \in Fresh : \E o \in Fresh \ {w} : o.at <= w.at}

Enqueued(t) ==
    IF \E w \in Fresh : w.thread = t THEN Fresh
    ELSE Fresh \union {[thread |-> t, at |-> now]}

Dequeued(t) == {w \in Fresh : w.thread # t}

-----------------------------------------------------------------------------
(* Requests.                                                               *)

InFlight(t) == {r \in Requests : Thread[r] = t /\ req[r].pc \notin {"new", "done"}}

Goto(r, pc) == req' = [req EXCEPT ![r].pc = pc]
Done(r) == req' = [req EXCEPT ![r] = [pc |-> "done", took |-> NoSession]]

Excuse(t, cond) == excused' = IF cond THEN excused \union {t} ELSE excused

\* History is kept of the threads that are not excused.
Expect(t, turns) ==
    /\ expected' = [expected EXCEPT ![t] = IF t \in excused THEN {} ELSE @ \union turns]
    /\ gone' = [gone EXCEPT ![t] = IF t \in excused THEN {} ELSE @]
Forget(t, turns) ==
    /\ expected' = [expected EXCEPT ![t] = {}]
    /\ gone' = [gone EXCEPT ![t] = IF t \in excused THEN {} ELSE @ \union turns \union expected[t]]

Findable(r) == {cache[Thread[r]], NoSession} \union {rec[x] : x \in Requests} \union FilesOf(Thread[r])

\* Another request on the thread, or the clean-up, is under way.
Overlaps(r) == InFlight(Thread[r]) \ {r} # {} \/ Thread[r] \in doomed

Admits(r) == Thread[r] \in Service /\ Kind[r] \in {"chat", "task"}

\* A request may take its session: it was admitted, or needs no admission.
Ready(r) == req[r].pc = "admitted" \/ (req[r].pc = "new" /\ ~Admits(r))

AtWork == UNCHANGED <<now, file, doomed, stopping, told, history, restarts>>

\* prepare_service_ingress: a request arrives at a service worker.  A thread
\* with a session is admitted.
Arrives(r) ==
    LET t == Thread[r] IN
    /\ req[r].pc = "new"
    /\ Admits(r)
    /\ \E s \in Findable(r) :
          /\ Finds(t, s)
          /\ cache' = [cache EXCEPT ![t] = s]
          /\ \/ s # NoSession /\ Goto(r, "admitted") /\ waiting' = Dequeued(t)
             \/ s = NoSession /\ Goto(r, "counting") /\ UNCHANGED waiting
    /\ Excuse(t, Overlaps(r))
    /\ AtWork /\ UNCHANGED failed

\* Without one it is admitted or queued, as many as are active.
Counts(r) ==
    LET t == Thread[r] IN
    /\ req[r].pc = "counting"
    /\ \E S \in {Listable, ServiceFiles} :
          /\ StoreLists(S)
          /\ \/ /\ Cardinality(ActiveOthers(t, S)) >= MaxConcurrent
                /\ waiting' = Enqueued(t)
                /\ Done(r)
             \/ /\ Cardinality(ActiveOthers(t, S)) < MaxConcurrent
                /\ waiting' = Dequeued(t)
                /\ Goto(r, "admitted")
    /\ AtWork /\ UNCHANGED <<cache, failed, excused>>

\* get_or_create: the session found, or a new one, with its notices, goes
\* to the cache.  A task stream saves it at once.
Takes(r) ==
    LET t == Thread[r] IN
    /\ Ready(r)
    /\ Kind[r] # "reset"
    /\ \E s \in Findable(r) :
          LET mine == WithNotices(IF s = NoSession THEN NewSession(r) ELSE s) IN
          /\ Finds(t, s)
          /\ cache' = [cache EXCEPT ![t] = mine]
          /\ failed' = [failed EXCEPT ![mine.sid] = {}]
          /\ req' = [req EXCEPT ![r] =
                        [pc |-> IF Kind[r] = "task" THEN "mirroring" ELSE "streaming",
                         took |-> mine]]
          /\ file' = IF Kind[r] = "task" THEN [file EXCEPT ![mine.sid] = mine] ELSE file
    /\ Excuse(t, Overlaps(r))
    /\ UNCHANGED <<now, waiting, doomed, stopping, told, history, restarts>>

\* The answer has been streamed: the turn is added and the file written.
StreamEnds(r) ==
    LET s == [req[r].took EXCEPT !.turns = @ \union {r}, !.at = now] IN
    /\ req[r].pc = "streaming"
    /\ file' = [file EXCEPT ![s.sid] = s]
    /\ req' = [req EXCEPT ![r] = [pc |-> "mirroring", took |-> s]]
    /\ UNCHANGED <<now, cache, failed, waiting, redisVars, doomed, stopping,
                   told, history, excused, restarts>>

\* The caller goes away, or the file cannot be opened: nothing is saved.
StreamAborts(r) ==
    /\ req[r].pc = "streaming"
    /\ Done(r)
    /\ AtWork /\ UNCHANGED <<cache, failed, waiting, redisVars, excused>>

\* Redis has followed, or raised; the cache follows.
Saves(r) ==
    LET s == req[r].took  t == Thread[r] IN
    /\ req[r].pc = "mirroring"
    /\ \/ RedisSave(s) /\ UNCHANGED excused
       \/ RedisSaveRaises(s) /\ Excuse(t, TRUE)
    /\ cache' = [cache EXCEPT ![t] = s]
    /\ Expect(t, s.turns)
    /\ IF r \in s.turns THEN Done(r) ELSE Goto(r, "streaming")
    /\ UNCHANGED <<now, failed, waiting, file, doomed, stopping, told, restarts>>

-----------------------------------------------------------------------------
(* Deletion.                                                               *)

\* reset_thread finds the session and drops it from the cache.
ResetTakes(r) ==
    LET t == Thread[r] IN
    /\ Ready(r)
    /\ Kind[r] = "reset"
    /\ \E s \in Findable(r) :
          /\ Finds(t, s)
          /\ IF s = NoSession THEN Done(r)
             ELSE req' = [req EXCEPT ![r] = [pc |-> "deleting", took |-> s]]
    /\ cache' = [cache EXCEPT ![t] = NoSession]
    /\ Excuse(t, Overlaps(r))
    /\ AtWork /\ UNCHANGED <<failed, waiting>>

\* Faulty variant: the file is kept.
DeletedFromRedis(s, t) ==
    /\ RedisDelete(s) /\ UNCHANGED <<excused, file>>
    /\ Forget(t, s.turns)

\* The store deletes a session: from Redis, which may raise, and its file.
Deleted(s, t) ==
    /\ \/ RedisDelete(s) /\ UNCHANGED excused
       \/ RedisDeleteRaises(s) /\ Excuse(t, TRUE)
    /\ file' = [file EXCEPT ![s.sid] = NoSession]
    /\ Forget(t, s.turns)

ResetDeletes(r) ==
    /\ req[r].pc = "deleting"
    /\ Deleted(req[r].took, Thread[r])
    /\ Done(r)
    /\ UNCHANGED <<now, cache, failed, waiting, doomed, stopping, told, restarts>>

\* Shutdown: cleanup_expired first notes the threads whose cached session
\* has expired.
Stop ==
    /\ ~stopping
    /\ restarts < MaxRestarts
    /\ stopping' = TRUE
    /\ doomed' = {t \in Threads : cache[t] # NoSession /\ Expired(cache[t])}
    /\ excused' = excused \union {t \in doomed' : InFlight(t) # {}}
    /\ UNCHANGED <<now, cache, failed, waiting, storeVars, req, told, history, restarts>>

\* Then it deletes whatever session the cache has for them.
CleansUp(t) ==
    /\ t \in doomed
    /\ doomed' = doomed \ {t}
    /\ \/ /\ cache[t] # NoSession
          /\ Deleted(cache[t], t)
          /\ cache' = [cache EXCEPT ![t] = NoSession]
       \/ cache[t] = NoSession /\ UNCHANGED <<cache, storeVars, history, excused>>
    /\ UNCHANGED <<now, failed, waiting, req, stopping, told, restarts>>

-----------------------------------------------------------------------------
\* The background task that a request spawned fails: task.failed reaches
\* record_task_failure with the session of the request.
TaskFails(n, s) ==
    /\ n \notin told
    /\ \/ req[Spawner[n]].took # NoSession /\ req[Spawner[n]].took.sid = s
       \/ file[s] # NoSession /\ Spawner[n] \in file[s].turns
    /\ told' = told \union {n}
    /\ failed' = [failed EXCEPT ![s] = @ \union {n}]
    /\ UNCHANGED <<now, cache, waiting, storeVars, req, doomed, stopping,
                   history, excused, restarts>>

\* The record of a session reaches its TTL in Redis, or Redis drops it.  (The
\* index of its thread has the same TTL; dangling it finds nothing.)
RedisForgets(r) ==
    /\ RedisFault
    /\ rec[r] # NoSession
    /\ rec' = [rec EXCEPT ![r] = NoSession]
    /\ UNCHANGED <<now, cache, failed, waiting, file, idx, listed, req, doomed,
                   stopping, told, history, excused, restarts>>

Tick ==
    /\ now < MaxTime
    /\ now' = now + 1
    /\ UNCHANGED <<cache, failed, waiting, storeVars, req, doomed, stopping,
                   told, history, excused, restarts>>

Restarted ==
    /\ restarts < MaxRestarts
    /\ restarts' = restarts + 1
    /\ cache' = [t \in Threads |-> NoSession]
    /\ failed' = [s \in Requests |-> {}]
    /\ waiting' = {}
    /\ req' = [r \in Requests |-> IF req[r].pc = "new" THEN req[r]
                                  ELSE [pc |-> "done", took |-> NoSession]]
    /\ doomed' = {}
    /\ stopping' = FALSE
    /\ UNCHANGED <<now, redisVars, told, history>>

\* The process ends, after its clean-up or without, and starts again.
Restart == Restarted /\ UNCHANGED <<file, excused>>

\* The same in the middle of writing a file, which does not parse then.
RestartTears(r) ==
    /\ Restarted
    /\ req[r].pc = "streaming"
    /\ file' = [file EXCEPT ![req[r].took.sid] = NoSession]
    /\ Excuse(Thread[r], TRUE)

Request(r) ==
    \/ Arrives(r) \/ Counts(r) \/ Takes(r)
    \/ StreamEnds(r) \/ StreamAborts(r) \/ Saves(r)
    \/ ResetTakes(r) \/ ResetDeletes(r)

Next ==
    \/ \E r \in Requests : Request(r) \/ RedisForgets(r) \/ RestartTears(r)
    \/ \E n \in Notices, s \in Requests : TaskFails(n, s)
    \/ Stop \/ \E t \in Threads : CleansUp(t)
    \/ Tick \/ Restart

Spec == Init /\ [][Next]_vars

-----------------------------------------------------------------------------
(* Properties.                                                             *)

\* Every variable has its type.
TypeOK ==
    /\ now \in 0..MaxTime
    /\ cache \in [Threads -> Session \union {NoSession}]
    /\ failed \in [Requests -> SUBSET Notices]
    /\ waiting \subseteq [thread : Service, at : 0..MaxTime]
    /\ file \in [Requests -> Session \union {NoSession}]
    /\ rec \in [Requests -> Session \union {NoSession}]
    /\ idx \in [Threads -> Requests \union {NoRequest}]
    /\ listed \subseteq Requests
    /\ req \in [Requests -> [pc : {"new", "counting", "admitted", "streaming",
                                   "mirroring", "deleting", "done"},
                             took : Session \union {NoSession}]]
    /\ doomed \subseteq Threads
    /\ stopping \in BOOLEAN
    /\ told \subseteq Notices
    /\ expected \in [Threads -> SUBSET Turns]
    /\ gone \in [Threads -> SUBSET Turns]
    /\ excused \subseteq Threads
    /\ faults \in 0..MaxFaults
    /\ restarts \in 0..MaxRestarts

\* The sessions a request on t may be given now.
Found(t) ==
    IF cache[t] # NoSession THEN {cache[t]}
    ELSE IF InRedis(t) THEN {rec[idx[t]]}
    ELSE Newest(FilesOf(t))

\* The threads whose requests came one after the other, and no write of
\* which was lost or torn.
Orderly == {t \in Threads \ excused : InFlight(t) = {} /\ t \notin doomed}

\* An orderly thread keeps every turn saved since it was last deleted,
\* whatever expires in Redis, whoever restarts the process.
TurnsKept ==
    \A t \in Orderly : expected[t] # {} =>
        Found(t) # {} /\ \A s \in Found(t) : expected[t] \subseteq s.turns

\* An orderly thread has one session, wherever one looks; after /reset, or
\* the clean-up at shutdown, it starts afresh: no copy of the deleted one
\* comes back.
OneSession ==
    \A t \in Orderly :
        /\ Cardinality({s.sid : s \in FilesOf(t) \union Found(t)}) <= 1
        /\ \A s \in Found(t) : s.turns \intersect gone[t] = {}

Queued(q) == {w.thread : w \in q}

\* A thread waits once in the service queue, and until one of its requests
\* is admitted, its place has outlived the queue's TTL, or the process ends.
QueueKept ==
    [][/\ \A v, w \in waiting' : v.thread = w.thread => v = w
       /\ \A t \in Queued(waiting) \ Queued(waiting') :
             \/ t \notin Queued(Fresh)
             \/ \E r \in Requests : Thread[r] = t /\ req[r].pc # req'[r].pc /\ req'[r].pc = "admitted"
             \/ restarts # restarts']_vars
=============================================================================
