--------------------------- MODULE SessionsProofs ---------------------------
(***************************************************************************)
(* What the requests on a thread may rely on, for every set of requests    *)
(* and threads: a thread whose requests come one after the other, and no   *)
(* write of which is lost, has one session that keeps every turn, and a    *)
(* deleted session does not come back.  The argument speaks of the copies  *)
(* of a session, wherever they are: in the cache, in the files, in Redis,  *)
(* in the hands of a request.                                              *)
(***************************************************************************)
EXTENDS Sessions, TLAPS, FiniteSetTheorems

\* The steps before a request has taken a session.
Before == {"new", "counting", "admitted"}
Taken(x) == req[x].pc \notin Before

\* A copy of a session, wherever it is.
Copy(s) ==
    /\ s # NoSession
    /\ \/ \E t \in Threads : s = cache[t]
       \/ \E x \in Requests : s = file[x] \/ s = rec[x] \/ s = req[x].took

\* The request r has been answered, and its turn added to what it took.
Said(r) ==
    \/ req[r].pc = "done"
    \/ req[r].pc = "mirroring" /\ r \in req[r].took.turns

\* The turns that a session may have by now: a notice that still waits for
\* its session is in none.
Pending(n) == \E x \in Requests : n \in failed[x]
Uttered == {r \in Requests : Said(r)} \union {n \in told : ~Pending(n)}

-----------------------------------------------------------------------------
(* The inductive invariant.                                                *)

\* Everything lies where it belongs.
Placed ==
    /\ \A t \in Threads : cache[t] # NoSession => cache[t].thread = t
    /\ \A x \in Requests :
          /\ file[x] # NoSession => file[x].sid = x
          /\ rec[x] # NoSession => rec[x].sid = x
          /\ req[x].took # NoSession => req[x].took.thread = Thread[x]
          /\ req[x].pc \in {"streaming", "mirroring", "deleting"} <=> req[x].took # NoSession
          /\ req[x].pc \in {"counting", "admitted"} => Admits(x)
    /\ \A t \in Threads : idx[t] # NoRequest => Thread[idx[t]] = t

\* No thread has two places in the queue.
OnePlace == \A v, w \in waiting : v.thread = w.thread => v = w

\* A session was made by a request on its thread, and its turns have
\* happened.  What was made for a session is not looked for before.
Sound ==
    /\ \A s : Copy(s) => /\ s.thread = Thread[s.sid]
                         /\ Taken(s.sid)
                         /\ s.turns \subseteq Uttered
    /\ \A x \in Requests : failed[x] # {} => Taken(x)

\* A notice waits for one session; history is of what has happened.
Noted ==
    /\ \A x, y \in Requests : failed[x] \intersect failed[y] # {} => x = y
    /\ \A x \in Requests : failed[x] \subseteq told
    /\ \A t \in Threads : expected[t] \subseteq Uttered /\ gone[t] \subseteq Uttered

\* Requests on a thread that is not excused come one after the other.
OneByOne ==
    \A t \in Threads \ excused :
        /\ \A r, q \in InFlight(t) : r = q
        /\ t \in doomed => InFlight(t) = {}

\* All copies of its session are of one session, have what was saved and
\* nothing of what was deleted.
Single ==
    \A s, o : Copy(s) /\ Copy(o) /\ s.thread = o.thread /\ s.thread \notin excused =>
        s.sid = o.sid
Faithful ==
    \A s : Copy(s) /\ s.thread \notin excused =>
        /\ expected[s.thread] \subseteq s.turns
        /\ gone[s.thread] \intersect s.turns = {}

\* What Redis has, and what was saved, is in a file; and the file is as a
\* request has written it until Redis has followed.  What is being deleted
\* is not in the cache.
Filed ==
    /\ \A x \in Requests : Thread[x] \notin excused =>
          /\ rec[x] # NoSession => file[x] # NoSession
          /\ req[x].pc = "mirroring" => file[req[x].took.sid] = req[x].took
          /\ req[x].pc = "deleting" => cache[Thread[x]] = NoSession
    /\ \A t \in Threads \ excused : expected[t] # {} =>
          \E x \in Requests : Thread[x] = t /\ file[x] # NoSession

IInv ==
    /\ TypeOK /\ Placed /\ OnePlace
    /\ Sound /\ Noted
    /\ OneByOne /\ Single /\ Faithful /\ Filed

-----------------------------------------------------------------------------
(* Sessions, and copies of them.                                           *)

LEMMA Fields ==
    ASSUME NEW s \in Session
    PROVE  /\ s.sid \in Requests /\ s.thread \in Threads
           /\ s.turns \subseteq Turns /\ s.at \in 0..MaxTime
           /\ s # NoSession
<1>1. s # NoSession
  BY NoSessionIsNone
<1>. QED
  BY <1>1 DEF Session

LEMMA ThreadsOfRequests == \A r \in Requests : Thread[r] \in Threads
BY DEF Threads

\* A session with more turns is a session.
Longer(s, T, a) == [s EXCEPT !.turns = @ \union T, !.at = a]

LEMMA Extended ==
    ASSUME NEW s \in Session, NEW T \in SUBSET Turns, NEW a \in 0..MaxTime
    PROVE  /\ Longer(s, T, a) \in Session
           /\ Longer(s, T, a).sid = s.sid /\ Longer(s, T, a).thread = s.thread
           /\ Longer(s, T, a).turns = s.turns \union T
BY DEF Session, Longer

LEMMA Noticed ==
    ASSUME TypeOK, NEW s \in Session, NEW e, e = WithNotices(s)
    PROVE  /\ e \in Session
           /\ e.sid = s.sid /\ e.thread = s.thread
           /\ e.turns = s.turns \union failed[s.sid]
<1>1. s.sid \in Requests /\ s.at \in 0..MaxTime /\ now \in 0..MaxTime
  BY Fields DEF TypeOK
<1>2. failed[s.sid] \in SUBSET Turns
  BY <1>1 DEF TypeOK, Turns
<1>3. (IF failed[s.sid] = {} THEN s.at ELSE now) \in 0..MaxTime
  BY <1>1
<1>. QED
  BY <1>2, <1>3 DEF WithNotices, Session

LEMMA NewOne ==
    ASSUME TypeOK, NEW r \in Requests, NEW s, s = NewSession(r)
    PROVE  /\ s \in Session /\ s.sid = r /\ s.thread = Thread[r] /\ s.turns = {}
BY ThreadsOfRequests DEF NewSession, Session, TypeOK

\* Every copy is a session on the thread of the request that made it.
LEMMA Copies ==
    ASSUME IInv, NEW s, Copy(s)
    PROVE  /\ s \in Session
           /\ s.sid \in Requests /\ s.thread \in Threads /\ s.turns \subseteq Turns
           /\ s.thread = Thread[s.sid]
           /\ Taken(s.sid)
           /\ s.turns \subseteq Uttered
<1>1. s \in Session
  BY DEF IInv, TypeOK, Copy
<1>. QED
  BY <1>1, Fields DEF IInv, Sound

LEMMA TheCopies ==
    ASSUME IInv
    PROVE  /\ \A t \in Threads : cache[t] # NoSession => Copy(cache[t])
           /\ \A x \in Requests : /\ file[x] # NoSession => Copy(file[x])
                                  /\ rec[x] # NoSession => Copy(rec[x])
                                  /\ req[x].took # NoSession => Copy(req[x].took)
BY DEF Copy

\* The files of a thread.
LEMMA FilesAre ==
    ASSUME IInv, NEW t \in Threads, NEW s \in FilesOf(t)
    PROVE  /\ s \in Session /\ s # NoSession /\ s.thread = t
           /\ s.sid \in Requests /\ s = file[s.sid]
           /\ Copy(s)
<1>1. PICK x \in Requests : s = file[x] /\ file[x] # NoSession /\ file[x].thread = t
  BY DEF FilesOf
<1>2. s.sid = x
  BY <1>1 DEF IInv, Placed
<1>3. Copy(s)
  BY <1>1, TheCopies
<1>. QED
  BY <1>1, <1>2, <1>3, Copies

-----------------------------------------------------------------------------
(* What the store does.                                                    *)

\* The part of the invariant that is about Redis alone.
RedisOK ==
    /\ rec \in [Requests -> Session \union {NoSession}]
    /\ idx \in [Threads -> Requests \union {NoRequest}]
    /\ listed \subseteq Requests
    /\ faults \in 0..MaxFaults
    /\ \A x \in Requests : rec[x] # NoSession => rec[x].sid = x
    /\ \A t \in Threads : idx[t] # NoRequest => Thread[idx[t]] = t

LEMMA RedisIs == IInv => RedisOK
BY DEF IInv, TypeOK, Placed, RedisOK

LEMMA Faults ==
    ASSUME faults \in 0..MaxFaults, RedisFault
    PROVE  faults' \in 0..MaxFaults
BY SessionConstants DEF RedisFault

LEMMA SavedInRedis ==
    ASSUME RedisOK, NEW s \in Session, Thread[s.sid] = s.thread,
           RedisSave(s) \/ RedisSaveRaises(s) \/ RedisSaveAfterFault(s)
    PROVE  /\ RedisOK'
           /\ \A x \in Requests : rec'[x] = rec[x] \/ (x = s.sid /\ rec'[x] = s)
           /\ RedisSave(s) => rec'[s.sid] = s
<1>1. s.sid \in Requests /\ s.thread \in Threads /\ s # NoSession
  BY Fields
<1>2. \E recorded, indexed, inList \in BOOLEAN : RedisSaved(s, recorded, indexed, inList)
  <2>1. (s.thread \in Service) \in BOOLEAN
    OBVIOUS
  <2>2. CASE RedisSave(s)
    BY <2>1, <2>2, Zenon DEF RedisSave
  <2>3. CASE RedisSaveRaises(s)
    BY <2>3, Zenon DEF RedisSaveRaises
  <2>4. CASE RedisSaveAfterFault(s)
    BY <2>1, <2>4, Zenon DEF RedisSaveAfterFault
  <2>. QED
    BY <2>2, <2>3, <2>4
<1>3. faults' \in 0..MaxFaults
  <2>1. CASE RedisSave(s)
    BY <2>1 DEF RedisOK, RedisSave
  <2>2. CASE RedisSaveRaises(s)
    BY <2>2, Faults DEF RedisOK, RedisSaveRaises
  <2>3. CASE RedisSaveAfterFault(s)
    BY <2>3, Faults DEF RedisOK, RedisSaveAfterFault
  <2>. QED
    BY <2>1, <2>2, <2>3
<1>4. rec' \in [Requests -> Session \union {NoSession}]
  BY <1>1, <1>2 DEF RedisOK, RedisSaved
<1>5. \A x \in Requests : rec'[x] = rec[x] \/ (x = s.sid /\ rec'[x] = s)
  BY <1>1, <1>2 DEF RedisOK, RedisSaved
<1>6. idx' \in [Threads -> Requests \union {NoRequest}]
  BY <1>1, <1>2 DEF RedisOK, RedisSaved
<1>7. \A t \in Threads : idx'[t] = idx[t] \/ (t = s.thread /\ idx'[t] = s.sid)
  BY <1>1, <1>2 DEF RedisOK, RedisSaved
<1>8. listed' \subseteq Requests
  BY <1>1, <1>2 DEF RedisOK, RedisSaved
<1>9. \A x \in Requests : rec'[x] # NoSession => rec'[x].sid = x
  BY <1>5 DEF RedisOK
<1>10. \A t \in Threads : idx'[t] # NoRequest => Thread[idx'[t]] = t
  BY <1>7 DEF RedisOK
<1>11. RedisSave(s) => rec'[s.sid] = s
  BY <1>1 DEF RedisSave, RedisSaved, RedisOK
<1>. QED
  BY <1>3, <1>4, <1>5, <1>6, <1>8, <1>9, <1>10, <1>11 DEF RedisOK

LEMMA DeletedInRedis ==
    ASSUME RedisOK, NEW s \in Session, Thread[s.sid] = s.thread,
           RedisDelete(s) \/ RedisDeleteRaises(s)
    PROVE  /\ RedisOK'
           /\ \A x \in Requests : rec'[x] \in {rec[x], NoSession}
           /\ RedisDelete(s) => rec'[s.sid] = NoSession
<1>1. s.sid \in Requests /\ s.thread \in Threads
  BY Fields
<1>2. faults' \in 0..MaxFaults
  <2>1. CASE RedisDelete(s)
    BY <2>1 DEF RedisOK, RedisDelete
  <2>2. CASE RedisDeleteRaises(s)
    BY <2>2, Faults DEF RedisOK, RedisDeleteRaises
  <2>. QED
    BY <2>1, <2>2
<1>3. rec' \in [Requests -> Session \union {NoSession}]
  BY <1>1 DEF RedisOK, RedisDelete, RedisDeleteRaises
<1>4. \A x \in Requests : rec'[x] \in {rec[x], NoSession}
  BY <1>1 DEF RedisOK, RedisDelete, RedisDeleteRaises
<1>5. idx' \in [Threads -> Requests \union {NoRequest}]
  BY <1>1 DEF RedisOK, RedisDelete, RedisDeleteRaises
<1>6. \A t \in Threads : idx'[t] \in {idx[t], NoRequest}
  BY <1>1 DEF RedisOK, RedisDelete, RedisDeleteRaises
<1>7. listed' \subseteq Requests
  BY DEF RedisOK, RedisDelete, RedisDeleteRaises
<1>8. RedisDelete(s) => rec'[s.sid] = NoSession
  BY <1>1 DEF RedisDelete, RedisOK
<1>9. \A x \in Requests : rec'[x] # NoSession => rec'[x].sid = x
  BY <1>4 DEF RedisOK
<1>10. \A t \in Threads : idx'[t] # NoRequest => Thread[idx'[t]] = t
  BY <1>6 DEF RedisOK
<1>. QED
  BY <1>2, <1>3, <1>4, <1>5, <1>7, <1>8, <1>9, <1>10 DEF RedisOK

\* A look for the session of a thread gives a copy of it, and gives None
\* only if neither the cache nor a file has one; Redis is at most filled from
\* a file.
LEMMA Found1 ==
    ASSUME IInv, NEW t \in Threads, NEW s, StoreFinds(t, s)
    PROVE  /\ RedisOK'
           /\ s # NoSession => Copy(s) /\ s.thread = t
           /\ s = NoSession => FilesOf(t) = {}
           /\ \A x \in Requests : rec'[x] = rec[x]
                 \/ (file[x] # NoSession /\ file[x].thread = t /\ rec'[x] = file[x])
<1>1. CASE InRedis(t) /\ s = rec[idx[t]] /\ UNCHANGED redisVars
  <2>1. idx[t] \in Requests /\ rec[idx[t]] # NoSession
    BY <1>1 DEF InRedis, IInv, TypeOK
  <2>2. Copy(s) /\ s # NoSession
    BY <1>1, <2>1, TheCopies
  <2>3. s.sid = idx[t] /\ Thread[idx[t]] = t
    BY <1>1, <2>1 DEF IInv, Placed, InRedis
  <2>4. s.thread = t
    BY <2>2, <2>3, Copies
  <2>5. RedisOK'
    BY <1>1, RedisIs DEF RedisOK, redisVars
  <2>. QED
    BY <1>1, <2>2, <2>4, <2>5 DEF redisVars
<1>2. CASE /\ FilesOf(t) = {} /\ s = NoSession
           /\ idx' = [idx EXCEPT ![t] = NoRequest]
           /\ UNCHANGED <<rec, listed, faults>>
  BY <1>2, RedisIs DEF RedisOK
<1>3. CASE /\ s \in Newest(FilesOf(t))
           /\ RedisSave(s) \/ RedisSaveRaises(s) \/ RedisSaveAfterFault(s)
  <2>1. s \in FilesOf(t)
    BY <1>3 DEF Newest
  <2>2. /\ s \in Session /\ s # NoSession /\ s.thread = t /\ Copy(s)
        /\ s.sid \in Requests /\ s = file[s.sid]
    BY <2>1, FilesAre
  <2>3. Thread[s.sid] = s.thread
    BY <2>2, Copies
  <2>. QED
    BY <1>3, <2>2, <2>3, SavedInRedis, RedisIs
<1>4. CASE /\ FilesOf(t) = {} /\ s = NoSession
           /\ RedisFault /\ UNCHANGED <<rec, idx, listed>>
  BY <1>4, RedisIs, Faults DEF RedisOK
<1>. QED
  BY <1>1, <1>2, <1>3, <1>4 DEF StoreFinds

LEMMA Found2 ==
    ASSUME IInv, NEW t \in Threads, NEW s, Finds(t, s)
    PROVE  /\ RedisOK'
           /\ s # NoSession => Copy(s) /\ s.thread = t
           /\ s = NoSession => cache[t] = NoSession /\ FilesOf(t) = {}
           /\ \A x \in Requests : rec'[x] = rec[x]
                 \/ (file[x] # NoSession /\ file[x].thread = t /\ rec'[x] = file[x])
<1>1. CASE cache[t] # NoSession /\ s = cache[t] /\ UNCHANGED redisVars
  <2>1. Copy(s) /\ s.thread = t
    BY <1>1, TheCopies DEF IInv, Placed
  <2>2. RedisOK'
    BY <1>1, RedisIs DEF RedisOK, redisVars
  <2>. QED
    BY <1>1, <2>1, <2>2 DEF redisVars
<1>2. CASE cache[t] = NoSession /\ StoreFinds(t, s)
  BY <1>2, Found1
<1>. QED
  BY <1>1, <1>2 DEF Finds

LEMMA Listed1 ==
    ASSUME IInv, NEW S, StoreLists(S)
    PROVE  RedisOK' /\ rec' = rec
<1>1. CASE /\ listed' = {x \in listed : rec[x] # NoSession}
           /\ UNCHANGED <<rec, idx, faults>>
  BY <1>1, RedisIs DEF RedisOK
<1>2. CASE RedisFault /\ UNCHANGED <<rec, idx, listed>>
  BY <1>2, RedisIs, Faults DEF RedisOK
<1>. QED
  BY <1>1, <1>2 DEF StoreLists

\* The store deletes a session from its file, and from Redis if that does not
\* raise.
LEMMA Deleted1 ==
    ASSUME IInv, NEW s, Copy(s), Deleted(s, s.thread)
    PROVE  /\ RedisOK'
           /\ file' = [file EXCEPT ![s.sid] = NoSession]
           /\ \A x \in Requests : rec'[x] \in {rec[x], NoSession}
           /\ \/ rec'[s.sid] = NoSession /\ excused' = excused
              \/ excused' = excused \union {s.thread}
           /\ Forget(s.thread, s.turns)
<1>1. s \in Session /\ Thread[s.sid] = s.thread
  BY Copies
<1>2. RedisDelete(s) \/ RedisDeleteRaises(s)
  BY DEF Deleted
<1>3. /\ RedisOK'
      /\ \A x \in Requests : rec'[x] \in {rec[x], NoSession}
      /\ RedisDelete(s) => rec'[s.sid] = NoSession
  BY <1>1, <1>2, DeletedInRedis, RedisIs
<1>. QED
  BY <1>3 DEF Deleted, Excuse

-----------------------------------------------------------------------------
(* What the two steps do that make a session, or add to one.               *)

\* Redis is at most filled from the files.
RecFollows ==
    \A x \in Requests : rec'[x] = rec[x] \/ (file[x] # NoSession /\ rec'[x] = file[x])

\* The request takes mine: a copy, or a new session if there is none, with
\* the notices that wait for it.
TakesThis(r, mine) ==
    /\ mine \in Session /\ mine.thread = Thread[r] /\ Thread[mine.sid] = Thread[r]
    /\ \/ \E s : /\ Copy(s) /\ s.thread = Thread[r] /\ s.sid = mine.sid
                 /\ mine.turns = s.turns \union failed[mine.sid]
       \/ /\ mine.sid = r /\ mine.turns = failed[r]
          /\ cache[Thread[r]] = NoSession /\ FilesOf(Thread[r]) = {}
    /\ req[r].pc \in Before /\ req[r].took = NoSession
    /\ cache' = [cache EXCEPT ![Thread[r]] = mine]
    /\ failed' = [failed EXCEPT ![mine.sid] = {}]
    /\ \E pc \in {"mirroring", "streaming"} :
          /\ req' = [req EXCEPT ![r] = [pc |-> pc, took |-> mine]]
          /\ \/ file' = [file EXCEPT ![mine.sid] = mine]
             \/ file' = file /\ pc = "streaming"
    /\ RedisOK' /\ RecFollows
    /\ excused' = IF Overlaps(r) THEN excused \union {Thread[r]} ELSE excused
    /\ UNCHANGED <<now, waiting, doomed, stopping, told, history, restarts>>

LEMMA TakesTakes ==
    ASSUME IInv, NEW r \in Requests, Takes(r)
    PROVE  \E mine : TakesThis(r, mine)
<1>. DEFINE t == Thread[r]
<1>1. t \in Threads
  BY ThreadsOfRequests
<1>2. PICK s : /\ Finds(t, s)
               /\ LET mine == WithNotices(IF s = NoSession THEN NewSession(r) ELSE s) IN
                  /\ cache' = [cache EXCEPT ![t] = mine]
                  /\ failed' = [failed EXCEPT ![mine.sid] = {}]
                  /\ req' = [req EXCEPT ![r] =
                        [pc |-> IF Kind[r] = "task" THEN "mirroring" ELSE "streaming",
                         took |-> mine]]
                  /\ file' = IF Kind[r] = "task" THEN [file EXCEPT ![mine.sid] = mine] ELSE file
  BY DEF Takes
<1>. DEFINE base == IF s = NoSession THEN NewSession(r) ELSE s
            mine == WithNotices(base)
<1>3. /\ RedisOK'
      /\ s # NoSession => Copy(s) /\ s.thread = t
      /\ s = NoSession => cache[t] = NoSession /\ FilesOf(t) = {}
      /\ RecFollows
  BY <1>1, <1>2, Found2 DEF RecFollows
<1>4. /\ base \in Session /\ base.thread = t /\ Thread[base.sid] = t
      /\ base = s \/ (base.sid = r /\ base.turns = {} /\ s = NoSession)
  <2>1. CASE s = NoSession
    <3>1. base = NewSession(r)
      BY <2>1
    <3>. HIDE DEF base
    <3>. QED
      BY <2>1, <3>1, NewOne DEF IInv
  <2>2. CASE s # NoSession
    BY <2>2, <1>3, Copies
  <2>. QED
    BY <2>1, <2>2
<1>5. /\ mine \in Session
      /\ mine.sid = base.sid /\ mine.thread = base.thread
      /\ mine.turns = base.turns \union failed[base.sid]
  <2>. HIDE DEF base
  <2>1. mine = WithNotices(base)
    OBVIOUS
  <2>. HIDE DEF mine
  <2>. QED
    BY <2>1, <1>4, Noticed DEF IInv
<1>6. /\ cache' = [cache EXCEPT ![t] = mine]
      /\ failed' = [failed EXCEPT ![mine.sid] = {}]
      /\ req' = [req EXCEPT ![r] =
                    [pc |-> IF Kind[r] = "task" THEN "mirroring" ELSE "streaming",
                     took |-> mine]]
      /\ file' = IF Kind[r] = "task" THEN [file EXCEPT ![mine.sid] = mine] ELSE file
  BY <1>2
<1>7. req[r].pc \in Before /\ req[r].took = NoSession
  BY DEF Takes, Ready, Before, IInv, Placed
<1>8. /\ excused' = IF Overlaps(r) THEN excused \union {t} ELSE excused
      /\ UNCHANGED <<now, waiting, doomed, stopping, told, history, restarts>>
  BY DEF Takes, Excuse
<1>. HIDE DEF mine, base
<1>9. \/ \E o : /\ Copy(o) /\ o.thread = t /\ o.sid = mine.sid
                /\ mine.turns = o.turns \union failed[mine.sid]
      \/ /\ mine.sid = r /\ mine.turns = failed[r]
         /\ cache[t] = NoSession /\ FilesOf(t) = {}
  BY <1>3, <1>4, <1>5, NoSessionIsNone
<1>10. \E pc \in {"mirroring", "streaming"} :
          /\ req' = [req EXCEPT ![r] = [pc |-> pc, took |-> mine]]
          /\ \/ file' = [file EXCEPT ![mine.sid] = mine]
             \/ file' = file /\ pc = "streaming"
  BY <1>6
<1>. QED
  BY <1>3, <1>4, <1>5, <1>6, <1>7, <1>8, <1>9, <1>10 DEF TakesThis

\* The answer is added to what the request took, and the file written.
EndsWith(r, s) ==
    /\ s \in Session /\ Copy(req[r].took)
    /\ s.sid = req[r].took.sid /\ s.thread = req[r].took.thread
    /\ s.turns = req[r].took.turns \union {r}
    /\ s.thread = Thread[r]
    /\ req[r].pc = "streaming"
    /\ file' = [file EXCEPT ![s.sid] = s]
    /\ req' = [req EXCEPT ![r] = [pc |-> "mirroring", took |-> s]]
    /\ UNCHANGED <<now, cache, failed, waiting, redisVars, doomed, stopping,
                   told, history, excused, restarts>>

LEMMA EndsEnds ==
    ASSUME IInv, NEW r \in Requests, StreamEnds(r)
    PROVE  \E s : EndsWith(r, s)
<1>. DEFINE s == [req[r].took EXCEPT !.turns = @ \union {r}, !.at = now]
<1>1. req[r].pc = "streaming" /\ req[r].took # NoSession
  BY DEF StreamEnds, IInv, Placed
<1>2. Copy(req[r].took) /\ req[r].took \in Session /\ req[r].took.thread = Thread[r]
  BY <1>1, TheCopies, Copies DEF IInv, Placed
<1>3. now \in 0..MaxTime /\ {r} \in SUBSET Turns
  BY DEF IInv, TypeOK, Turns
<1>4. /\ file' = [file EXCEPT ![s.sid] = s]
      /\ req' = [req EXCEPT ![r] = [pc |-> "mirroring", took |-> s]]
  BY DEF StreamEnds
<1>5. /\ s \in Session
      /\ s.sid = req[r].took.sid /\ s.thread = req[r].took.thread
      /\ s.turns = req[r].took.turns \union {r}
  <2>. DEFINE took == req[r].took
              one == {r}
  <2>1. s = Longer(took, one, now)
    BY DEF Longer
  <2>2. took \in Session /\ one \in SUBSET Turns /\ now \in 0..MaxTime
    BY <1>2, <1>3
  <2>. HIDE DEF took, one, s
  <2>3. /\ s \in Session
        /\ s.sid = took.sid /\ s.thread = took.thread /\ s.turns = took.turns \union one
    BY <2>1, <2>2, Extended
  <2>. QED
    BY <2>3 DEF took, one
<1>6. UNCHANGED <<now, cache, failed, waiting, redisVars, doomed, stopping,
                  told, history, excused, restarts>>
  BY DEF StreamEnds
<1>. HIDE DEF s
<1>. QED
  BY <1>1, <1>2, <1>4, <1>5, <1>6 DEF EndsWith

\* A request that is saving has what it took, and the cache gets it.
LEMMA Saves1 ==
    ASSUME IInv, NEW r \in Requests, Saves(r)
    PROVE  /\ Copy(req[r].took) /\ req[r].took \in Session
           /\ req[r].took.thread = Thread[r] /\ Thread[req[r].took.sid] = Thread[r]
           /\ RedisOK'
           /\ \A x \in Requests : rec'[x] = rec[x] \/ (x = req[r].took.sid /\ rec'[x] = req[r].took)
           /\ \/ rec'[req[r].took.sid] = req[r].took /\ excused' = excused
              \/ excused' = excused \union {Thread[r]}
<1>1. req[r].pc = "mirroring" /\ req[r].took # NoSession
  BY DEF Saves, IInv, Placed
<1>2. /\ Copy(req[r].took) /\ req[r].took \in Session /\ req[r].took.thread = Thread[r]
      /\ Thread[req[r].took.sid] = Thread[r]
  BY <1>1, TheCopies, Copies DEF IInv, Placed
<1>3. RedisSave(req[r].took) \/ RedisSaveRaises(req[r].took)
  BY DEF Saves
<1>4. /\ RedisOK'
      /\ \A x \in Requests : rec'[x] = rec[x] \/ (x = req[r].took.sid /\ rec'[x] = req[r].took)
      /\ RedisSave(req[r].took) => rec'[req[r].took.sid] = req[r].took
  BY <1>2, <1>3, SavedInRedis, RedisIs
<1>. QED
  BY <1>2, <1>4 DEF Saves, Excuse

\* A reset that is deleting has what it took.
LEMMA ResetDeletes1 ==
    ASSUME IInv, NEW r \in Requests, ResetDeletes(r)
    PROVE  /\ Copy(req[r].took) /\ req[r].took.thread = Thread[r]
           /\ Deleted(req[r].took, req[r].took.thread)
<1>1. req[r].pc = "deleting" /\ req[r].took # NoSession
  BY DEF ResetDeletes, IInv, Placed
<1>. QED
  BY <1>1, TheCopies DEF IInv, Placed, ResetDeletes

LEMMA CleansUp1 ==
    ASSUME IInv, NEW t \in Threads, CleansUp(t), cache[t] # NoSession
    PROVE  /\ Copy(cache[t]) /\ cache[t].thread = t
           /\ Deleted(cache[t], cache[t].thread)
           /\ cache' = [cache EXCEPT ![t] = NoSession]
BY TheCopies DEF IInv, Placed, CleansUp

-----------------------------------------------------------------------------
(* Types and places, one variable after the other.                         *)

CacheOK ==
    /\ cache \in [Threads -> Session \union {NoSession}]
    /\ \A t \in Threads : cache[t] # NoSession => cache[t].thread = t

FileOK ==
    /\ file \in [Requests -> Session \union {NoSession}]
    /\ \A x \in Requests : file[x] # NoSession => file[x].sid = x

ReqOK ==
    /\ req \in [Requests -> [pc : {"new", "counting", "admitted", "streaming",
                                   "mirroring", "deleting", "done"},
                             took : Session \union {NoSession}]]
    /\ \A x \in Requests :
          /\ req[x].took # NoSession => req[x].took.thread = Thread[x]
          /\ req[x].pc \in {"streaming", "mirroring", "deleting"} <=> req[x].took # NoSession
          /\ req[x].pc \in {"counting", "admitted"} => Admits(x)

QueueOK == waiting \subseteq [thread : Service, at : 0..MaxTime] /\ OnePlace

OthersOK ==
    /\ now \in 0..MaxTime
    /\ failed \in [Requests -> SUBSET Notices]
    /\ doomed \subseteq Threads
    /\ stopping \in BOOLEAN
    /\ told \subseteq Notices
    /\ expected \in [Threads -> SUBSET Turns]
    /\ gone \in [Threads -> SUBSET Turns]
    /\ excused \subseteq Threads
    /\ restarts \in 0..MaxRestarts

Parts == RedisOK /\ CacheOK /\ FileOK /\ ReqOK /\ QueueOK /\ OthersOK

LEMMA PartsAreAll == Parts <=> TypeOK /\ Placed /\ OnePlace
BY DEF Parts, RedisOK, CacheOK, FileOK, ReqOK, QueueOK, OthersOK, TypeOK, Placed

LEMMA PartsAreAllThen == Parts' <=> TypeOK' /\ Placed' /\ OnePlace'
BY DEF Parts, RedisOK, CacheOK, FileOK, ReqOK, QueueOK, OthersOK, TypeOK, Placed, Admits

LEMMA PartsHold == IInv => Parts
BY PartsAreAll DEF IInv

\* Which steps change the cache: every entry is a copy then, or was taken.
LEMMA CacheStep ==
    ASSUME IInv, [Next]_vars
    PROVE  /\ CacheOK'
           /\ \A t \in Threads : cache'[t] # NoSession =>
                 Copy(cache'[t]) \/ \E r \in Requests : TakesThis(r, cache'[t])
<1>. DEFINE Goal == /\ CacheOK'
                    /\ \A t \in Threads : cache'[t] # NoSession =>
                         Copy(cache'[t]) \/ \E r \in Requests : TakesThis(r, cache'[t])
<1>1. CacheOK
  BY PartsHold DEF Parts
<1>2. ASSUME UNCHANGED cache PROVE Goal
  BY <1>1, <1>2, TheCopies DEF CacheOK
<1>3. ASSUME NEW t \in Threads, NEW s, s # NoSession => Copy(s) /\ s.thread = t,
             cache' = [cache EXCEPT ![t] = s]
      PROVE  Goal
  <2>1. s \in Session \union {NoSession}
    BY <1>3, Copies
  <2>. QED
    BY <1>1, <1>3, <2>1, TheCopies DEF CacheOK
<1>4. ASSUME NEW r \in Requests, Arrives(r) PROVE Goal
  <2>1. PICK s : Finds(Thread[r], s) /\ cache' = [cache EXCEPT ![Thread[r]] = s]
    BY <1>4 DEF Arrives
  <2>2. Thread[r] \in Threads
    BY ThreadsOfRequests
  <2>3. s # NoSession => Copy(s) /\ s.thread = Thread[r]
    BY <2>1, <2>2, Found2
  <2>. HIDE DEF Goal
  <2>. QED
    BY <2>1, <2>2, <2>3, <1>3
<1>5. ASSUME NEW r \in Requests, Takes(r) PROVE Goal
  <2>1. PICK mine : TakesThis(r, mine)
    BY <1>5, TakesTakes
  <2>2. /\ cache' = [cache EXCEPT ![Thread[r]] = mine] /\ mine \in Session
        /\ mine.thread = Thread[r] /\ Thread[r] \in Threads
    BY <2>1, ThreadsOfRequests DEF TakesThis
  <2>. QED
    BY <1>1, <2>1, <2>2, TheCopies DEF CacheOK
<1>6. ASSUME NEW r \in Requests, Saves(r) PROVE Goal
  BY <1>6, <1>3, Saves1, ThreadsOfRequests DEF Saves
<1>7. ASSUME NEW r \in Requests, ResetTakes(r) PROVE Goal
  BY <1>7, <1>3, ThreadsOfRequests DEF ResetTakes
<1>8. ASSUME NEW t \in Threads, CleansUp(t) PROVE Goal
  BY <1>8, <1>3, <1>2 DEF CleansUp
<1>9. ASSUME Restarted PROVE Goal
  BY <1>9, <1>1 DEF Restarted, CacheOK
<1>10. ASSUME NEW r \in Requests,
              Counts(r) \/ StreamEnds(r) \/ StreamAborts(r) \/ ResetDeletes(r) \/ RedisForgets(r)
       PROVE  Goal
  BY <1>10, <1>2 DEF Counts, StreamEnds, StreamAborts, ResetDeletes, RedisForgets
<1>11. ASSUME NEW n \in Notices, NEW s \in Requests, TaskFails(n, s) PROVE Goal
  BY <1>11, <1>2 DEF TaskFails
<1>12. ASSUME Stop \/ Tick \/ UNCHANGED vars PROVE Goal
  BY <1>12, <1>2 DEF Stop, Tick, vars
<1>. QED
  BY <1>4, <1>5, <1>6, <1>7, <1>8, <1>9, <1>10, <1>11, <1>12
     DEF Next, Request, Restart, RestartTears

\* Which steps change the files: a file is as it was, or was just written.
LEMMA FileStep ==
    ASSUME IInv, [Next]_vars
    PROVE  /\ FileOK'
           /\ \A x \in Requests : file'[x] # NoSession =>
                 \/ file'[x] = file[x]
                 \/ \E r \in Requests : TakesThis(r, file'[x]) \/ EndsWith(r, file'[x])
<1>. DEFINE Goal == /\ FileOK'
                    /\ \A x \in Requests : file'[x] # NoSession =>
                          \/ file'[x] = file[x]
                          \/ \E r \in Requests : TakesThis(r, file'[x]) \/ EndsWith(r, file'[x])
<1>1. FileOK
  BY PartsHold DEF Parts
<1>2. ASSUME UNCHANGED file PROVE Goal
  BY <1>1, <1>2 DEF FileOK
<1>3. ASSUME NEW x, file' = [file EXCEPT ![x] = NoSession] PROVE Goal
  BY <1>1, <1>3 DEF FileOK
<1>4. ASSUME NEW r \in Requests, NEW s \in Session, TakesThis(r, s) \/ EndsWith(r, s),
             file' = [file EXCEPT ![s.sid] = s]
      PROVE  Goal
  <2>1. s.sid \in Requests
    BY Fields
  <2>. QED
    BY <1>1, <1>4, <2>1 DEF FileOK
<1>5. ASSUME NEW r \in Requests, Takes(r) PROVE Goal
  <2>1. PICK mine : TakesThis(r, mine)
    BY <1>5, TakesTakes
  <2>2. mine \in Session /\ (file' = file \/ file' = [file EXCEPT ![mine.sid] = mine])
    BY <2>1 DEF TakesThis
  <2>. QED
    BY <1>2, <1>4, <2>1, <2>2
<1>6. ASSUME NEW r \in Requests, StreamEnds(r) PROVE Goal
  <2>1. PICK s : EndsWith(r, s)
    BY <1>6, EndsEnds
  <2>2. s \in Session /\ file' = [file EXCEPT ![s.sid] = s]
    BY <2>1 DEF EndsWith
  <2>. QED
    BY <1>4, <2>1, <2>2
<1>7. ASSUME NEW r \in Requests, ResetDeletes(r) PROVE Goal
  BY <1>7, <1>3, ResetDeletes1, Deleted1
<1>8. ASSUME NEW t \in Threads, CleansUp(t) PROVE Goal
  <2>1. CASE cache[t] = NoSession
    BY <1>8, <2>1, <1>2, NoSessionIsNone DEF CleansUp, storeVars
  <2>2. CASE cache[t] # NoSession
    BY <1>8, <2>2, <1>3, CleansUp1, Deleted1
  <2>. QED
    BY <2>1, <2>2
<1>9. ASSUME NEW r \in Requests, RestartTears(r) PROVE Goal
  BY <1>9, <1>3 DEF RestartTears
<1>10. ASSUME NEW r \in Requests,
              Arrives(r) \/ Counts(r) \/ StreamAborts(r) \/ Saves(r) \/ ResetTakes(r)
              \/ RedisForgets(r)
       PROVE  Goal
  BY <1>10, <1>2 DEF Arrives, Counts, StreamAborts, Saves, ResetTakes, RedisForgets, AtWork
<1>11. ASSUME NEW n \in Notices, NEW s \in Requests, TaskFails(n, s) PROVE Goal
  BY <1>11, <1>2 DEF TaskFails, storeVars
<1>12. ASSUME Stop \/ Tick \/ Restart \/ UNCHANGED vars PROVE Goal
  BY <1>12, <1>2 DEF Stop, Tick, Restart, vars, storeVars
<1>. QED
  BY <1>5, <1>6, <1>7, <1>8, <1>9, <1>10, <1>11, <1>12 DEF Next, Request

\* What Redis has was there, or in a file, or is what a request saves.
LEMMA RecStep ==
    ASSUME IInv, [Next]_vars
    PROVE  /\ RedisOK'
           /\ \A x \in Requests : rec'[x] # NoSession => Copy(rec'[x])
           /\ \A x \in Requests : rec'[x] # NoSession =>
                 \/ rec[x] # NoSession \/ file[x] # NoSession
                 \/ \E r \in Requests : Saves(r) /\ rec'[x] = req[r].took
<1>. DEFINE Goal == /\ RedisOK'
                    /\ \A x \in Requests : rec'[x] # NoSession => Copy(rec'[x])
                    /\ \A x \in Requests : rec'[x] # NoSession =>
                          \/ rec[x] # NoSession \/ file[x] # NoSession
                          \/ \E r \in Requests : Saves(r) /\ rec'[x] = req[r].took
<1>1. RedisOK
  BY RedisIs
<1>2. ASSUME UNCHANGED redisVars PROVE Goal
  BY <1>1, <1>2, TheCopies DEF RedisOK, redisVars
<1>3. ASSUME RedisOK', RecFollows PROVE Goal
  BY <1>3, TheCopies DEF RecFollows
<1>4. ASSUME NEW r \in Requests, Arrives(r) \/ ResetTakes(r) PROVE Goal
  <2>1. PICK s : Finds(Thread[r], s)
    BY <1>4 DEF Arrives, ResetTakes
  <2>. QED
    BY <2>1, <1>3, Found2, ThreadsOfRequests DEF RecFollows
<1>5. ASSUME NEW r \in Requests, Counts(r) PROVE Goal
  <2>1. PICK S : StoreLists(S)
    BY <1>5 DEF Counts
  <2>. QED
    BY <2>1, <1>3, Listed1 DEF RecFollows
<1>6. ASSUME NEW r \in Requests, Takes(r) PROVE Goal
  BY <1>6, <1>3, TakesTakes DEF TakesThis
<1>7. ASSUME NEW r \in Requests, Saves(r) PROVE Goal
  BY <1>7, Saves1, TheCopies
<1>8. ASSUME NEW r \in Requests, ResetDeletes(r) PROVE Goal
  BY <1>8, ResetDeletes1, Deleted1, TheCopies
<1>9. ASSUME NEW t \in Threads, CleansUp(t) PROVE Goal
  <2>1. CASE cache[t] = NoSession
    BY <1>9, <2>1, <1>2, NoSessionIsNone DEF CleansUp, storeVars
  <2>2. CASE cache[t] # NoSession
    BY <1>9, <2>2, CleansUp1, Deleted1, TheCopies
  <2>. QED
    BY <2>1, <2>2
<1>10. ASSUME NEW r \in Requests, RedisForgets(r) PROVE Goal
  <2>1. /\ rec' = [rec EXCEPT ![r] = NoSession] /\ UNCHANGED <<idx, listed>>
        /\ faults' \in 0..MaxFaults
    BY <1>1, <1>10, Faults DEF RedisForgets, RedisOK
  <2>. QED
    BY <2>1, <1>1, TheCopies DEF RedisOK
<1>11. ASSUME NEW r \in Requests, StreamEnds(r) \/ StreamAborts(r) \/ RestartTears(r) PROVE Goal
  BY <1>11, <1>2 DEF StreamEnds, StreamAborts, RestartTears, Restarted
<1>12. ASSUME NEW n \in Notices, NEW s \in Requests, TaskFails(n, s) PROVE Goal
  BY <1>12, <1>2 DEF TaskFails, storeVars
<1>13. ASSUME Stop \/ Tick \/ Restart \/ UNCHANGED vars PROVE Goal
  BY <1>13, <1>2 DEF Stop, Tick, Restart, Restarted, vars, storeVars
<1>. QED
  BY <1>4, <1>5, <1>6, <1>7, <1>8, <1>9, <1>10, <1>11, <1>12, <1>13 DEF Next, Request

\* What a request holds it held, or was a copy, or it has just made it.
LEMMA ReqStep ==
    ASSUME IInv, [Next]_vars
    PROVE  /\ ReqOK'
           /\ \A x \in Requests : req'[x].took # NoSession =>
                 Copy(req'[x].took) \/ TakesThis(x, req'[x].took) \/ EndsWith(x, req'[x].took)
<1>. DEFINE Goal == /\ ReqOK'
                    /\ \A x \in Requests : req'[x].took # NoSession =>
                          Copy(req'[x].took) \/ TakesThis(x, req'[x].took)
                          \/ EndsWith(x, req'[x].took)
<1>1. ReqOK
  BY PartsHold DEF Parts
<1>2. ASSUME UNCHANGED req PROVE Goal
  BY <1>1, <1>2, TheCopies DEF ReqOK, Admits
<1>3. ASSUME NEW r \in Requests, Goto(r, "admitted") \/ Goto(r, "counting"), Admits(r),
             req[r].took = NoSession
      PROVE  Goal
  <2>1. PICK pc \in {"admitted", "counting"} : req' = [req EXCEPT ![r].pc = pc]
    BY <1>3 DEF Goto
  <2>2. req'[r].pc = pc /\ req'[r].took = NoSession
    BY <1>1, <1>3, <2>1 DEF ReqOK
  <2>3. \A x \in Requests \ {r} : req'[x] = req[x]
    BY <1>1, <2>1 DEF ReqOK
  <2>4. req' \in [Requests -> [pc : {"new", "counting", "admitted", "streaming",
                                     "mirroring", "deleting", "done"},
                               took : Session \union {NoSession}]]
    BY <1>1, <2>1 DEF ReqOK
  <2>. QED
    BY <1>1, <1>3, <2>2, <2>3, <2>4, TheCopies DEF ReqOK, Admits
<1>4. ASSUME NEW r \in Requests, NEW pc \in {"streaming", "mirroring", "deleting"}, NEW s \in Session,
             s.thread = Thread[r], Copy(s) \/ TakesThis(r, s) \/ EndsWith(r, s),
             req' = [req EXCEPT ![r] = [pc |-> pc, took |-> s]]
      PROVE  Goal
  <2>1. s # NoSession
    BY NoSessionIsNone
  <2>2. req'[r].pc = pc /\ req'[r].took = s
    BY <1>1, <1>4 DEF ReqOK
  <2>3. \A x \in Requests \ {r} : req'[x] = req[x]
    BY <1>1, <1>4 DEF ReqOK
  <2>4. req' \in [Requests -> [pc : {"new", "counting", "admitted", "streaming",
                                     "mirroring", "deleting", "done"},
                               took : Session \union {NoSession}]]
    BY <1>1, <1>4 DEF ReqOK
  <2>. QED
    BY <1>1, <1>4, <2>1, <2>2, <2>3, <2>4, TheCopies DEF ReqOK, Admits
<1>5. ASSUME NEW r \in Requests, Done(r) PROVE Goal
  <2>1. req'[r].pc = "done" /\ req'[r].took = NoSession
    BY <1>1, <1>5 DEF ReqOK, Done
  <2>2. \A x \in Requests \ {r} : req'[x] = req[x]
    BY <1>1, <1>5 DEF ReqOK, Done
  <2>3. req' \in [Requests -> [pc : {"new", "counting", "admitted", "streaming",
                                     "mirroring", "deleting", "done"},
                               took : Session \union {NoSession}]]
    BY <1>1, <1>5 DEF ReqOK, Done
  <2>. QED
    BY <1>1, <2>1, <2>2, <2>3, TheCopies DEF ReqOK, Admits
<1>6. ASSUME NEW r \in Requests, Arrives(r) PROVE Goal
  <2>1. Admits(r) /\ req[r].took = NoSession
    BY <1>1, <1>6 DEF Arrives, ReqOK
  <2>. QED
    BY <1>6, <1>3, <2>1 DEF Arrives
<1>7. ASSUME NEW r \in Requests, Counts(r) PROVE Goal
  <2>1. Admits(r) /\ req[r].took = NoSession
    BY <1>1, <1>7 DEF Counts, ReqOK
  <2>. QED
    BY <1>7, <1>3, <1>5, <2>1 DEF Counts
<1>8. ASSUME NEW r \in Requests, Takes(r) PROVE Goal
  <2>1. PICK mine : TakesThis(r, mine)
    BY <1>8, TakesTakes
  <2>2. PICK pc \in {"mirroring", "streaming"} :
           req' = [req EXCEPT ![r] = [pc |-> pc, took |-> mine]]
    BY <2>1 DEF TakesThis
  <2>3. mine \in Session /\ mine.thread = Thread[r]
    BY <2>1 DEF TakesThis
  <2>. QED
    BY <1>4, <2>1, <2>2, <2>3
<1>9. ASSUME NEW r \in Requests, StreamEnds(r) PROVE Goal
  <2>1. PICK s : EndsWith(r, s)
    BY <1>9, EndsEnds
  <2>2. /\ s \in Session /\ s.thread = Thread[r]
        /\ req' = [req EXCEPT ![r] = [pc |-> "mirroring", took |-> s]]
    BY <2>1 DEF EndsWith
  <2>. QED
    BY <1>4, <2>1, <2>2
<1>10. ASSUME NEW r \in Requests, Saves(r) PROVE Goal
  <2>1. CASE Done(r)
    BY <2>1, <1>5
  <2>2. CASE Goto(r, "streaming")
    <3>1. Copy(req[r].took) /\ req[r].took.thread = Thread[r] /\ req[r].took # NoSession
      BY <1>10, Saves1 DEF Copy
    <3>2. req'[r].pc = "streaming" /\ req'[r].took = req[r].took
      BY <1>1, <2>2 DEF ReqOK, Goto
    <3>3. \A x \in Requests \ {r} : req'[x] = req[x]
      BY <1>1, <2>2 DEF ReqOK, Goto
    <3>4. req' \in [Requests -> [pc : {"new", "counting", "admitted", "streaming",
                                       "mirroring", "deleting", "done"},
                                 took : Session \union {NoSession}]]
      BY <1>1, <2>2 DEF ReqOK, Goto
    <3>. QED
      BY <1>1, <3>1, <3>2, <3>3, <3>4, TheCopies DEF ReqOK, Admits
  <2>. QED
    BY <1>10, <2>1, <2>2 DEF Saves
<1>11. ASSUME NEW r \in Requests, ResetTakes(r) PROVE Goal
  <2>1. PICK s : /\ Finds(Thread[r], s)
                 /\ IF s = NoSession THEN Done(r)
                    ELSE req' = [req EXCEPT ![r] = [pc |-> "deleting", took |-> s]]
    BY <1>11 DEF ResetTakes
  <2>2. s # NoSession => Copy(s) /\ s.thread = Thread[r] /\ s \in Session
    BY <2>1, Found2, Copies, ThreadsOfRequests
  <2>. QED
    BY <2>1, <2>2, <1>4, <1>5
<1>12. ASSUME NEW r \in Requests, StreamAborts(r) \/ ResetDeletes(r) PROVE Goal
  BY <1>12, <1>5 DEF StreamAborts, ResetDeletes
<1>13. ASSUME Restarted PROVE Goal
  <2>1. \A x \in Requests : \/ req'[x] = req[x] /\ req[x].pc = "new"
                            \/ req'[x].pc = "done" /\ req'[x].took = NoSession
    BY <1>1, <1>13 DEF ReqOK, Restarted
  <2>2. req' \in [Requests -> [pc : {"new", "counting", "admitted", "streaming",
                                     "mirroring", "deleting", "done"},
                               took : Session \union {NoSession}]]
    BY <1>1, <1>13 DEF ReqOK, Restarted
  <2>. QED
    BY <1>1, <2>1, <2>2, TheCopies DEF ReqOK, Admits
<1>14. ASSUME NEW r \in Requests, RedisForgets(r) PROVE Goal
  BY <1>14, <1>2 DEF RedisForgets
<1>15. ASSUME NEW t \in Threads, CleansUp(t) PROVE Goal
  BY <1>15, <1>2 DEF CleansUp
<1>16. ASSUME NEW n \in Notices, NEW s \in Requests, TaskFails(n, s) PROVE Goal
  BY <1>16, <1>2 DEF TaskFails
<1>17. ASSUME Stop \/ Tick \/ UNCHANGED vars PROVE Goal
  BY <1>17, <1>2 DEF Stop, Tick, vars
<1>. QED
  BY <1>6, <1>7, <1>8, <1>9, <1>10, <1>11, <1>12, <1>13, <1>14, <1>15, <1>16, <1>17
     DEF Next, Request, Restart, RestartTears

LEMMA Queues ==
    ASSUME QueueOK, now \in 0..MaxTime, NEW t \in Service,
           waiting' \in {waiting, Dequeued(t), Enqueued(t)}
    PROVE  QueueOK'
<1>1. Fresh \subseteq waiting /\ Dequeued(t) \subseteq waiting
  BY DEF Fresh, Dequeued
<1>2. CASE waiting' \subseteq waiting
  BY <1>2 DEF QueueOK, OnePlace
<1>3. CASE /\ ~ \E w \in Fresh : w.thread = t
           /\ waiting' = Fresh \union {[thread |-> t, at |-> now]}
  BY <1>1, <1>3 DEF QueueOK, OnePlace
<1>. QED
  BY <1>1, <1>2, <1>3 DEF Enqueued

LEMMA QueueStep ==
    ASSUME IInv, [Next]_vars
    PROVE  QueueOK'
<1>1. QueueOK /\ now \in 0..MaxTime
  BY PartsHold DEF Parts, OthersOK
<1>2. ASSUME UNCHANGED waiting PROVE QueueOK'
  BY <1>1, <1>2 DEF QueueOK, OnePlace
<1>3. ASSUME NEW r \in Requests, Arrives(r) PROVE QueueOK'
  <2>1. Thread[r] \in Service /\ waiting' \in {waiting, Dequeued(Thread[r])}
    BY <1>3 DEF Arrives, Admits
  <2>. QED
    BY <1>1, <2>1, Queues
<1>4. ASSUME NEW r \in Requests, Counts(r) PROVE QueueOK'
  <2>1. Admits(r)
    BY <1>4 DEF Counts, IInv, Placed
  <2>2. Thread[r] \in Service /\ waiting' \in {Enqueued(Thread[r]), Dequeued(Thread[r])}
    BY <1>4, <2>1 DEF Counts, Admits
  <2>. QED
    BY <1>1, <2>2, Queues
<1>5. ASSUME Restarted PROVE QueueOK'
  BY <1>5 DEF Restarted, QueueOK, OnePlace
<1>6. ASSUME NEW r \in Requests,
             Takes(r) \/ StreamEnds(r) \/ StreamAborts(r) \/ Saves(r) \/ ResetTakes(r)
             \/ ResetDeletes(r) \/ RedisForgets(r)
      PROVE  QueueOK'
  BY <1>6, <1>2
     DEF Takes, StreamEnds, StreamAborts, Saves, ResetTakes, ResetDeletes, RedisForgets
<1>7. ASSUME NEW t \in Threads, CleansUp(t) PROVE QueueOK'
  BY <1>7, <1>2 DEF CleansUp
<1>8. ASSUME NEW n \in Notices, NEW s \in Requests, TaskFails(n, s) PROVE QueueOK'
  BY <1>8, <1>2 DEF TaskFails
<1>9. ASSUME Stop \/ Tick \/ UNCHANGED vars PROVE QueueOK'
  BY <1>9, <1>2 DEF Stop, Tick, vars
<1>. QED
  BY <1>3, <1>4, <1>5, <1>6, <1>7, <1>8, <1>9 DEF Next, Request, Restart, RestartTears

\* The notices that wait, and those that were recorded.
LEMMA NoticesStep ==
    ASSUME IInv, [Next]_vars
    PROVE  /\ failed' \in [Requests -> SUBSET Notices] /\ told' \subseteq Notices
           /\ told \subseteq told'
           /\ \A x \in Requests : failed'[x] \subseteq failed[x] \union (told' \ told)
           /\ \A x \in Requests : failed'[x] \subseteq failed[x]
                                     \/ \E n \in Notices : TaskFails(n, x)
           /\ \A x, y \in Requests, n \in told' \ told :
                 n \in failed'[x] /\ n \in failed'[y] => x = y
<1>. DEFINE Goal == /\ failed' \in [Requests -> SUBSET Notices] /\ told' \subseteq Notices
                    /\ told \subseteq told'
                    /\ \A x \in Requests : failed'[x] \subseteq failed[x] \union (told' \ told)
                    /\ \A x \in Requests : failed'[x] \subseteq failed[x]
                                              \/ \E n \in Notices : TaskFails(n, x)
                    /\ \A x, y \in Requests, n \in told' \ told :
                          n \in failed'[x] /\ n \in failed'[y] => x = y
<1>1. failed \in [Requests -> SUBSET Notices] /\ told \subseteq Notices
  BY DEF IInv, TypeOK
<1>2. ASSUME UNCHANGED <<failed, told>> PROVE Goal
  BY <1>1, <1>2
<1>3. ASSUME NEW r \in Requests, Takes(r) PROVE Goal
  <2>1. PICK mine : TakesThis(r, mine)
    BY <1>3, TakesTakes
  <2>. QED
    BY <1>1, <2>1 DEF TakesThis
<1>4. ASSUME NEW n \in Notices, NEW s \in Requests, TaskFails(n, s) PROVE Goal
  <2>1. /\ n \notin told /\ told' = told \union {n}
        /\ failed' = [failed EXCEPT ![s] = @ \union {n}]
    BY <1>4 DEF TaskFails
  <2>2. \A x \in Requests : n \in failed[x] => n \in told
    BY DEF IInv, Noted
  <2>3. \A x \in Requests : failed'[x] \subseteq failed[x] \/ TaskFails(n, x)
    BY <1>1, <1>4, <2>1
  <2>. QED
    BY <1>1, <2>1, <2>2, <2>3
<1>5. ASSUME Restarted PROVE Goal
  BY <1>1, <1>5 DEF Restarted
<1>6. ASSUME NEW r \in Requests,
             Arrives(r) \/ Counts(r) \/ StreamEnds(r) \/ StreamAborts(r) \/ Saves(r)
             \/ ResetTakes(r) \/ ResetDeletes(r) \/ RedisForgets(r)
      PROVE  Goal
  BY <1>6, <1>2
     DEF Arrives, Counts, StreamEnds, StreamAborts, Saves, ResetTakes, ResetDeletes,
         RedisForgets, AtWork
<1>7. ASSUME NEW t \in Threads, CleansUp(t) PROVE Goal
  BY <1>7, <1>2 DEF CleansUp
<1>8. ASSUME Stop \/ Tick \/ UNCHANGED vars PROVE Goal
  BY <1>8, <1>2 DEF Stop, Tick, vars
<1>. QED
  BY <1>3, <1>4, <1>5, <1>6, <1>7, <1>8 DEF Next, Request, Restart, RestartTears

\* History: what is expected of a thread, and what is gone, is from a copy or
\* from what was expected.
HistoryStays == UNCHANGED history
HistorySaves(s) ==
    /\ expected' = [expected EXCEPT ![s.thread] =
                       IF s.thread \in excused THEN {} ELSE @ \union s.turns]
    /\ gone' = [gone EXCEPT ![s.thread] = IF s.thread \in excused THEN {} ELSE @]
HistoryDeletes(s) ==
    /\ expected' = [expected EXCEPT ![s.thread] = {}]
    /\ gone' = [gone EXCEPT ![s.thread] =
                   IF s.thread \in excused THEN {} ELSE @ \union s.turns \union expected[s.thread]]

\* Who deletes a session.
Deletes(s) ==
    \/ \E r \in Requests : ResetDeletes(r) /\ s = req[r].took
    \/ \E t \in Threads : CleansUp(t) /\ s = cache[t] /\ cache' = [cache EXCEPT ![t] = NoSession]

LEMMA HistoryStep ==
    ASSUME IInv, [Next]_vars
    PROVE  \/ HistoryStays
           \/ \E r \in Requests : Saves(r) /\ Copy(req[r].took) /\ HistorySaves(req[r].took)
           \/ \E s : Copy(s) /\ Deletes(s) /\ HistoryDeletes(s)
<1>. DEFINE Goal == \/ HistoryStays
                    \/ \E r \in Requests : /\ Saves(r) /\ Copy(req[r].took)
                                           /\ HistorySaves(req[r].took)
                    \/ \E s : Copy(s) /\ Deletes(s) /\ HistoryDeletes(s)
<1>1. ASSUME NEW r \in Requests, Saves(r) PROVE Goal
  <2>1. Copy(req[r].took) /\ req[r].took.thread = Thread[r]
    BY <1>1, Saves1
  <2>2. HistorySaves(req[r].took)
    BY <1>1, <2>1 DEF Saves, Expect, HistorySaves
  <2>. QED
    BY <1>1, <2>1, <2>2
<1>2. ASSUME NEW s, Copy(s), Deleted(s, s.thread), Deletes(s) PROVE Goal
  BY <1>2 DEF Deleted, Forget, HistoryDeletes
<1>3. ASSUME NEW r \in Requests, ResetDeletes(r) PROVE Goal
  BY <1>2, <1>3, ResetDeletes1 DEF Deletes
<1>4. ASSUME NEW t \in Threads, CleansUp(t) PROVE Goal
  <2>1. CASE cache[t] = NoSession
    BY <1>4, <2>1, NoSessionIsNone DEF CleansUp, HistoryStays
  <2>2. CASE cache[t] # NoSession
    BY <1>2, <1>4, <2>2, CleansUp1 DEF Deletes
  <2>. QED
    BY <2>1, <2>2
<1>5. ASSUME NEW r \in Requests,
             Arrives(r) \/ Counts(r) \/ Takes(r) \/ StreamEnds(r) \/ StreamAborts(r)
             \/ ResetTakes(r) \/ RedisForgets(r)
      PROVE  Goal
  BY <1>5 DEF Arrives, Counts, Takes, StreamEnds, StreamAborts, ResetTakes, RedisForgets,
              AtWork, HistoryStays, history
<1>6. ASSUME NEW n \in Notices, NEW s \in Requests, TaskFails(n, s) PROVE Goal
  BY <1>6 DEF TaskFails, HistoryStays, history
<1>7. ASSUME Stop \/ Tick \/ Restarted \/ UNCHANGED vars PROVE Goal
  BY <1>7 DEF Stop, Tick, Restarted, vars, HistoryStays, history
<1>. QED
  BY <1>1, <1>3, <1>4, <1>5, <1>6, <1>7 DEF Next, Request, Restart, RestartTears

LEMMA HistoryTyped ==
    ASSUME IInv, [Next]_vars
    PROVE  expected' \in [Threads -> SUBSET Turns] /\ gone' \in [Threads -> SUBSET Turns]
<1>1. expected \in [Threads -> SUBSET Turns] /\ gone \in [Threads -> SUBSET Turns]
  BY DEF IInv, TypeOK
<1>2. CASE HistoryStays
  BY <1>1, <1>2 DEF HistoryStays, history
<1>3. ASSUME NEW s, Copy(s), HistorySaves(s) \/ HistoryDeletes(s)
      PROVE  expected' \in [Threads -> SUBSET Turns] /\ gone' \in [Threads -> SUBSET Turns]
  <2>1. s.thread \in Threads /\ s.turns \subseteq Turns
    BY <1>3, Copies
  <2>2. CASE HistorySaves(s)
    BY <1>1, <2>1, <2>2 DEF HistorySaves
  <2>3. CASE HistoryDeletes(s)
    BY <1>1, <2>1, <2>3 DEF HistoryDeletes
  <2>. QED
    BY <1>3, <2>2, <2>3
<1>. QED
  BY <1>2, <1>3, HistoryStep

\* Which threads are excused, and which the clean-up is about to visit.
LEMMA ExcusedStep ==
    ASSUME IInv, [Next]_vars
    PROVE  excused \subseteq excused' /\ excused' \subseteq Threads
<1>. DEFINE Goal == excused \subseteq excused' /\ excused' \subseteq Threads
<1>1. excused \subseteq Threads /\ doomed \subseteq Threads
  BY DEF IInv, TypeOK
<1>2. ASSUME UNCHANGED excused PROVE Goal
  BY <1>1, <1>2
<1>3. ASSUME NEW t \in Threads, NEW c, Excuse(t, c) PROVE Goal
  BY <1>1, <1>3 DEF Excuse
<1>4. ASSUME NEW r \in Requests, Arrives(r) \/ Takes(r) \/ ResetTakes(r) PROVE Goal
  BY <1>4, <1>3, ThreadsOfRequests DEF Arrives, Takes, ResetTakes
<1>5. ASSUME NEW r \in Requests, Saves(r) \/ RestartTears(r) PROVE Goal
  BY <1>5, <1>2, <1>3, ThreadsOfRequests DEF Saves, RestartTears
<1>6. ASSUME NEW s, NEW t \in Threads, Deleted(s, t) PROVE Goal
  BY <1>6, <1>2, <1>3 DEF Deleted
<1>7. ASSUME NEW r \in Requests, ResetDeletes(r) PROVE Goal
  BY <1>7, <1>6, ThreadsOfRequests DEF ResetDeletes
<1>8. ASSUME NEW t \in Threads, CleansUp(t) PROVE Goal
  BY <1>8, <1>2, <1>6 DEF CleansUp
<1>9. ASSUME Stop PROVE Goal
  BY <1>1, <1>9 DEF Stop
<1>10. ASSUME NEW r \in Requests,
              Counts(r) \/ StreamEnds(r) \/ StreamAborts(r) \/ RedisForgets(r)
       PROVE  Goal
  BY <1>10, <1>2 DEF Counts, StreamEnds, StreamAborts, RedisForgets
<1>11. ASSUME NEW n \in Notices, NEW s \in Requests, TaskFails(n, s) PROVE Goal
  BY <1>11, <1>2 DEF TaskFails
<1>12. ASSUME Tick \/ Restart \/ UNCHANGED vars PROVE Goal
  BY <1>12, <1>2 DEF Tick, Restart, vars
<1>. QED
  BY <1>4, <1>5, <1>7, <1>8, <1>9, <1>10, <1>11, <1>12 DEF Next, Request

LEMMA ClockStep ==
    ASSUME IInv, [Next]_vars
    PROVE  /\ now' \in 0..MaxTime /\ restarts' \in 0..MaxRestarts
           /\ doomed' \subseteq Threads /\ stopping' \in BOOLEAN
<1>. DEFINE Goal == /\ now' \in 0..MaxTime /\ restarts' \in 0..MaxRestarts
                    /\ doomed' \subseteq Threads /\ stopping' \in BOOLEAN
<1>1. /\ now \in 0..MaxTime /\ restarts \in 0..MaxRestarts
      /\ doomed \subseteq Threads /\ stopping \in BOOLEAN
      /\ MaxTime \in Nat /\ MaxRestarts \in Nat
  BY SessionConstants DEF IInv, TypeOK
<1>2. ASSUME UNCHANGED <<now, doomed, stopping, restarts>> PROVE Goal
  BY <1>1, <1>2
<1>3. ASSUME NEW r \in Requests, Request(r) \/ RedisForgets(r) PROVE Goal
  BY <1>3, <1>2
     DEF Request, Arrives, Counts, Takes, StreamEnds, StreamAborts, Saves, ResetTakes,
         ResetDeletes, RedisForgets, AtWork
<1>4. ASSUME Restarted PROVE Goal
  <2>1. /\ restarts < MaxRestarts /\ restarts' = restarts + 1
        /\ doomed' = {} /\ stopping' = FALSE /\ now' = now
    BY <1>4, Zenon DEF Restarted
  <2>2. restarts' \in 0..MaxRestarts /\ now' \in 0..MaxTime
    BY <1>1, <2>1
  <2>3. doomed' \subseteq Threads /\ stopping' \in BOOLEAN
    BY <2>1, Zenon
  <2>. QED
    BY <2>2, <2>3
<1>5. ASSUME NEW n \in Notices, NEW s \in Requests, TaskFails(n, s) PROVE Goal
  BY <1>5, <1>2 DEF TaskFails
<1>6. ASSUME Stop PROVE Goal
  BY <1>1, <1>6 DEF Stop
<1>7. ASSUME NEW t \in Threads, CleansUp(t) PROVE Goal
  BY <1>1, <1>7 DEF CleansUp
<1>8. ASSUME Tick PROVE Goal
  BY <1>1, <1>8 DEF Tick
<1>9. ASSUME UNCHANGED vars PROVE Goal
  BY <1>9, <1>2 DEF vars
<1>. QED
  BY <1>3, <1>4, <1>5, <1>6, <1>7, <1>8, <1>9 DEF Next, Restart, RestartTears

LEMMA PartsStep ==
    ASSUME IInv, [Next]_vars
    PROVE  TypeOK' /\ Placed' /\ OnePlace'
<1>1. RedisOK' /\ CacheOK' /\ FileOK' /\ ReqOK' /\ QueueOK'
  BY RecStep, CacheStep, FileStep, ReqStep, QueueStep
<1>2. OthersOK'
  BY NoticesStep, HistoryTyped, ExcusedStep, ClockStep DEF OthersOK
<1>. QED
  BY <1>1, <1>2, PartsAreAllThen DEF Parts

-----------------------------------------------------------------------------
(* Copies, and their turns.                                                *)

\* Every copy was one, or has just been made by a step.
LEMMA CopiesStep ==
    ASSUME IInv, [Next]_vars, NEW s, Copy(s)'
    PROVE  \/ Copy(s)
           \/ \E r \in Requests : TakesThis(r, s) \/ EndsWith(r, s)
<1>1. s # NoSession
  BY DEF Copy
<1>2. CASE \E t \in Threads : s = cache'[t]
  BY <1>1, <1>2, CacheStep
<1>3. CASE \E x \in Requests : s = file'[x]
  BY <1>1, <1>3, FileStep, TheCopies
<1>4. CASE \E x \in Requests : s = rec'[x]
  BY <1>1, <1>4, RecStep
<1>5. CASE \E x \in Requests : s = req'[x].took
  BY <1>1, <1>5, ReqStep
<1>. QED
  BY <1>2, <1>3, <1>4, <1>5 DEF Copy

\* A request goes forward, and what it has said stays said.
LEMMA Forward ==
    ASSUME IInv, [Next]_vars, NEW x \in Requests
    PROVE  /\ Taken(x) => Taken(x)'
           /\ Said(x) => Said(x)'
<1>. DEFINE Goal == (Taken(x) => Taken(x)') /\ (Said(x) => Said(x)')
<1>1. ReqOK
  BY PartsHold DEF Parts
<1>2. ASSUME req'[x] = req[x] PROVE Goal
  BY <1>2 DEF Taken, Said
<1>3. ASSUME req'[x].pc = "done" PROVE Goal
  BY <1>3 DEF Taken, Said, Before
<1>4. ASSUME req[x].pc \in Before PROVE Goal
  BY <1>4 DEF Taken, Said, Before
<1>5. ASSUME NEW r \in Requests, Arrives(r) \/ Counts(r) \/ Takes(r) \/ ResetTakes(r)
      PROVE  Goal
  <2>1. req[r].pc \in Before
    BY <1>5 DEF Arrives, Counts, Takes, ResetTakes, Ready, Before
  <2>2. x # r => req'[x] = req[x]
    BY <1>1, <1>5 DEF Arrives, Counts, Takes, ResetTakes, Goto, Done, ReqOK
  <2>. QED
    BY <1>2, <1>4, <2>1, <2>2
<1>6. ASSUME NEW r \in Requests, StreamAborts(r) \/ ResetDeletes(r) PROVE Goal
  <2>1. IF x = r THEN req'[x].pc = "done" ELSE req'[x] = req[x]
    BY <1>1, <1>6 DEF StreamAborts, ResetDeletes, Done, ReqOK
  <2>. QED
    BY <1>2, <1>3, <2>1
<1>7. ASSUME NEW r \in Requests, StreamEnds(r) PROVE Goal
  <2>1. IF x = r THEN req[x].pc = "streaming" /\ req'[x].pc = "mirroring"
                 ELSE req'[x] = req[x]
    BY <1>1, <1>7 DEF StreamEnds, ReqOK
  <2>. QED
    BY <1>2, <2>1 DEF Taken, Said, Before
<1>8. ASSUME NEW r \in Requests, Saves(r) PROVE Goal
  <2>1. CASE x # r
    BY <1>1, <1>2, <1>8, <2>1 DEF Saves, Done, Goto, ReqOK
  <2>2. CASE x = r /\ r \in req[r].took.turns
    BY <1>1, <1>3, <1>8, <2>2 DEF Saves, Done, ReqOK
  <2>3. CASE x = r /\ r \notin req[r].took.turns
    <3>1. req[x].pc = "mirroring" /\ req'[x].pc = "streaming"
      BY <1>1, <1>8, <2>3 DEF Saves, Goto, ReqOK
    <3>. QED
      BY <2>3, <3>1 DEF Taken, Said, Before
  <2>. QED
    BY <2>1, <2>2, <2>3
<1>9. ASSUME Restarted PROVE Goal
  <2>1. req'[x].pc = "done" \/ (req'[x] = req[x])
    BY <1>1, <1>9 DEF Restarted, ReqOK
  <2>. QED
    BY <1>2, <1>3, <2>1
<1>10. ASSUME UNCHANGED req PROVE Goal
  BY <1>2, <1>10
<1>11. ASSUME NEW t \in Threads, CleansUp(t) PROVE Goal
  BY <1>10, <1>11 DEF CleansUp
<1>12. ASSUME NEW n \in Notices, NEW s \in Requests, TaskFails(n, s) PROVE Goal
  BY <1>10, <1>12 DEF TaskFails
<1>13. ASSUME NEW r \in Requests, RedisForgets(r) PROVE Goal
  BY <1>10, <1>13 DEF RedisForgets
<1>14. ASSUME Stop \/ Tick \/ UNCHANGED vars PROVE Goal
  BY <1>10, <1>14 DEF Stop, Tick, vars
<1>. QED
  BY <1>5, <1>6, <1>7, <1>8, <1>9, <1>11, <1>12, <1>13, <1>14
     DEF Next, Request, Restart, RestartTears

LEMMA UtteredStep ==
    ASSUME IInv, [Next]_vars
    PROVE  Uttered \subseteq Uttered'
<1>1. ASSUME NEW r \in Requests, Said(r) PROVE r \in Uttered'
  BY <1>1, Forward DEF Uttered
<1>2. ASSUME NEW n \in told, ~Pending(n) PROVE n \in Uttered'
  <2>1. n \in told'
    BY NoticesStep
  <2>2. ~Pending(n)'
    BY <1>2, NoticesStep DEF Pending
  <2>. QED
    BY <2>1, <2>2 DEF Uttered
<1>. QED
  BY <1>1, <1>2 DEF Uttered

\* What a notice waits for has been made.
LEMMA WaitsForTaken ==
    ASSUME IInv, NEW n \in Notices, NEW x \in Requests, TaskFails(n, x)
    PROVE  Taken(x)
<1>1. CASE req[Spawner[n]].took # NoSession /\ req[Spawner[n]].took.sid = x
  <2>1. Spawner[n] \in Requests
    BY SessionConstants
  <2>. QED
    BY <1>1, <2>1, TheCopies, Copies
<1>2. CASE file[x] # NoSession
  <2>1. Copy(file[x]) /\ file[x].sid = x
    BY <1>2, TheCopies DEF IInv, Placed
  <2>. QED
    BY <2>1, Copies
<1>. QED
  BY <1>1, <1>2 DEF TaskFails

LEMMA SoundStep ==
    ASSUME IInv, [Next]_vars
    PROVE  Sound'
<1>1. ASSUME NEW s, Copy(s)
      PROVE  s.thread = Thread[s.sid] /\ Taken(s.sid)' /\ s.turns \subseteq Uttered'
  BY <1>1, Copies, Forward, UtteredStep
<1>2. ASSUME NEW s, NEW r \in Requests, TakesThis(r, s)
      PROVE  s.thread = Thread[s.sid] /\ Taken(s.sid)' /\ s.turns \subseteq Uttered'
  <2>1. s \in Session /\ s.sid \in Requests /\ s.thread = Thread[s.sid]
    BY <1>2, Fields DEF TakesThis
  <2>2. Taken(s.sid)'
    <3>1. CASE s.sid = r
      <4>1. req'[r].pc \in {"mirroring", "streaming"}
        BY <1>2, PartsHold DEF TakesThis, Parts, ReqOK
      <4>. QED
        BY <3>1, <4>1 DEF Taken, Before
    <3>2. CASE \E o : Copy(o) /\ o.sid = s.sid
      BY <1>1, <3>2
    <3>. QED
      BY <1>2, <3>1, <3>2 DEF TakesThis
  <2>3. failed[s.sid] \subseteq Uttered'
    <3>1. /\ failed' = [failed EXCEPT ![s.sid] = {}] /\ told' = told
          /\ failed \in [Requests -> SUBSET Notices]
      BY <1>2 DEF TakesThis, IInv, TypeOK
    <3>2. ASSUME NEW n \in failed[s.sid] PROVE n \in told' /\ ~Pending(n)'
      BY <2>1, <3>1 DEF IInv, Noted, Pending
    <3>. QED
      BY <3>2 DEF Uttered
  <2>4. s.turns \subseteq Uttered'
    BY <1>1, <1>2, <2>3 DEF TakesThis
  <2>. QED
    BY <2>1, <2>2, <2>4
<1>3. ASSUME NEW s, NEW r \in Requests, EndsWith(r, s)
      PROVE  s.thread = Thread[s.sid] /\ Taken(s.sid)' /\ s.turns \subseteq Uttered'
  <2>1. /\ Copy(req[r].took) /\ s.sid = req[r].took.sid /\ s.thread = req[r].took.thread
        /\ s.turns = req[r].took.turns \union {r}
    BY <1>3 DEF EndsWith
  <2>2. Said(r)'
    <3>1. req'[r].pc = "mirroring" /\ req'[r].took = s
      BY <1>3, PartsHold DEF EndsWith, Parts, ReqOK
    <3>. QED
      BY <2>1, <3>1 DEF Said
  <2>. QED
    BY <1>1, <2>1, <2>2 DEF Uttered
<1>4. ASSUME NEW s, Copy(s)'
      PROVE  s.thread = Thread[s.sid] /\ Taken(s.sid)' /\ s.turns \subseteq Uttered'
  BY <1>1, <1>2, <1>3, <1>4, CopiesStep
<1>5. ASSUME NEW x \in Requests, failed'[x] # {} PROVE Taken(x)'
  <2>1. Taken(x)
    BY <1>5, NoticesStep, WaitsForTaken DEF IInv, Sound
  <2>. QED
    BY <2>1, Forward
<1>. QED
  BY <1>4, <1>5 DEF Sound, Taken

LEMMA NotedStep ==
    ASSUME IInv, [Next]_vars
    PROVE  Noted'
<1>1. \A x, y \in Requests : failed'[x] \intersect failed'[y] # {} => x = y
  <2>1. /\ \A x \in Requests : failed[x] \subseteq told
        /\ \A x, y \in Requests : failed[x] \intersect failed[y] # {} => x = y
    BY DEF IInv, Noted
  <2>. QED
    BY <2>1, NoticesStep
<1>2. \A x \in Requests : failed'[x] \subseteq told'
  BY NoticesStep DEF IInv, Noted
<1>3. ASSUME NEW t \in Threads
      PROVE  expected'[t] \subseteq Uttered' /\ gone'[t] \subseteq Uttered'
  <2>1. expected[t] \subseteq Uttered' /\ gone[t] \subseteq Uttered'
    BY UtteredStep DEF IInv, Noted
  <2>2. expected \in [Threads -> SUBSET Turns] /\ gone \in [Threads -> SUBSET Turns]
    BY DEF IInv, TypeOK
  <2>3. CASE HistoryStays
    BY <2>1, <2>3 DEF HistoryStays, history
  <2>4. ASSUME NEW s, Copy(s), HistorySaves(s) \/ HistoryDeletes(s)
        PROVE  expected'[t] \subseteq Uttered' /\ gone'[t] \subseteq Uttered'
    <3>1. s.turns \subseteq Uttered' /\ s.thread \in Threads
      BY <2>4, Copies, UtteredStep
    <3>2. CASE HistorySaves(s)
      BY <2>1, <2>2, <3>1, <3>2 DEF HistorySaves
    <3>3. CASE HistoryDeletes(s)
      BY <2>1, <2>2, <3>1, <3>3 DEF HistoryDeletes
    <3>. QED
      BY <2>4, <3>2, <3>3
  <2>. QED
    BY <2>3, <2>4, HistoryStep
<1>. QED
  BY <1>1, <1>2, <1>3 DEF Noted

-----------------------------------------------------------------------------
(* Requests on one thread, and the copies of its session.                  *)

LEMMA OneByOneStep ==
    ASSUME IInv, [Next]_vars
    PROVE  OneByOne'
<1>. SUFFICES ASSUME NEW t \in Threads \ excused'
              PROVE  /\ \A r, q \in InFlight(t)' : r = q
                     /\ t \in doomed' => InFlight(t)' = {}
  BY PartsStep DEF OneByOne, TypeOK
<1>. DEFINE Goal == /\ \A r, q \in InFlight(t)' : r = q
                    /\ t \in doomed' => InFlight(t)' = {}
<1>1. /\ \A r, q \in InFlight(t) : r = q
      /\ t \in doomed => InFlight(t) = {}
  BY ExcusedStep DEF IInv, OneByOne
<1>2. ReqOK
  BY PartsHold DEF Parts
<1>3. ASSUME doomed' \subseteq doomed, InFlight(t)' \subseteq InFlight(t) PROVE Goal
  BY <1>1, <1>3
<1>4. ASSUME UNCHANGED <<req, doomed>> PROVE Goal
  BY <1>3, <1>4 DEF InFlight
<1>5. ASSUME NEW r \in Requests, \A x \in Requests \ {r} : req'[x] = req[x],
             doomed' = doomed, Excuse(Thread[r], Overlaps(r))
      PROVE  Goal
  <2>1. CASE Thread[r] # t
    BY <1>3, <1>5, <2>1 DEF InFlight
  <2>2. CASE Thread[r] = t
    <3>1. ~Overlaps(r)
      BY <1>5, <2>2 DEF Excuse
    <3>. QED
      BY <1>5, <2>2, <3>1 DEF Overlaps, InFlight
  <2>. QED
    BY <2>1, <2>2
<1>6. ASSUME NEW r \in Requests, Arrives(r) \/ Takes(r) \/ ResetTakes(r) PROVE Goal
  <2>1. \A x \in Requests \ {r} : req'[x] = req[x]
    BY <1>2, <1>6 DEF Arrives, Takes, ResetTakes, Goto, Done, ReqOK
  <2>2. doomed' = doomed /\ Excuse(Thread[r], Overlaps(r))
    BY <1>6 DEF Arrives, Takes, ResetTakes, AtWork
  <2>. QED
    BY <1>5, <2>1, <2>2
<1>7. ASSUME NEW r \in Requests,
             Counts(r) \/ StreamEnds(r) \/ StreamAborts(r) \/ Saves(r) \/ ResetDeletes(r)
      PROVE  Goal
  <2>1. \A x \in Requests \ {r} : req'[x] = req[x]
    BY <1>2, <1>7 DEF Counts, StreamEnds, StreamAborts, Saves, ResetDeletes, Goto, Done, ReqOK
  <2>2. req[r].pc \notin {"new", "done"}
    BY <1>7 DEF Counts, StreamEnds, StreamAborts, Saves, ResetDeletes
  <2>3. doomed' = doomed
    BY <1>7 DEF Counts, StreamEnds, StreamAborts, Saves, ResetDeletes, AtWork
  <2>. QED
    BY <1>3, <2>1, <2>2, <2>3 DEF InFlight
<1>8. ASSUME Restarted PROVE Goal
  <2>1. \A x \in Requests : req'[x].pc \in {"new", "done"}
    BY <1>2, <1>8 DEF Restarted, ReqOK
  <2>. QED
    BY <2>1 DEF InFlight
<1>9. ASSUME Stop PROVE Goal
  <2>1. InFlight(t)' = InFlight(t)
    BY <1>9 DEF Stop, InFlight
  <2>2. t \in doomed' => InFlight(t) = {}
    BY <1>9 DEF Stop
  <2>. QED
    BY <1>1, <2>1, <2>2
<1>10. ASSUME NEW x \in Threads, CleansUp(x) PROVE Goal
  BY <1>3, <1>10 DEF CleansUp, InFlight
<1>11. ASSUME NEW r \in Requests, RedisForgets(r) PROVE Goal
  BY <1>4, <1>11 DEF RedisForgets
<1>12. ASSUME NEW n \in Notices, NEW s \in Requests, TaskFails(n, s) PROVE Goal
  BY <1>4, <1>12 DEF TaskFails
<1>13. ASSUME Tick \/ UNCHANGED vars PROVE Goal
  BY <1>4, <1>13 DEF Tick, vars
<1>. QED
  BY <1>6, <1>7, <1>8, <1>9, <1>10, <1>11, <1>12, <1>13
     DEF Next, Request, Restart, RestartTears

\* A step makes one session, or adds to one.
LEMMA OneMade ==
    ASSUME IInv, NEW r \in Requests, NEW q \in Requests, NEW s, NEW o,
           TakesThis(r, s) \/ EndsWith(r, s), TakesThis(q, o) \/ EndsWith(q, o)
    PROVE  r = q /\ s = o /\ (TakesThis(r, s) => ~EndsWith(r, s))
<1>1. ReqOK
  BY PartsHold DEF Parts
<1>2. ASSUME NEW p \in Requests, NEW u, TakesThis(p, u) \/ EndsWith(p, u)
      PROVE  /\ req'[p].took = u /\ req'[p].pc # req[p].pc
             /\ \A x \in Requests \ {p} : req'[x] = req[x]
  <2>1. CASE TakesThis(p, u)
    BY <1>1, <2>1 DEF TakesThis, ReqOK, Before
  <2>2. CASE EndsWith(p, u)
    BY <1>1, <2>2 DEF EndsWith, ReqOK
  <2>. QED
    BY <1>2, <2>1, <2>2
<1>3. r = q /\ s = o
  BY <1>2
<1>4. TakesThis(r, s) => ~EndsWith(r, s)
  BY DEF TakesThis, EndsWith, Before
<1>. QED
  BY <1>3, <1>4

\* A request that takes its session from none, undisturbed, is on a thread
\* of which there is no copy, and nothing is expected.
LEMMA FromNone ==
    ASSUME IInv, NEW r \in Requests, NEW s, TakesThis(r, s),
           Thread[r] \notin excused',
           cache[Thread[r]] = NoSession, FilesOf(Thread[r]) = {}
    PROVE  /\ \A o : Copy(o) => o.thread # Thread[r]
           /\ expected[Thread[r]] = {}
<1>1. Thread[r] \notin excused /\ ~Overlaps(r) /\ Thread[r] \in Threads
  BY ThreadsOfRequests DEF TakesThis
<1>2. ASSUME NEW x \in Requests, file[x] # NoSession PROVE Thread[x] # Thread[r]
  <2>1. file[x].thread = Thread[x]
    BY <1>2, TheCopies, Copies DEF IInv, Placed
  <2>. QED
    BY <1>2, <2>1 DEF FilesOf
<1>3. ASSUME NEW x \in Requests, rec[x] # NoSession PROVE Thread[x] # Thread[r]
  BY <1>1, <1>2, <1>3 DEF IInv, Filed
<1>4. ASSUME NEW x \in Requests, req[x].took # NoSession PROVE Thread[x] # Thread[r]
  <2>1. x # r
    BY <1>4 DEF TakesThis
  <2>2. req[x].pc \notin {"new", "done"}
    BY <1>4 DEF IInv, Placed
  <2>. QED
    BY <1>1, <2>1, <2>2 DEF Overlaps, InFlight
<1>5. ASSUME NEW o, Copy(o) PROVE o.thread # Thread[r]
  <2>1. CASE \E t \in Threads : o = cache[t]
    BY <1>5, <2>1 DEF Copy, IInv, Placed
  <2>2. CASE \E x \in Requests : o = file[x] \/ o = rec[x]
    <3>1. PICK x \in Requests : o = file[x] \/ o = rec[x]
      BY <2>2
    <3>2. o.sid = x /\ o.thread = Thread[x]
      BY <1>5, <3>1, Copies DEF Copy, IInv, Placed
    <3>. QED
      BY <1>2, <1>3, <1>5, <3>1, <3>2 DEF Copy
  <2>3. CASE \E x \in Requests : o = req[x].took
    BY <1>4, <1>5, <2>3 DEF Copy, IInv, Placed
  <2>. QED
    BY <1>5, <2>1, <2>2, <2>3 DEF Copy
<1>6. expected[Thread[r]] = {}
  BY <1>1, <1>2 DEF IInv, Filed
<1>. QED
  BY <1>5, <1>6

\* Where a copy comes from: from a copy of the same session, which has no
\* turn that it does not have, or there was none on its thread.
LEMMA Origin ==
    ASSUME IInv, [Next]_vars, NEW s, Copy(s)', s.thread \notin excused'
    PROVE  \/ \E c : Copy(c) /\ c.sid = s.sid /\ c.thread = s.thread /\ c.turns \subseteq s.turns
           \/ /\ \E r \in Requests : TakesThis(r, s)
              /\ \A c : Copy(c) => c.thread # s.thread
<1>1. CASE Copy(s)
  BY <1>1
<1>2. ASSUME NEW r \in Requests, EndsWith(r, s)
      PROVE  \E c : Copy(c) /\ c.sid = s.sid /\ c.thread = s.thread /\ c.turns \subseteq s.turns
  BY <1>2 DEF EndsWith
<1>3. ASSUME NEW r \in Requests, TakesThis(r, s)
      PROVE  \/ \E c : /\ Copy(c) /\ c.sid = s.sid /\ c.thread = s.thread
                       /\ c.turns \subseteq s.turns
             \/ \A c : Copy(c) => c.thread # s.thread
  <2>1. s.thread = Thread[r]
    BY <1>3 DEF TakesThis
  <2>2. CASE \E c : Copy(c) /\ c.thread = Thread[r] /\ c.sid = s.sid
                    /\ s.turns = c.turns \union failed[s.sid]
    BY <2>1, <2>2
  <2>3. CASE cache[Thread[r]] = NoSession /\ FilesOf(Thread[r]) = {}
    BY <1>3, <2>1, <2>3, FromNone
  <2>. QED
    BY <1>3, <2>2, <2>3 DEF TakesThis
<1>. QED
  BY <1>1, <1>2, <1>3, CopiesStep

LEMMA SingleStep ==
    ASSUME IInv, [Next]_vars
    PROVE  Single'
<1>. SUFFICES ASSUME NEW s, NEW o, Copy(s)', Copy(o)', s.thread = o.thread,
                     s.thread \notin excused'
              PROVE  s.sid = o.sid
  BY DEF Single
<1>1. ASSUME NEW c, NEW d, Copy(c), Copy(d), c.thread = s.thread, d.thread = s.thread
      PROVE  c.sid = d.sid
  BY <1>1, ExcusedStep DEF IInv, Single
<1>2. CASE \A c : Copy(c) => c.thread # s.thread
  <2>1. PICK r \in Requests : TakesThis(r, s)
    BY <1>2, Origin
  <2>2. PICK q \in Requests : TakesThis(q, o)
    BY <1>2, Origin
  <2>. QED
    BY <2>1, <2>2, OneMade
<1>3. CASE \E c : Copy(c) /\ c.thread = s.thread
  <2>1. PICK c : Copy(c) /\ c.sid = s.sid /\ c.thread = s.thread
    BY <1>3, Origin
  <2>2. PICK d : Copy(d) /\ d.sid = o.sid /\ d.thread = s.thread
    BY <1>3, Origin
  <2>. QED
    BY <1>1, <2>1, <2>2
<1>. QED
  BY <1>2, <1>3

\* A copy in a place of Redis or of the files belongs there.
LEMMA Belongs ==
    ASSUME IInv, NEW x \in Requests, NEW s, s # NoSession, s = file[x] \/ s = rec[x]
    PROVE  Copy(s) /\ s.sid = x /\ s.thread = Thread[x]
<1>1. Copy(s) /\ s.sid = x
  BY TheCopies DEF IInv, Placed
<1>. QED
  BY <1>1, Copies

\* When a request has saved, and no write was lost, what it has saved is all
\* there is of its thread.
LEMMA SavedIsAll ==
    ASSUME IInv, [Next]_vars, NEW r \in Requests, Saves(r), NEW s, Copy(s), Copy(s)',
           s.thread = Thread[r], Thread[r] \notin excused'
    PROVE  s = req[r].took
<1>. DEFINE took == req[r].took
            t == Thread[r]
<1>1. /\ Copy(took) /\ took.thread = t /\ took.sid \in Requests /\ t \in Threads
      /\ t \notin excused /\ s # NoSession
  BY Saves1, Copies, ExcusedStep, ThreadsOfRequests DEF Copy
<1>2. s.sid = took.sid
  BY <1>1 DEF IInv, Single
<1>3. rec'[took.sid] = took
  BY <1>1, Saves1
<1>4. file' = file /\ cache' = [cache EXCEPT ![t] = took]
  BY DEF Saves
<1>5. file[took.sid] = took
  BY <1>1 DEF Saves, IInv, Filed
<1>6. CASE \E u \in Threads : s = cache'[u]
  <2>1. PICK u \in Threads : s = cache'[u]
    BY <1>6
  <2>2. s.thread = u
    BY <1>1, <2>1, PartsStep DEF Placed
  <2>. QED
    BY <1>1, <1>4, <2>1, <2>2 DEF IInv, TypeOK
<1>7. CASE \E x \in Requests : s = file'[x] \/ s = rec'[x]
  <2>1. PICK x \in Requests : s = file'[x] \/ s = rec'[x]
    BY <1>7
  <2>2. s.sid = x
    BY <1>1, <2>1, PartsStep DEF Placed
  <2>. QED
    BY <1>2, <1>3, <1>4, <1>5, <2>1, <2>2
<1>8. CASE \E x \in Requests : s = req'[x].took
  <2>1. PICK x \in Requests : s = req'[x].took
    BY <1>8
  <2>2. Thread[x] = t /\ req'[x].pc \in {"streaming", "mirroring", "deleting"}
    BY <1>1, <2>1, PartsStep DEF Placed
  <2>3. x \in InFlight(t)' /\ x \in InFlight(t)
    BY <2>2, PartsHold DEF InFlight, Saves, Goto, Done, Parts, ReqOK
  <2>4. r \in InFlight(t)
    BY DEF InFlight, Saves
  <2>5. x = r
    BY <1>1, <2>3, <2>4 DEF IInv, OneByOne
  <2>6. req'[r].took \in {took, NoSession}
    BY PartsHold DEF Saves, Goto, Done, Parts, ReqOK
  <2>. QED
    BY <1>1, <2>1, <2>5, <2>6
<1>. QED
  BY <1>6, <1>7, <1>8 DEF Copy

\* When a session has been deleted, and no write was lost, nothing is left.
LEMMA DeletedIsGone ==
    ASSUME IInv, [Next]_vars, NEW d, Copy(d), Deletes(d), NEW s, Copy(s), Copy(s)',
           s.thread = d.thread, d.thread \notin excused'
    PROVE  FALSE
<1>. DEFINE t == d.thread
<1>1. t \in Threads /\ t \notin excused /\ s # NoSession /\ d.sid \in Requests
  BY Copies, ExcusedStep DEF Copy
<1>2. s.sid = d.sid
  BY <1>1 DEF IInv, Single
<1>3. Deleted(d, t) /\ d # NoSession
  BY ResetDeletes1, CleansUp1 DEF Deletes, Copy
<1>4. file'[d.sid] = NoSession /\ rec'[d.sid] = NoSession
  <2>1. /\ file' = [file EXCEPT ![d.sid] = NoSession]
        /\ rec'[d.sid] = NoSession
    BY <1>1, <1>3, Deleted1
  <2>. QED
    BY <2>1, <1>1, PartsHold DEF Parts, FileOK
<1>5. cache'[t] = NoSession
  <2>1. ASSUME NEW r \in Requests, ResetDeletes(r), d = req[r].took PROVE cache'[t] = NoSession
    <3>1. Thread[r] = t /\ req[r].pc = "deleting" /\ cache' = cache
      BY <2>1, ResetDeletes1 DEF ResetDeletes
    <3>. QED
      BY <1>1, <3>1 DEF IInv, Filed
  <2>2. ASSUME NEW u \in Threads, d = cache[u], cache' = [cache EXCEPT ![u] = NoSession]
        PROVE  cache'[t] = NoSession
    <3>1. u = t
      BY <1>3, <2>2 DEF IInv, Placed
    <3>. QED
      BY <2>2, <3>1 DEF IInv, TypeOK
  <2>. QED
    BY <2>1, <2>2 DEF Deletes
<1>6. \A x \in Requests : Thread[x] = t => req'[x].took = NoSession
  <2>1. ASSUME NEW r \in Requests, ResetDeletes(r), d = req[r].took,
               NEW x \in Requests, Thread[x] = t
        PROVE  req'[x].took = NoSession
    <3>1. Thread[r] = t /\ r \in InFlight(t)
      BY <2>1, ResetDeletes1 DEF ResetDeletes, InFlight
    <3>2. CASE x = r
      BY <2>1, <3>2, PartsHold DEF ResetDeletes, Done, Parts, ReqOK
    <3>3. CASE x # r
      <4>1. x \notin InFlight(t)
        BY <1>1, <3>1, <3>3 DEF IInv, OneByOne
      <4>2. req[x].took = NoSession
        BY <2>1, <4>1 DEF InFlight, IInv, Placed
      <4>3. req'[x] = req[x]
        BY <2>1, <3>3, PartsHold DEF ResetDeletes, Done, Parts, ReqOK
      <4>. QED
        BY <4>2, <4>3
    <3>. QED
      BY <3>2, <3>3
  <2>2. ASSUME NEW u \in Threads, CleansUp(u), d = cache[u],
               NEW x \in Requests, Thread[x] = t
        PROVE  req'[x].took = NoSession
    <3>1. u = t /\ t \in doomed /\ req' = req
      BY <1>3, <2>2 DEF IInv, Placed, CleansUp
    <3>2. x \notin InFlight(t)
      BY <1>1, <3>1 DEF IInv, OneByOne
    <3>. QED
      BY <2>2, <3>1, <3>2 DEF InFlight, IInv, Placed
  <2>. QED
    BY <2>1, <2>2 DEF Deletes
<1>7. ~ \E u \in Threads : s = cache'[u]
  BY <1>1, <1>5, PartsStep DEF Placed
<1>8. ~ \E x \in Requests : s = file'[x] \/ s = rec'[x]
  BY <1>1, <1>2, <1>4, PartsStep DEF Placed
<1>9. ~ \E x \in Requests : s = req'[x].took
  BY <1>1, <1>6, PartsStep DEF Placed
<1>. QED
  BY <1>7, <1>8, <1>9 DEF Copy

LEMMA FaithfulStep ==
    ASSUME IInv, [Next]_vars
    PROVE  Faithful'
<1>. SUFFICES ASSUME NEW s, Copy(s)', s.thread \notin excused'
              PROVE  /\ expected'[s.thread] \subseteq s.turns
                     /\ gone'[s.thread] \intersect s.turns = {}
  BY DEF Faithful
<1>. DEFINE t == s.thread
            Goal == /\ expected'[t] \subseteq s.turns
                    /\ gone'[t] \intersect s.turns = {}
<1>1. t \notin excused
  BY ExcusedStep
<1>2. ASSUME NEW c, Copy(c), c.thread = t
      PROVE  expected[t] \subseteq c.turns /\ gone[t] \intersect c.turns = {}
  BY <1>1, <1>2 DEF IInv, Faithful
<1>3. CASE \E r \in Requests : TakesThis(r, s)
  <2>1. PICK r \in Requests : TakesThis(r, s)
    BY <1>3
  <2>2. /\ s.sid \in Requests /\ t = Thread[r] /\ t \in Threads
        /\ expected' = expected /\ gone' = gone
    BY <2>1, Fields DEF TakesThis, history
  <2>3. gone[t] \intersect failed[s.sid] = {}
    <3>1. gone[t] \subseteq Uttered
      BY <2>2 DEF IInv, Noted
    <3>2. failed[s.sid] \subseteq Notices
      BY <2>2 DEF IInv, TypeOK
    <3>3. \A n \in failed[s.sid] : Pending(n)
      BY <2>2 DEF Pending
    <3>. QED
      BY <3>1, <3>2, <3>3, SessionConstants DEF Uttered
  <2>4. CASE \E c : Copy(c) /\ c.thread = t /\ c.sid = s.sid
                    /\ s.turns = c.turns \union failed[s.sid]
    BY <1>2, <2>2, <2>3, <2>4
  <2>5. CASE /\ s.sid = r /\ s.turns = failed[r]
             /\ cache[t] = NoSession /\ FilesOf(t) = {}
    <3>1. expected[t] = {}
      BY <2>1, <2>2, <2>5, FromNone
    <3>. QED
      BY <2>2, <2>3, <2>5, <3>1
  <2>. QED
    BY <2>1, <2>2, <2>4, <2>5 DEF TakesThis
<1>4. CASE \E r \in Requests : EndsWith(r, s)
  <2>1. PICK r \in Requests : EndsWith(r, s)
    BY <1>4
  <2>2. /\ Copy(req[r].took) /\ req[r].took.thread = t
        /\ s.turns = req[r].took.turns \union {r} /\ req[r].pc = "streaming"
        /\ expected' = expected /\ gone' = gone
    BY <2>1 DEF EndsWith, history
  <2>3. r \notin Uttered
    BY <2>2, SessionConstants DEF Uttered, Said, IInv, TypeOK
  <2>4. r \notin gone[t]
    BY <2>2, <2>3, Copies DEF IInv, Noted
  <2>. QED
    BY <1>2, <2>2, <2>4
<1>5. CASE Copy(s)
  <2>1. t \in Threads
    BY <1>5, Copies
  <2>2. expected \in [Threads -> SUBSET Turns] /\ gone \in [Threads -> SUBSET Turns]
    BY DEF IInv, TypeOK
  <2>3. CASE HistoryStays
    BY <1>2, <1>5, <2>3 DEF HistoryStays, history
  <2>4. ASSUME NEW r \in Requests, Saves(r), Copy(req[r].took), HistorySaves(req[r].took)
        PROVE  Goal
    <3>1. CASE t # req[r].took.thread
      <4>1. expected'[t] = expected[t] /\ gone'[t] = gone[t]
        BY <2>1, <2>2, <2>4, <3>1 DEF HistorySaves
      <4>. QED
        BY <1>2, <1>5, <4>1
    <3>2. CASE t = req[r].took.thread
      <4>1. s = req[r].took
        BY <1>5, <2>4, <3>2, SavedIsAll, Saves1
      <4>2. expected'[t] = expected[t] \union s.turns /\ gone'[t] = gone[t]
        BY <1>1, <2>1, <2>2, <2>4, <4>1 DEF HistorySaves
      <4>. QED
        BY <1>2, <1>5, <4>2
    <3>. QED
      BY <3>1, <3>2
  <2>5. ASSUME NEW d, Copy(d), Deletes(d), HistoryDeletes(d)
        PROVE  Goal
    <3>1. t # d.thread
      BY <1>5, <2>5, DeletedIsGone
    <3>2. expected'[t] = expected[t] /\ gone'[t] = gone[t]
      BY <2>1, <2>2, <2>5, <3>1 DEF HistoryDeletes
    <3>. QED
      BY <1>2, <1>5, <3>2
  <2>. QED
    BY <2>3, <2>4, <2>5, HistoryStep
<1>. QED
  BY <1>3, <1>4, <1>5, CopiesStep

-----------------------------------------------------------------------------
(* Files.                                                                  *)

\* A file goes when its session is deleted, or when it is torn.
LEMMA FilesStay ==
    ASSUME IInv, [Next]_vars, NEW x \in Requests,
           file[x] # NoSession, file'[x] = NoSession, Thread[x] \notin excused'
    PROVE  /\ rec'[x] = NoSession
           /\ expected'[Thread[x]] = {}
           /\ \E d : Copy(d) /\ Deletes(d) /\ d.sid = x /\ d.thread = Thread[x]
<1>. DEFINE Goal == /\ rec'[x] = NoSession
                    /\ expected'[Thread[x]] = {}
                    /\ \E d : Copy(d) /\ Deletes(d) /\ d.sid = x /\ d.thread = Thread[x]
<1>1. FileOK
  BY PartsHold DEF Parts
<1>2. ASSUME NEW d, Copy(d), Deletes(d), Deleted(d, d.thread) PROVE Goal
  <2>1. /\ file' = [file EXCEPT ![d.sid] = NoSession]
        /\ rec'[d.sid] = NoSession \/ excused' = excused \union {d.thread}
        /\ Forget(d.thread, d.turns)
    BY <1>2, Deleted1
  <2>2. d.sid = x
    BY <1>1, <2>1 DEF FileOK
  <2>3. d.thread = Thread[x] /\ d.thread \in Threads
    BY <1>2, <2>2, Copies
  <2>4. expected'[d.thread] = {}
    BY <2>1, <2>3 DEF Forget, IInv, TypeOK
  <2>. QED
    BY <1>2, <2>1, <2>2, <2>3, <2>4
<1>3. ASSUME NEW r \in Requests, ResetDeletes(r) PROVE Goal
  BY <1>2, <1>3, ResetDeletes1 DEF Deletes
<1>4. ASSUME NEW t \in Threads, CleansUp(t) PROVE Goal
  <2>1. CASE cache[t] = NoSession
    BY <1>4, <2>1, NoSessionIsNone DEF CleansUp, storeVars
  <2>2. CASE cache[t] # NoSession
    BY <1>2, <1>4, <2>2, CleansUp1 DEF Deletes
  <2>. QED
    BY <2>1, <2>2
<1>5. ASSUME NEW r \in Requests, RestartTears(r) PROVE FALSE
  <2>1. /\ req[r].took # NoSession
        /\ file' = [file EXCEPT ![req[r].took.sid] = NoSession]
        /\ Thread[r] \in excused'
    BY <1>5 DEF RestartTears, Excuse, IInv, Placed
  <2>2. req[r].took.sid = x
    BY <1>1, <2>1 DEF FileOK
  <2>3. Thread[x] = Thread[r]
    BY <2>1, <2>2, TheCopies, Copies DEF IInv, Placed
  <2>. QED
    BY <2>1, <2>3
<1>6. ASSUME NEW s \in Session, file' = [file EXCEPT ![s.sid] = s] PROVE FALSE
  BY <1>1, <1>6, Fields DEF FileOK
<1>7. ASSUME UNCHANGED file PROVE FALSE
  BY <1>7
<1>8. ASSUME NEW r \in Requests, Takes(r) PROVE FALSE
  <2>1. PICK mine : TakesThis(r, mine)
    BY <1>8, TakesTakes
  <2>2. mine \in Session /\ (file' = file \/ file' = [file EXCEPT ![mine.sid] = mine])
    BY <2>1 DEF TakesThis
  <2>. QED
    BY <1>6, <1>7, <2>2
<1>9. ASSUME NEW r \in Requests, StreamEnds(r) PROVE FALSE
  BY <1>6, <1>9, EndsEnds DEF EndsWith
<1>10. ASSUME NEW r \in Requests,
              Arrives(r) \/ Counts(r) \/ StreamAborts(r) \/ Saves(r) \/ ResetTakes(r)
              \/ RedisForgets(r)
       PROVE  FALSE
  BY <1>10, <1>7 DEF Arrives, Counts, StreamAborts, Saves, ResetTakes, RedisForgets, AtWork
<1>11. ASSUME NEW n \in Notices, NEW s \in Requests, TaskFails(n, s) PROVE FALSE
  BY <1>11, <1>7 DEF TaskFails, storeVars
<1>12. ASSUME Stop \/ Tick \/ Restart \/ UNCHANGED vars PROVE FALSE
  BY <1>12, <1>7 DEF Stop, Tick, Restart, vars, storeVars
<1>. QED
  BY <1>3, <1>4, <1>5, <1>8, <1>9, <1>10, <1>11, <1>12 DEF Next, Request

\* Who begins to save, or to delete.
LEMMA BeginsStep ==
    ASSUME IInv, [Next]_vars, NEW x \in Requests, req'[x].pc \in {"mirroring", "deleting"}
    PROVE  \/ req'[x] = req[x]
           \/ \E s : TakesThis(x, s) \/ EndsWith(x, s)
           \/ ResetTakes(x)
<1>. DEFINE Goal == \/ req'[x] = req[x]
                    \/ \E s : TakesThis(x, s) \/ EndsWith(x, s)
                    \/ ResetTakes(x)
<1>1. ReqOK
  BY PartsHold DEF Parts
<1>2. ASSUME NEW r \in Requests, Arrives(r) \/ Counts(r) PROVE Goal
  BY <1>1, <1>2 DEF Arrives, Counts, Goto, Done, ReqOK
<1>3. ASSUME NEW r \in Requests, Takes(r) PROVE Goal
  <2>1. PICK mine : TakesThis(r, mine)
    BY <1>3, TakesTakes
  <2>2. x # r => req'[x] = req[x]
    BY <1>1, <2>1 DEF TakesThis, ReqOK
  <2>. QED
    BY <2>1, <2>2
<1>4. ASSUME NEW r \in Requests, StreamEnds(r) PROVE Goal
  <2>1. PICK s : EndsWith(r, s)
    BY <1>4, EndsEnds
  <2>2. x # r => req'[x] = req[x]
    BY <1>1, <2>1 DEF EndsWith, ReqOK
  <2>. QED
    BY <2>1, <2>2
<1>5. ASSUME NEW r \in Requests, StreamAborts(r) \/ ResetDeletes(r) PROVE Goal
  BY <1>1, <1>5 DEF StreamAborts, ResetDeletes, Done, ReqOK
<1>6. ASSUME NEW r \in Requests, Saves(r) PROVE Goal
  BY <1>1, <1>6 DEF Saves, Done, Goto, ReqOK
<1>7. ASSUME NEW r \in Requests, ResetTakes(r) PROVE Goal
  BY <1>1, <1>7 DEF ResetTakes, Done, ReqOK
<1>8. ASSUME Restarted PROVE Goal
  BY <1>1, <1>8 DEF Restarted, ReqOK
<1>9. ASSUME UNCHANGED req PROVE Goal
  BY <1>9
<1>10. ASSUME NEW t \in Threads, CleansUp(t) PROVE Goal
  BY <1>9, <1>10 DEF CleansUp
<1>11. ASSUME NEW n \in Notices, NEW s \in Requests, TaskFails(n, s) PROVE Goal
  BY <1>9, <1>11 DEF TaskFails
<1>12. ASSUME NEW r \in Requests, RedisForgets(r) PROVE Goal
  BY <1>9, <1>12 DEF RedisForgets
<1>13. ASSUME Stop \/ Tick \/ UNCHANGED vars PROVE Goal
  BY <1>9, <1>13 DEF Stop, Tick, vars
<1>. QED
  BY <1>2, <1>3, <1>4, <1>5, <1>6, <1>7, <1>8, <1>10, <1>11, <1>12, <1>13
     DEF Next, Request, Restart, RestartTears

\* Who fills the cache.
LEMMA FillsStep ==
    ASSUME IInv, [Next]_vars, NEW t \in Threads, cache[t] = NoSession, cache'[t] # NoSession
    PROVE  \E r \in Requests : Thread[r] = t /\ (Arrives(r) \/ Takes(r) \/ Saves(r))
<1>1. cache \in [Threads -> Session \union {NoSession}]
  BY DEF IInv, TypeOK
<1>2. ASSUME UNCHANGED cache PROVE FALSE
  BY <1>2
<1>3. ASSUME NEW r \in Requests, Arrives(r) \/ Takes(r) \/ Saves(r)
      PROVE  Thread[r] = t
  <2>1. \E s : cache' = [cache EXCEPT ![Thread[r]] = s]
    BY <1>3 DEF Arrives, Takes, Saves
  <2>. QED
    BY <1>1, <2>1
<1>4. ASSUME NEW u, cache' = [cache EXCEPT ![u] = NoSession] PROVE FALSE
  BY <1>1, <1>4
<1>5. ASSUME NEW r \in Requests, ResetTakes(r) PROVE FALSE
  BY <1>4, <1>5 DEF ResetTakes
<1>6. ASSUME NEW u \in Threads, CleansUp(u) PROVE FALSE
  BY <1>2, <1>4, <1>6 DEF CleansUp
<1>7. ASSUME Restarted PROVE FALSE
  BY <1>7 DEF Restarted
<1>8. ASSUME NEW r \in Requests,
             Counts(r) \/ StreamEnds(r) \/ StreamAborts(r) \/ ResetDeletes(r) \/ RedisForgets(r)
      PROVE  FALSE
  BY <1>2, <1>8 DEF Counts, StreamEnds, StreamAborts, ResetDeletes, RedisForgets
<1>9. ASSUME NEW n \in Notices, NEW s \in Requests, TaskFails(n, s) PROVE FALSE
  BY <1>2, <1>9 DEF TaskFails
<1>10. ASSUME Stop \/ Tick \/ UNCHANGED vars PROVE FALSE
  BY <1>2, <1>10 DEF Stop, Tick, vars
<1>. QED
  BY <1>3, <1>5, <1>6, <1>7, <1>8, <1>9, <1>10 DEF Next, Request, Restart, RestartTears

\* While a request is in flight, undisturbed, no other step is taken for its
\* thread.
LEMMA Alone ==
    ASSUME IInv, NEW x \in Requests, req[x].pc \notin {"new", "done"},
           Thread[x] \notin excused', excused \subseteq excused'
    PROVE  /\ \A q \in Requests : Arrives(q) \/ Takes(q) \/ ResetTakes(q) =>
                 Thread[q] # Thread[x] \/ q = x
           /\ \A q \in Requests : \A s : TakesThis(q, s) => Thread[q] # Thread[x] \/ q = x
           /\ \A q \in Requests : Saves(q) \/ ResetDeletes(q) => Thread[q] # Thread[x] \/ q = x
           /\ \A q \in Requests : \A s : EndsWith(q, s) => Thread[q] # Thread[x] \/ q = x
           /\ ~CleansUp(Thread[x])
<1>1. x \in InFlight(Thread[x]) /\ Thread[x] \notin excused /\ Thread[x] \in Threads
  BY ThreadsOfRequests DEF InFlight
<1>2. ASSUME NEW q \in Requests, Thread[q] = Thread[x], q # x
      PROVE  Overlaps(q) /\ req[q].pc \in {"new", "done"}
  <2>1. q \notin InFlight(Thread[x])
    BY <1>1, <1>2 DEF IInv, OneByOne
  <2>. QED
    BY <1>1, <1>2, <2>1 DEF Overlaps, InFlight
<1>3. Thread[x] \notin doomed
  BY <1>1 DEF IInv, OneByOne
<1>4. ASSUME NEW q \in Requests, Arrives(q) \/ Takes(q) \/ ResetTakes(q),
             Thread[q] = Thread[x], q # x
      PROVE  FALSE
  BY <1>2, <1>4 DEF Arrives, Takes, ResetTakes, Excuse
<1>5. ASSUME NEW q \in Requests, NEW s, TakesThis(q, s), Thread[q] = Thread[x], q # x
      PROVE  FALSE
  BY <1>2, <1>5 DEF TakesThis
<1>6. ASSUME NEW q \in Requests, Saves(q) \/ ResetDeletes(q) \/ (\E s : EndsWith(q, s)),
             Thread[q] = Thread[x], q # x
      PROVE  FALSE
  BY <1>2, <1>6 DEF Saves, ResetDeletes, EndsWith
<1>. QED
  BY <1>3, <1>4, <1>5, <1>6 DEF CleansUp

LEMMA FiledStep ==
    ASSUME IInv, [Next]_vars
    PROVE  Filed'
<1>1. ASSUME NEW x \in Requests, Thread[x] \notin excused', rec'[x] # NoSession
      PROVE  file'[x] # NoSession
  <2>1. Thread[x] \notin excused
    BY <1>1, ExcusedStep
  <2>2. file[x] # NoSession
    <3>1. CASE rec[x] # NoSession
      BY <2>1, <3>1 DEF IInv, Filed
    <3>2. ASSUME NEW r \in Requests, Saves(r), rec'[x] = req[r].took PROVE file[x] # NoSession
      <4>1. Copy(req[r].took) /\ req[r].took.thread = Thread[r]
        BY <3>2, Saves1
      <4>2. req[r].took.sid = x
        BY <1>1, <3>2, PartsStep DEF Placed
      <4>3. Thread[r] = Thread[x] /\ req[r].took # NoSession
        BY <4>1, <4>2, Copies DEF Copy
      <4>. QED
        BY <2>1, <3>2, <4>2, <4>3 DEF Saves, IInv, Filed
    <3>. QED
      BY <1>1, <3>1, <3>2, RecStep
  <2>. QED
    BY <1>1, <2>2, FilesStay
<1>2. ASSUME NEW x \in Requests, Thread[x] \notin excused', req'[x].pc = "mirroring"
      PROVE  file'[req'[x].took.sid] = req'[x].took
  <2>1. ASSUME NEW s, TakesThis(x, s) PROVE file'[req'[x].took.sid] = req'[x].took
    <3>1. /\ s \in Session /\ s.sid \in Requests /\ req'[x].took = s
          /\ file' = [file EXCEPT ![s.sid] = s]
      BY <1>2, <2>1, PartsHold, Fields DEF TakesThis, Parts, ReqOK
    <3>. QED
      BY <3>1, PartsHold DEF Parts, FileOK
  <2>2. ASSUME NEW s, EndsWith(x, s) PROVE file'[req'[x].took.sid] = req'[x].took
    <3>1. /\ s \in Session /\ s.sid \in Requests /\ req'[x].took = s
          /\ file' = [file EXCEPT ![s.sid] = s]
      BY <2>2, PartsHold, Fields DEF EndsWith, Parts, ReqOK
    <3>. QED
      BY <3>1, PartsHold DEF Parts, FileOK
  <2>3. ~ResetTakes(x)
    BY <1>2, PartsHold DEF ResetTakes, Done, Parts, ReqOK
  <2>4. CASE req'[x] = req[x] /\ ~ \E s : TakesThis(x, s) \/ EndsWith(x, s)
    <3>. DEFINE sid == req[x].took.sid
    <3>1. req[x].pc = "mirroring" /\ req[x].took # NoSession
      BY <1>2, <2>4 DEF IInv, Placed
    <3>2. Thread[x] \notin excused /\ excused \subseteq excused'
      BY <1>2, ExcusedStep
    <3>3. file[sid] = req[x].took /\ sid \in Requests /\ Thread[sid] = Thread[x]
      BY <3>1, <3>2, TheCopies, Copies DEF IInv, Filed, Placed
    <3>4. file'[sid] # NoSession
      <4>1. SUFFICES ASSUME file'[sid] = NoSession PROVE FALSE
        OBVIOUS
      <4>2. PICK d : Copy(d) /\ Deletes(d) /\ d.thread = Thread[x]
        BY <1>2, <3>1, <3>3, <4>1, FilesStay
      <4>3. ASSUME NEW r \in Requests, ResetDeletes(r), d = req[r].took PROVE FALSE
        <5>1. Thread[r] = Thread[x] /\ req[r].pc = "deleting"
          BY <4>2, <4>3, ResetDeletes1 DEF ResetDeletes
        <5>. QED
          BY <1>2, <3>1, <3>2, <4>3, <5>1, Alone
      <4>4. ASSUME NEW t \in Threads, CleansUp(t), d = cache[t] PROVE FALSE
        <5>1. t = Thread[x]
          BY <4>2, <4>4 DEF Copy, IInv, Placed
        <5>. QED
          BY <1>2, <3>1, <3>2, <4>4, <5>1, Alone
      <4>. QED
        BY <4>2, <4>3, <4>4 DEF Deletes
    <3>5. ASSUME NEW r \in Requests, TakesThis(r, file'[sid]) \/ EndsWith(r, file'[sid])
          PROVE  FALSE
      <4>1. file'[sid].sid = sid
        BY <3>3, <3>4, PartsStep DEF Placed
      <4>2. Thread[r] = Thread[x]
        <5>1. CASE TakesThis(r, file'[sid])
          BY <3>3, <4>1, <5>1 DEF TakesThis
        <5>2. CASE EndsWith(r, file'[sid])
          <6>1. /\ Copy(req[r].took) /\ req[r].took.sid = sid
                /\ req[r].took.thread = Thread[r]
            BY <4>1, <5>2 DEF EndsWith
          <6>. QED
            BY <3>3, <6>1, Copies
        <5>. QED
          BY <3>5, <5>1, <5>2
      <4>3. r = x
        BY <1>2, <3>1, <3>2, <3>5, <4>2, Alone
      <4>. QED
        BY <2>4, <3>5, <4>3
    <3>6. file'[sid] = file[sid]
      BY <3>3, <3>4, <3>5, FileStep
    <3>. QED
      BY <2>4, <3>3, <3>6
  <2>. QED
    BY <1>2, <2>1, <2>2, <2>3, <2>4, BeginsStep
<1>3. ASSUME NEW x \in Requests, Thread[x] \notin excused', req'[x].pc = "deleting"
      PROVE  cache'[Thread[x]] = NoSession
  <2>1. ASSUME NEW s, TakesThis(x, s) \/ EndsWith(x, s) PROVE FALSE
    BY <1>3, <2>1, PartsHold DEF TakesThis, EndsWith, Parts, ReqOK
  <2>2. CASE ResetTakes(x)
    BY <2>2, ThreadsOfRequests DEF ResetTakes, IInv, TypeOK
  <2>3. CASE req'[x] = req[x]
    <3>1. req[x].pc = "deleting"
      BY <1>3, <2>3
    <3>2. Thread[x] \notin excused /\ excused \subseteq excused' /\ Thread[x] \in Threads
      BY <1>3, ExcusedStep, ThreadsOfRequests
    <3>3. cache[Thread[x]] = NoSession
      BY <3>1, <3>2 DEF IInv, Filed
    <3>4. SUFFICES ASSUME cache'[Thread[x]] # NoSession PROVE FALSE
      OBVIOUS
    <3>5. PICK r \in Requests : Thread[r] = Thread[x] /\ (Arrives(r) \/ Takes(r) \/ Saves(r))
      BY <3>2, <3>3, <3>4, FillsStep
    <3>6. r = x
      BY <1>3, <3>1, <3>2, <3>5, Alone
    <3>. QED
      BY <3>1, <3>5, <3>6 DEF Arrives, Takes, Ready, Saves
  <2>. QED
    BY <1>3, <2>1, <2>2, <2>3, BeginsStep
<1>4. ASSUME NEW t \in Threads \ excused', expected'[t] # {}
      PROVE  \E x \in Requests : Thread[x] = t /\ file'[x] # NoSession
  <2>1. t \notin excused
    BY <1>4, ExcusedStep
  <2>2. CASE expected[t] # {}
    <3>1. PICK x \in Requests : Thread[x] = t /\ file[x] # NoSession
      BY <1>4, <2>1, <2>2 DEF IInv, Filed
    <3>. QED
      BY <1>4, <3>1, FilesStay
  <2>3. CASE expected[t] = {}
    <3>1. PICK r \in Requests : Saves(r) /\ Copy(req[r].took) /\ req[r].took.thread = t
      <4>1. expected \in [Threads -> SUBSET Turns]
        BY DEF IInv, TypeOK
      <4>2. ~HistoryStays
        BY <1>4, <2>3 DEF HistoryStays, history
      <4>3. ASSUME NEW d, Copy(d), HistoryDeletes(d) PROVE FALSE
        BY <1>4, <2>3, <4>1, <4>3 DEF HistoryDeletes
      <4>4. ASSUME NEW r \in Requests, HistorySaves(req[r].took) PROVE req[r].took.thread = t
        BY <1>4, <2>3, <4>1, <4>4 DEF HistorySaves
      <4>. QED
        BY <4>2, <4>3, <4>4, HistoryStep
    <3>2. Thread[r] = t /\ req[r].took.sid \in Requests /\ Thread[req[r].took.sid] = t
      BY <3>1, Saves1, Copies
    <3>3. file[req[r].took.sid] = req[r].took /\ file' = file
      BY <2>1, <3>1, <3>2 DEF Saves, IInv, Filed
    <3>. QED
      BY <3>1, <3>2, <3>3 DEF Copy
  <2>. QED
    BY <2>2, <2>3
<1>. QED
  BY <1>1, <1>2, <1>3, <1>4, PartsStep DEF Filed, TypeOK

-----------------------------------------------------------------------------
(* The theorems.                                                           *)

LEMMA InvariantFirst == Init => IInv
<1>. SUFFICES ASSUME Init PROVE IInv
  OBVIOUS
<1>1. TypeOK
  <2>1. now \in 0..MaxTime /\ faults \in 0..MaxFaults /\ restarts \in 0..MaxRestarts
    BY SessionConstants DEF Init
  <2>2. stopping \in BOOLEAN
    BY Zenon DEF Init
  <2>3. req \in [Requests -> [pc : {"new", "counting", "admitted", "streaming",
                                   "mirroring", "deleting", "done"},
                             took : Session \union {NoSession}]]
    BY DEF Init
  <2>. QED
    BY <2>1, <2>2, <2>3 DEF Init, TypeOK
<1>2. Placed /\ OnePlace
  BY DEF Init, Placed, OnePlace
<1>3. ~ \E s : Copy(s)
  BY DEF Init, Copy
<1>4. Noted
  BY DEF Init, Noted
<1>5. OneByOne
  BY DEF Init, OneByOne, InFlight
<1>6. Filed
  BY DEF Init, Filed
<1>. QED
  BY <1>1, <1>2, <1>3, <1>4, <1>5, <1>6 DEF IInv, Sound, Single, Faithful, Init

LEMMA InvariantKept ==
    ASSUME IInv, [Next]_vars
    PROVE  IInv'
BY PartsStep, SoundStep, NotedStep, OneByOneStep, SingleStep, FaithfulStep, FiledStep DEF IInv

LEMMA IInvHolds == Spec => []IInv
<1>1. Init => IInv
  BY InvariantFirst
<1>2. IInv /\ [Next]_vars => IInv'
  BY InvariantKept
<1>. QED
  BY <1>1, <1>2, PTL DEF Spec

\* Every variable has its type.
THEOREM TypeCorrect == Spec => []TypeOK
<1>1. IInv => TypeOK
  BY DEF IInv
<1>. QED
  BY <1>1, IInvHolds, PTL

\* What a thread may be given is a copy of its session, that of its file.
LEMMA FoundIsCopy ==
    ASSUME IInv, NEW t \in Threads, NEW s \in Found(t)
    PROVE  Copy(s) /\ s.thread = t
<1>1. CASE cache[t] # NoSession
  BY <1>1, TheCopies DEF Found, IInv, Placed
<1>2. CASE cache[t] = NoSession /\ InRedis(t)
  <2>1. s = rec[idx[t]] /\ idx[t] \in Requests /\ rec[idx[t]] # NoSession /\ Thread[idx[t]] = t
    BY <1>2 DEF Found, InRedis, IInv, TypeOK, Placed
  <2>. QED
    BY <2>1, Belongs
<1>3. CASE cache[t] = NoSession /\ ~InRedis(t)
  BY <1>3, FilesAre DEF Found, Newest
<1>. QED
  BY <1>1, <1>2, <1>3

\* An orderly thread keeps every turn saved since it was last deleted,
\* whatever Redis drops, whoever restarts the process.
THEOREM SavedTurnsStay == Spec => []TurnsKept
<1>1. IInv => TurnsKept
  <2>. SUFFICES ASSUME IInv, NEW t \in Orderly, expected[t] # {}
                PROVE  Found(t) # {} /\ \A s \in Found(t) : expected[t] \subseteq s.turns
    BY DEF TurnsKept
  <2>1. t \in Threads /\ t \notin excused
    BY DEF Orderly
  <2>2. PICK x \in Requests : Thread[x] = t /\ file[x] # NoSession
    BY <2>1 DEF IInv, Filed
  <2>3. Copy(file[x]) /\ file[x].thread = t
    BY <2>2, Belongs
  <2>4. file[x] \in FilesOf(t)
    BY <2>2, <2>3 DEF FilesOf
  <2>5. ASSUME NEW o \in FilesOf(t) PROVE o = file[x]
    <3>1. Copy(o) /\ o.thread = t /\ o = file[o.sid]
      BY <2>1, <2>5, FilesAre
    <3>2. o.sid = file[x].sid /\ file[x].sid = x
      BY <2>1, <2>2, <2>3, <3>1 DEF IInv, Single, Placed
    <3>. QED
      BY <3>1, <3>2
  <2>6. file[x] \in Newest(FilesOf(t))
    <3>1. file[x].at <= file[x].at
      BY <2>3, Copies, Fields
    <3>. QED
      BY <2>4, <2>5, <3>1 DEF Newest
  <2>7. Found(t) # {}
    BY <2>6 DEF Found
  <2>8. ASSUME NEW s \in Found(t) PROVE expected[t] \subseteq s.turns
    BY <2>1, <2>8, FoundIsCopy DEF IInv, Faithful
  <2>. QED
    BY <2>7, <2>8
<1>. QED
  BY <1>1, IInvHolds, PTL

\* An orderly thread has one session, and starts afresh after a deletion.
THEOREM SessionsAreOne == Spec => []OneSession
<1>1. IInv => OneSession
  <2>. SUFFICES ASSUME IInv, NEW t \in Orderly
                PROVE  /\ Cardinality({s.sid : s \in FilesOf(t) \union Found(t)}) <= 1
                       /\ \A s \in Found(t) : s.turns \intersect gone[t] = {}
    BY DEF OneSession
  <2>1. t \in Threads /\ t \notin excused
    BY DEF Orderly
  <2>. DEFINE all == FilesOf(t) \union Found(t)
              sids == {s.sid : s \in all}
  <2>2. ASSUME NEW s \in all PROVE Copy(s) /\ s.thread = t
    BY <2>1, <2>2, FilesAre, FoundIsCopy
  <2>3. ASSUME NEW s \in all, NEW o \in all PROVE s.sid = o.sid
    BY <2>1, <2>2, <2>3 DEF IInv, Single
  <2>. HIDE DEF all
  <2>4. Cardinality(sids) <= 1
    <3>1. CASE all = {}
      BY <3>1, FS_EmptySet
    <3>2. CASE all # {}
      <4>1. PICK s \in all : TRUE
        BY <3>2
      <4>2. sids = {s.sid}
        BY <2>3, <4>1
      <4>. HIDE DEF sids
      <4>3. Cardinality(sids) = 1
        BY <4>2, FS_Singleton
      <4>. QED
        BY <4>3
    <3>. QED
      BY <3>1, <3>2
  <2>5. \A s \in Found(t) : s.turns \intersect gone[t] = {}
    BY <2>1, <2>2 DEF IInv, Faithful, all
  <2>. QED
    BY <2>4, <2>5 DEF all
<1>. QED
  BY <1>1, IInvHolds, PTL

\* A thread waits once in the service queue, until a request of it is
\* admitted, its place has outlived the queue's TTL, or the process ends.
THEOREM QueueIsKept == Spec => QueueKept
<1>1. IInv /\ [Next]_vars =>
       [/\ \A v, w \in waiting' : v.thread = w.thread => v = w
        /\ \A t \in Queued(waiting) \ Queued(waiting') :
              \/ t \notin Queued(Fresh)
              \/ \E r \in Requests : Thread[r] = t /\ req[r].pc # req'[r].pc /\ req'[r].pc = "admitted"
              \/ restarts # restarts']_vars
  <2>. SUFFICES ASSUME IInv, Next
                PROVE  /\ OnePlace'
                       /\ \A t \in Queued(Fresh) : t \notin Queued(waiting') =>
                            \/ \E r \in Requests : /\ Thread[r] = t /\ req[r].pc # req'[r].pc
                                                   /\ req'[r].pc = "admitted"
                            \/ restarts # restarts'
    BY DEF OnePlace
  <2>1. OnePlace'
    BY PartsStep
  <2>. SUFFICES ASSUME NEW t \in Queued(Fresh), t \notin Queued(waiting')
                PROVE  \/ \E r \in Requests : /\ Thread[r] = t /\ req[r].pc # req'[r].pc
                                              /\ req'[r].pc = "admitted"
                       \/ restarts # restarts'
    BY <2>1
  <2>2. PICK w \in Fresh : w.thread = t
    BY DEF Queued
  <2>3. w \in waiting /\ w \notin waiting'
    BY <2>2 DEF Queued, Fresh
  <2>4. ASSUME UNCHANGED waiting PROVE FALSE
    BY <2>3, <2>4
  <2>5. ASSUME NEW r \in Requests, waiting' = Dequeued(Thread[r]), Goto(r, "admitted"),
               req[r].pc \in {"new", "counting"}
        PROVE  Thread[r] = t /\ req[r].pc # req'[r].pc /\ req'[r].pc = "admitted"
    <3>1. Thread[r] = t
      BY <2>2, <2>3, <2>5 DEF Dequeued
    <3>2. req'[r].pc = "admitted"
      BY <2>5, PartsHold DEF Goto, Parts, ReqOK
    <3>. QED
      BY <2>5, <3>1, <3>2
  <2>6. ASSUME NEW r \in Requests, waiting' = Enqueued(Thread[r]) PROVE FALSE
    BY <2>2, <2>3, <2>6 DEF Enqueued
  <2>7. ASSUME NEW r \in Requests, Arrives(r)
        PROVE  Thread[r] = t /\ req[r].pc # req'[r].pc /\ req'[r].pc = "admitted"
    BY <2>4, <2>5, <2>7 DEF Arrives
  <2>8. ASSUME NEW r \in Requests, Counts(r)
        PROVE  Thread[r] = t /\ req[r].pc # req'[r].pc /\ req'[r].pc = "admitted"
    BY <2>5, <2>6, <2>8 DEF Counts
  <2>9. ASSUME Restarted PROVE restarts # restarts'
    <3>1. restarts' = restarts + 1 /\ restarts \in 0..MaxRestarts
      BY <2>9 DEF Restarted, IInv, TypeOK
    <3>. QED
      BY <3>1
  <2>10. ASSUME NEW r \in Requests,
                Takes(r) \/ StreamEnds(r) \/ StreamAborts(r) \/ Saves(r) \/ ResetTakes(r)
                \/ ResetDeletes(r) \/ RedisForgets(r)
         PROVE  FALSE
    BY <2>4, <2>10
       DEF Takes, StreamEnds, StreamAborts, Saves, ResetTakes, ResetDeletes, RedisForgets
  <2>11. ASSUME NEW u \in Threads, CleansUp(u) PROVE FALSE
    BY <2>4, <2>11 DEF CleansUp
  <2>12. ASSUME NEW n \in Notices, NEW s \in Requests, TaskFails(n, s) PROVE FALSE
    BY <2>4, <2>12 DEF TaskFails
  <2>13. ASSUME Stop \/ Tick PROVE FALSE
    BY <2>4, <2>13 DEF Stop, Tick
  <2>. QED
    BY <2>7, <2>8, <2>9, <2>10, <2>11, <2>12, <2>13
       DEF Next, Request, Restart, RestartTears
<1>. QED
  BY <1>1, IInvHolds, PTL DEF Spec, QueueKept
=============================================================================
