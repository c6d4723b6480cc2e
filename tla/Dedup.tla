------------------------------- MODULE Dedup -------------------------------
(***************************************************************************)
(* MessageDeduplicator (src/channels/dedup.py), asked by the channel       *)
(* router and by the e-mail sensor before a message is processed.  With    *)
(* Redis a key is read, then set if it is not there (SET NX with a TTL),   *)
(* each call being a suspension; whatever Redis does not answer is looked  *)
(* up in a bounded table of this process, ordered by last use.             *)
(***************************************************************************)
EXTENDS Integers, Sequences, FiniteSets

CONSTANTS
    Deliveries,    \* calls of is_duplicate
    Msg,           \* the message a call is about
    UseRedis,      \* a Redis client is configured
    RedisMayFail,  \* a call of Redis may raise, done or not
    Ttl,           \* ttl_seconds
    Capacity,      \* memory_max_size
    MaxTime        \* bound on the clock

ASSUME DedupConstants ==
    /\ IsFiniteSet(Deliveries)
    /\ UseRedis \in BOOLEAN /\ RedisMayFail \in BOOLEAN
    /\ Ttl \in Nat \ {0} /\ Capacity \in Nat \ {0}
    /\ MaxTime \in Nat

Messages == {Msg[d] : d \in Deliveries}

VARIABLES
    now,
    redis,    \* time at which the key of a message is gone; 0: not there
    memory,   \* _memory: entries [msg, exp, used], used: the answer that used it last
    pc,       \* a call: "new", "set", "memory", "done"
    log       \* history: the answers, [msg, at, fresh, by]

vars == <<now, redis, memory, pc, log>>

\* Without Redis a call goes straight to the table.
FirstStep == IF UseRedis THEN "new" ELSE "memory"

Init ==
    /\ now = 0
    /\ redis = [m \in Messages |-> 0]
    /\ memory = {}
    /\ pc = [d \in Deliveries |-> FirstStep]
    /\ log = << >>

-----------------------------------------------------------------------------
Answer(d, fresh, by) ==
    /\ pc' = [pc EXCEPT ![d] = "done"]
    /\ log' = Append(log, [msg |-> Msg[d], at |-> now, fresh |-> fresh, by |-> by])

Continue(d, step) == pc' = [pc EXCEPT ![d] = step] /\ UNCHANGED log

KeySet(m) == redis[m] > now

\* GET finds the key, does not find it, or raises.
GetKey(d) ==
    /\ pc[d] = "new"
    /\ \/ KeySet(Msg[d]) /\ Answer(d, FALSE, "redis")
       \/ ~KeySet(Msg[d]) /\ Continue(d, "set")
       \/ RedisMayFail /\ Continue(d, "memory")
    /\ UNCHANGED <<now, redis, memory>>

\* Faulty variant: SET that may have been done counts as a duplicate.
SetKeyRaisesDuplicate(d) ==
    /\ RedisMayFail
    /\ redis' \in {redis, [redis EXCEPT ![Msg[d]] = IF KeySet(Msg[d]) THEN @ ELSE now + Ttl]}
    /\ Answer(d, FALSE, "redis")

\* SET raised, and Redis did it or did not: the table is asked.
SetKeyRaises(d) ==
    /\ RedisMayFail
    /\ redis' \in {redis, [redis EXCEPT ![Msg[d]] = IF KeySet(Msg[d]) THEN @ ELSE now + Ttl]}
    /\ Continue(d, "memory")

\* Faulty variant: SET without NX.
SetKeyWinsAlways(d) ==
    /\ redis' = [redis EXCEPT ![Msg[d]] = now + Ttl]
    /\ Answer(d, TRUE, "redis")

\* Nobody set the key since it was read: the message is new.
SetKeyWins(d) ==
    /\ ~KeySet(Msg[d])
    /\ redis' = [redis EXCEPT ![Msg[d]] = now + Ttl]
    /\ Answer(d, TRUE, "redis")

\* Somebody else did; the code then asks the table of this process.
SetKeyLoses(d) ==
    /\ KeySet(Msg[d])
    /\ Continue(d, "memory")
    /\ UNCHANGED redis

SetKey(d) ==
    /\ pc[d] = "set"
    /\ SetKeyWins(d) \/ SetKeyLoses(d) \/ SetKeyRaises(d)
    /\ UNCHANGED <<now, memory>>

-----------------------------------------------------------------------------
Live == {e \in memory : e.exp > now}
Known(m) == \E e \in Live : e.msg = m

\* The answer about to be given, by which the entry it uses is ordered.
ThisAnswer == Len(log) + 1

\* Faulty variant: using an entry does not move it to the end.
TouchedNot(m) == Live

\* The entry of m moved to the end.
Touched(m) == {[e EXCEPT !.used = IF e.msg = m THEN ThisAnswer ELSE @] : e \in Live}

LongerBy(m) == Live \union {[msg |-> m, exp |-> now + Ttl, used |-> ThisAnswer]}
LeastUsed(table) == {e \in table : \A f \in table : e.used <= f.used}

\* Faulty variant: the table has no limit.
AddedUnbounded(m) == {LongerBy(m)}

\* The table with an entry for m: the one least recently used gives way when
\* it is over its capacity.
Added(m) ==
    IF Cardinality(LongerBy(m)) <= Capacity
    THEN {LongerBy(m)}
    ELSE {LongerBy(m) \ {e} : e \in LeastUsed(LongerBy(m))}

CheckMemory(d) ==
    /\ pc[d] = "memory"
    /\ memory' \in IF Known(Msg[d]) THEN {Touched(Msg[d])} ELSE Added(Msg[d])
    /\ Answer(d, ~Known(Msg[d]), "memory")
    /\ UNCHANGED <<now, redis>>

Tick ==
    /\ now < MaxTime
    /\ now' = now + 1
    /\ UNCHANGED <<redis, memory, pc, log>>

IsDuplicate(d) == GetKey(d) \/ SetKey(d) \/ CheckMemory(d)

Next == Tick \/ \E d \in Deliveries : IsDuplicate(d)

Spec == Init /\ [][Next]_vars

-----------------------------------------------------------------------------
(* Properties.                                                             *)

\* Every variable has its type; the table is never over its capacity.
TypeOK ==
    /\ now \in 0..MaxTime
    /\ redis \in [Messages -> 0..(MaxTime + Ttl)]
    /\ memory \subseteq [msg : Messages, exp : 1..(MaxTime + Ttl), used : DOMAIN log]
    /\ Cardinality(memory) <= Capacity
    /\ pc \in [Deliveries -> {"new", "set", "memory", "done"}]
    /\ log \in Seq([msg : Messages, at : 0..MaxTime, fresh : BOOLEAN, by : {"redis", "memory"}])

Answers(by, m) == {i \in DOMAIN log : log[i].by = by /\ log[i].msg = m}
Fresh(by, m) == {i \in Answers(by, m) : log[i].fresh}

\* The messages other than m the table was asked about between two answers.
SeenBetween(i, k) ==
    {log[j].msg : j \in {x \in i..k : log[x].by = "memory"}} \ {log[k].msg}

\* The table forgets a message within its TTL only if it was asked about
\* Capacity others since it was last asked about that one: not because of
\* entries expiring, of duplicates arriving or of older entries being used.
ForgetsOnlyWhenFull ==
    \A m \in Messages : \A j \in Fresh("memory", m), k \in Fresh("memory", m) :
        j < k /\ log[k].at < log[j].at + Ttl =>
            \A i \in Answers("memory", m) :
                (j <= i /\ i < k) => Cardinality(SeenBetween(i, k)) >= Capacity

\* Redis lets a message through once in a TTL, however many calls overlap
\* and whatever raises.
RedisLetsOneThrough ==
    \A m \in Messages : \A j, k \in Fresh("redis", m) :
        j < k => log[k].at >= log[j].at + Ttl

\* No message is dropped: when all its deliveries are answered, one of them
\* was told that the message is new.
NoneDropped ==
    \A m \in Messages :
        (\A d \in Deliveries : Msg[d] = m => pc[d] = "done")
            => \E i \in DOMAIN log : log[i].msg = m /\ log[i].fresh

\* is_duplicate: "Return True when the platform message was already
\* processed."
OnceInTtl ==
    \A j, k \in DOMAIN log :
        /\ log[j].msg = log[k].msg
        /\ log[j].fresh /\ log[k].fresh
        /\ j < k
        => log[k].at >= log[j].at + Ttl
=============================================================================
