---------------------------- MODULE DedupProofs ----------------------------
(***************************************************************************)
(* Theorems of Dedup, for every set of deliveries, any TTL, capacity and   *)
(* clock, and whether or not Redis is used and its calls may raise.        *)
(***************************************************************************)
EXTENDS Dedup, FiniteSetTheorems, TLAPS

Types ==
    /\ now \in 0..MaxTime
    /\ redis \in [Messages -> 0..(MaxTime + Ttl)]
    /\ memory \subseteq [msg : Messages, exp : 1..(MaxTime + Ttl), used : DOMAIN log]
    /\ pc \in [Deliveries -> {"new", "set", "memory", "done"}]
    /\ log \in Seq([msg : Messages, at : 0..MaxTime, fresh : BOOLEAN, by : {"redis", "memory"}])

\* The table has one entry for a message, used by an answer about it.
Table ==
    /\ IsFiniteSet(memory) /\ Cardinality(memory) <= Capacity
    /\ \A e, f \in memory : e.msg = f.msg => e = f
    /\ \A e \in memory : log[e.used].by = "memory" /\ log[e.used].msg = e.msg

Base == Types /\ Table

LEMMA MessagesAreFinite == IsFiniteSet(Messages)
<1> DEFINE f == [d \in Deliveries |-> Msg[d]]
<1>1. f \in Surjection(Deliveries, Messages)
  BY DEF Surjection, Messages
<1>. QED
  BY <1>1, FS_Surjection, DedupConstants

LEMMA MessageOf == \A d \in Deliveries : Msg[d] \in Messages
BY DEF Messages

\* An answer is the last of the log, which it leaves as it was.
LEMMA AnswerIsLast ==
    ASSUME Types, NEW d \in Deliveries, NEW fresh \in BOOLEAN, NEW by \in {"redis", "memory"},
           Answer(d, fresh, by)
    PROVE  /\ log' \in Seq([msg : Messages, at : 0..MaxTime, fresh : BOOLEAN, by : {"redis", "memory"}])
           /\ Len(log) \in Nat /\ Len(log') = ThisAnswer
           /\ DOMAIN log = 1..Len(log)
           /\ DOMAIN log' = 1..ThisAnswer
           /\ DOMAIN log \subseteq DOMAIN log'
           /\ ThisAnswer \in DOMAIN log' /\ ThisAnswer \notin DOMAIN log
           /\ \A i \in DOMAIN log : log'[i] = log[i]
           /\ log'[ThisAnswer] = [msg |-> Msg[d], at |-> now, fresh |-> fresh, by |-> by]
<1>1. /\ log' \in Seq([msg : Messages, at : 0..MaxTime, fresh : BOOLEAN, by : {"redis", "memory"}])
      /\ Len(log) \in Nat /\ Len(log') = ThisAnswer /\ ThisAnswer = Len(log) + 1
      /\ DOMAIN log = 1..Len(log)
      /\ DOMAIN log' = 1..ThisAnswer
      /\ \A i \in DOMAIN log : log'[i] = log[i]
      /\ log'[ThisAnswer] = [msg |-> Msg[d], at |-> now, fresh |-> fresh, by |-> by]
  BY MessageOf DEF Types, Answer, ThisAnswer
<1>2. \A n \in Nat : /\ 1..n \subseteq 1..(n+1)
                     /\ n+1 \in 1..(n+1) /\ n+1 \notin 1..n
  OBVIOUS
<1>. QED
  BY <1>1, <1>2

-----------------------------------------------------------------------------
(* The table.                                                              *)

\* The least used entry has to go when the table is over its capacity.
LEMMA AddedIsTable ==
    ASSUME Base, NEW d \in Deliveries, ~Known(Msg[d]), NEW table \in Added(Msg[d])
    PROVE  /\ table \subseteq LongerBy(Msg[d])
           /\ IsFiniteSet(LongerBy(Msg[d])) /\ IsFiniteSet(table) /\ Cardinality(table) <= Capacity
           /\ \A e, f \in LongerBy(Msg[d]) : e.msg = f.msg => e = f
<1> DEFINE new == [msg |-> Msg[d], exp |-> now + Ttl, used |-> ThisAnswer]
<1>1. Live \subseteq memory
  BY DEF Live
<1>2. IsFiniteSet(Live) /\ Cardinality(Live) <= Capacity /\ Cardinality(Live) \in Nat
  BY <1>1, FS_Subset, FS_CardinalityType, DedupConstants DEF Base, Table
<1>3. /\ IsFiniteSet(LongerBy(Msg[d])) /\ Cardinality(LongerBy(Msg[d])) \in Nat
      /\ Cardinality(LongerBy(Msg[d])) <= Capacity + 1
  <2>1. LongerBy(Msg[d]) = Live \union {new}
    BY DEF LongerBy
  <2>2. /\ IsFiniteSet(Live \union {new})
        /\ Cardinality(Live \union {new}) \in {Cardinality(Live), Cardinality(Live) + 1}
    BY <1>2, FS_AddElement
  <2>. QED
    BY <1>2, <2>1, <2>2, DedupConstants
<1>4. \A e, f \in LongerBy(Msg[d]) : e.msg = f.msg => e = f
  <2>1. \A e \in Live : e.msg # new.msg
    BY DEF Known
  <2>2. \A e, f \in Live : e.msg = f.msg => e = f
    BY <1>1 DEF Base, Table
  <2>. QED
    BY <2>1, <2>2 DEF LongerBy
<1>5. CASE Cardinality(LongerBy(Msg[d])) <= Capacity
  BY <1>3, <1>4, <1>5 DEF Added
<1>6. CASE ~(Cardinality(LongerBy(Msg[d])) <= Capacity)
  <2>1. PICK e \in LongerBy(Msg[d]) : table = LongerBy(Msg[d]) \ {e}
    BY <1>6 DEF Added, LeastUsed
  <2>2. IsFiniteSet(table) /\ Cardinality(table) = Cardinality(LongerBy(Msg[d])) - 1
    BY <1>3, <2>1, FS_RemoveElement
  <2>. QED
    BY <1>3, <1>4, <2>1, <2>2, DedupConstants
<1>. QED
  BY <1>5, <1>6

LEMMA TouchedIsTable ==
    ASSUME Base, NEW d \in Deliveries
    PROVE  /\ IsFiniteSet(Touched(Msg[d])) /\ Cardinality(Touched(Msg[d])) <= Capacity
           /\ \A e, f \in Touched(Msg[d]) : e.msg = f.msg => e = f
<1> DEFINE move == [e \in Live |-> [e EXCEPT !.used = IF e.msg = Msg[d] THEN ThisAnswer ELSE @]]
<1>1. Live \subseteq memory
  BY DEF Live
<1>2. IsFiniteSet(Live) /\ Cardinality(Live) <= Capacity /\ Cardinality(Live) \in Nat
  BY <1>1, FS_Subset, FS_CardinalityType, DedupConstants DEF Base, Table
<1>3. move \in Surjection(Live, Touched(Msg[d]))
  BY DEF Surjection, Touched
<1>4. /\ IsFiniteSet(Touched(Msg[d])) /\ Cardinality(Touched(Msg[d])) <= Cardinality(Live)
      /\ Cardinality(Touched(Msg[d])) \in Nat
  BY <1>2, <1>3, FS_Surjection, FS_CardinalityType
<1>5. \A e \in Live : move[e].msg = e.msg
  BY <1>1 DEF Base, Types
<1>6. \A e, f \in Live : e.msg = f.msg => e = f
  BY <1>1 DEF Base, Table
<1>7. \A e \in Touched(Msg[d]) : \E g \in Live : e = move[g]
  BY DEF Touched
<1>8. \A e, f \in Touched(Msg[d]) : e.msg = f.msg => e = f
  <2> SUFFICES ASSUME NEW e \in Touched(Msg[d]), NEW f \in Touched(Msg[d]), e.msg = f.msg
               PROVE  e = f
    OBVIOUS
  <2>1. PICK g \in Live, h \in Live : e = move[g] /\ f = move[h]
    BY <1>7
  <2> HIDE DEF move
  <2>. QED
    BY <1>5, <1>6, <2>1
<1>. QED
  BY <1>2, <1>4, <1>8, DedupConstants

LEMMA BaseInit == Init => Base
BY FS_EmptySet, DedupConstants DEF Init, Base, Types, Table, FirstStep

LEMMA BaseNext == Base /\ [Next]_vars => Base'
<1> SUFFICES ASSUME Base, [Next]_vars PROVE Base'
  OBVIOUS
<1>1. ASSUME UNCHANGED <<now, memory>>, redis' \in [Messages -> 0..(MaxTime + Ttl)],
             NEW d \in Deliveries, NEW fresh \in BOOLEAN, NEW by \in {"redis", "memory"},
             Answer(d, fresh, by)
      PROVE  Base'
  <2>1. Types'
    <3>1. DOMAIN log \subseteq DOMAIN log'
      BY <1>1, AnswerIsLast DEF Base
    <3>2. memory' \subseteq [msg : Messages, exp : 1..(MaxTime + Ttl), used : DOMAIN log']
      BY <1>1, <3>1 DEF Base, Types
    <3>3. log' \in Seq([msg : Messages, at : 0..MaxTime, fresh : BOOLEAN, by : {"redis", "memory"}])
      BY <1>1, AnswerIsLast DEF Base
    <3>4. pc' \in [Deliveries -> {"new", "set", "memory", "done"}]
      BY <1>1 DEF Base, Types, Answer
    <3>5. now' \in 0..MaxTime
      BY <1>1 DEF Base, Types
    <3>. QED
      BY <1>1, <3>2, <3>3, <3>4, <3>5 DEF Types
  <2>2. Table'
    <3>1. \A e \in memory : e.used \in DOMAIN log
      BY DEF Base, Types
    <3>. QED
      BY <1>1, <3>1, AnswerIsLast DEF Base, Table
  <2>. QED
    BY <2>1, <2>2 DEF Base
<1>2. ASSUME UNCHANGED <<now, memory>>, redis' \in [Messages -> 0..(MaxTime + Ttl)],
             NEW d \in Deliveries, NEW step \in {"set", "memory"}, Continue(d, step)
      PROVE  Base'
  BY <1>2 DEF Base, Types, Table, Continue
<1>3. ASSUME NEW d \in Deliveries, redis' \in {redis, [redis EXCEPT ![Msg[d]] = now + Ttl]}
      PROVE  redis' \in [Messages -> 0..(MaxTime + Ttl)]
  BY <1>3, MessageOf, DedupConstants DEF Base, Types
<1>4. ASSUME NEW d \in Deliveries, GetKey(d) PROVE Base'
  BY <1>1, <1>2, <1>3, <1>4 DEF GetKey
<1>5. ASSUME NEW d \in Deliveries, SetKey(d) PROVE Base'
  <2>1. redis' \in {redis, [redis EXCEPT ![Msg[d]] = now + Ttl]}
    BY <1>5, MessageOf DEF SetKey, SetKeyWins, SetKeyLoses, SetKeyRaises, Base, Types
  <2>. QED
    BY <1>1, <1>2, <1>3, <1>5, <2>1 DEF SetKey, SetKeyWins, SetKeyLoses, SetKeyRaises
<1>6. ASSUME NEW d \in Deliveries, CheckMemory(d) PROVE Base'
  <2> DEFINE m == Msg[d]
  <2>1. /\ Live \subseteq memory /\ m \in Messages
        /\ now + Ttl \in 1..(MaxTime + Ttl)
        /\ Answer(d, ~Known(m), "memory") /\ (~Known(m)) \in BOOLEAN
    BY <1>6, MessageOf, DedupConstants DEF Live, Base, Types, CheckMemory
  <2>2. /\ IsFiniteSet(memory') /\ Cardinality(memory') <= Capacity
        /\ \A e, f \in memory' : e.msg = f.msg => e = f
    BY <1>6, AddedIsTable, TouchedIsTable DEF CheckMemory
  <2>3. \A e \in memory' : \/ e \in memory
                           \/ \E g \in memory : e = [g EXCEPT !.used = ThisAnswer] /\ g.msg = m
                           \/ e = [msg |-> m, exp |-> now + Ttl, used |-> ThisAnswer]
    <3>1. CASE Known(m)
      <4>1. memory' = Touched(m)
        BY <1>6, <3>1 DEF CheckMemory
      <4>2. \A g \in memory : [g EXCEPT !.used = g.used] = g
        BY DEF Base, Types
      <4>. QED
        BY <2>1, <4>1, <4>2 DEF Touched
    <3>2. CASE ~Known(m)
      BY <1>6, <2>1, <3>2, AddedIsTable DEF CheckMemory, LongerBy
    <3>. QED
      BY <3>1, <3>2
  <2>4. \A e \in memory : e \in [msg : Messages, exp : 1..(MaxTime + Ttl), used : DOMAIN log]
    BY DEF Base, Types
  <2>5. Types'
    <3>1. memory' \subseteq [msg : Messages, exp : 1..(MaxTime + Ttl), used : DOMAIN log']
      <4>1. DOMAIN log \subseteq DOMAIN log' /\ ThisAnswer \in DOMAIN log'
        BY <2>1, AnswerIsLast DEF Base
      <4> SUFFICES ASSUME NEW e \in memory'
                   PROVE  e \in [msg : Messages, exp : 1..(MaxTime + Ttl), used : DOMAIN log']
        OBVIOUS
      <4>2. CASE e \in memory
        BY <2>4, <4>1, <4>2
      <4>3. ASSUME NEW g \in memory, e = [g EXCEPT !.used = ThisAnswer]
            PROVE  e \in [msg : Messages, exp : 1..(MaxTime + Ttl), used : DOMAIN log']
        BY <2>4, <4>1, <4>3
      <4>4. CASE e = [msg |-> m, exp |-> now + Ttl, used |-> ThisAnswer]
        BY <2>1, <4>1, <4>4
      <4>. QED
        BY <2>3, <4>2, <4>3, <4>4
    <3>2. log' \in Seq([msg : Messages, at : 0..MaxTime, fresh : BOOLEAN, by : {"redis", "memory"}])
      BY <2>1, AnswerIsLast DEF Base
    <3>. QED
      BY <1>6, <2>1, <3>1, <3>2 DEF CheckMemory, Answer, Base, Types
  <2>6. \A e \in memory' : log'[e.used].by = "memory" /\ log'[e.used].msg = e.msg
    <3>1. \A e \in memory : log[e.used].by = "memory" /\ log[e.used].msg = e.msg
      BY DEF Base, Table
    <3>2. /\ ThisAnswer \notin DOMAIN log
          /\ log'[ThisAnswer].by = "memory" /\ log'[ThisAnswer].msg = m
          /\ \A i \in DOMAIN log : log'[i] = log[i]
      <4>1. ThisAnswer \notin DOMAIN log
        BY <2>1, AnswerIsLast DEF Base
      <4>2. log'[ThisAnswer] = [msg |-> m, at |-> now, fresh |-> ~Known(m), by |-> "memory"]
        BY <2>1, AnswerIsLast DEF Base
      <4>3. \A i \in DOMAIN log : log'[i] = log[i]
        BY <2>1, AnswerIsLast DEF Base
      <4>. QED
        BY <4>1, <4>2, <4>3
    <3> SUFFICES ASSUME NEW e \in memory'
                 PROVE  log'[e.used].by = "memory" /\ log'[e.used].msg = e.msg
      OBVIOUS
    <3>3. CASE e \in memory
      BY <2>4, <3>1, <3>2, <3>3
    <3>4. ASSUME NEW g \in memory, e = [g EXCEPT !.used = ThisAnswer], g.msg = m
          PROVE  e.used = ThisAnswer /\ e.msg = m
      BY <2>4, <3>4
    <3>. QED
      BY <2>3, <3>2, <3>3, <3>4
  <2>. QED
    BY <2>2, <2>5, <2>6 DEF Base, Table
<1>7. CASE Tick
  BY <1>7, DedupConstants DEF Tick, Base, Types, Table
<1>8. CASE UNCHANGED vars
  BY <1>8 DEF vars, Base, Types, Table
<1>. QED
  BY <1>4, <1>5, <1>6, <1>7, <1>8 DEF Next, IsDuplicate

-----------------------------------------------------------------------------
(* The answers.                                                            *)

LEMMA AnswersAreTyped ==
    ASSUME Types
    PROVE  \A i \in DOMAIN log : log[i].msg \in Messages /\ log[i].at \in Nat /\ log[i].at <= MaxTime
<1> DEFINE A == [msg : Messages, at : 0..MaxTime, fresh : BOOLEAN, by : {"redis", "memory"}]
<1> SUFFICES ASSUME NEW i \in DOMAIN log
             PROVE  log[i].msg \in Messages /\ log[i].at \in Nat /\ log[i].at <= MaxTime
  OBVIOUS
<1>1. log \in Seq(A)
  BY DEF Types
<1>2. log[i] \in A
  <2> HIDE DEF A
  <2>. QED
    BY <1>1
<1>3. log[i].msg \in Messages /\ log[i].at \in 0..MaxTime
  BY <1>2
<1>. QED
  BY <1>3, DedupConstants

\* What an answer adds to the answers about a message.
LEMMA AnswersGrow ==
    ASSUME Types, NEW d \in Deliveries, NEW fresh \in BOOLEAN, NEW by \in {"redis", "memory"},
           Answer(d, fresh, by), NEW b, NEW m
    PROVE  /\ Answers(b, m) \subseteq DOMAIN log /\ Fresh(b, m) \subseteq Answers(b, m)
           /\ \A i \in Answers(b, m)' : i \in Answers(b, m) \/ (i = ThisAnswer /\ b = by /\ m = Msg[d])
           /\ \A i \in Fresh(b, m)' :
                 i \in Fresh(b, m) \/ (i = ThisAnswer /\ b = by /\ m = Msg[d] /\ fresh)
<1>1. /\ DOMAIN log' = DOMAIN log \union {ThisAnswer}
      /\ \A i \in DOMAIN log : log'[i] = log[i]
      /\ log'[ThisAnswer] = [msg |-> Msg[d], at |-> now, fresh |-> fresh, by |-> by]
  <2>1. \A n \in Nat : 1..(n+1) = (1..n) \union {n+1}
    OBVIOUS
  <2>. QED
    BY <2>1, AnswerIsLast DEF ThisAnswer
<1>. QED
  BY <1>1 DEF Answers, Fresh

\* Every answer is given by a step that reads or sets the key, or asks the
\* table; the other steps leave the answers alone.
LEMMA NextAnswers ==
    ASSUME [Next]_vars
    PROVE  \/ log' = log /\ memory' = memory
           \/ \E d \in Deliveries, fresh \in BOOLEAN :
                 Answer(d, fresh, "redis") /\ UNCHANGED <<now, memory>>
           \/ \E d \in Deliveries : CheckMemory(d)
BY DEF Next, vars, IsDuplicate, GetKey, SetKey, SetKeyWins, SetKeyLoses, SetKeyRaises, Continue, Tick

\* Redis keeps the key of a message for as long as it must not let it
\* through again.
KeyKept == \A m \in Messages : \A i \in Fresh("redis", m) : log[i].at + Ttl <= redis[m]

LEMMA RedisNext ==
    Base /\ KeyKept /\ RedisLetsOneThrough /\ [Next]_vars => KeyKept' /\ RedisLetsOneThrough'
<1> SUFFICES ASSUME Base, KeyKept, RedisLetsOneThrough, [Next]_vars
             PROVE  KeyKept' /\ RedisLetsOneThrough'
  OBVIOUS
<1>1. Base'
  BY BaseNext
<1>2. \A m \in Messages : redis'[m] \in Nat /\ redis[m] \in Nat /\ redis'[m] >= redis[m]
  <2>1. \A m \in Messages : redis'[m] \in Nat /\ redis[m] \in Nat
    BY <1>1, DedupConstants DEF Base, Types
  <2>2. \/ redis' = redis
        \/ \E d \in Deliveries : ~KeySet(Msg[d]) /\ redis' = [redis EXCEPT ![Msg[d]] = now + Ttl]
    BY MessageOf DEF Base, Types, Next, vars, IsDuplicate, GetKey, SetKey, SetKeyWins, SetKeyLoses,
         SetKeyRaises, CheckMemory, Tick
  <2>3. ASSUME NEW d \in Deliveries, ~KeySet(Msg[d]), redis' = [redis EXCEPT ![Msg[d]] = now + Ttl],
               NEW m \in Messages
        PROVE  redis'[m] >= redis[m]
    <3>1. redis'[m] = IF m = Msg[d] THEN now + Ttl ELSE redis[m]
      BY <2>3 DEF Base, Types
    <3>2. m = Msg[d] => redis[m] <= now
      BY <2>1, <2>3 DEF KeySet, Base, Types
    <3>. QED
      BY <2>1, <3>1, <3>2, DedupConstants DEF Base, Types
  <2>. QED
    BY <2>1, <2>2, <2>3
<1>3. \A m \in Messages : \A i \in Fresh("redis", m) : i \in DOMAIN log /\ log[i].at \in Nat
  BY AnswersAreTyped DEF Base, Fresh, Answers
<1>4. ASSUME \A m \in Messages : Fresh("redis", m)' = Fresh("redis", m),
             \A i \in DOMAIN log : log'[i] = log[i]
      PROVE  KeyKept' /\ RedisLetsOneThrough'
  BY <1>2, <1>3, <1>4, DedupConstants DEF KeyKept, RedisLetsOneThrough
<1>5. CASE log' = log
  <2>1. \A m : Fresh("redis", m)' = Fresh("redis", m)
    BY <1>5 DEF Fresh, Answers
  <2>. QED
    BY <1>4, <1>5, <2>1
<1>6. ASSUME NEW d \in Deliveries, NEW fresh \in BOOLEAN, NEW by \in {"redis", "memory"},
             Answer(d, fresh, by), ~fresh \/ by = "memory"
      PROVE  KeyKept' /\ RedisLetsOneThrough'
  <2>1. \A i \in DOMAIN log : log'[i] = log[i]
    BY <1>6, AnswerIsLast DEF Base
  <2>2. \A m \in Messages : \A i \in Fresh("redis", m)' : i \in Fresh("redis", m)
    BY <1>6, AnswersGrow DEF Base
  <2>. QED
    BY <1>2, <1>3, <2>1, <2>2, DedupConstants DEF KeyKept, RedisLetsOneThrough
<1>7. ASSUME NEW d \in Deliveries, SetKey(d), SetKeyWins(d)
      PROVE  KeyKept' /\ RedisLetsOneThrough'
  <2>1. /\ Answer(d, TRUE, "redis") /\ ~KeySet(Msg[d])
        /\ redis' = [redis EXCEPT ![Msg[d]] = now + Ttl]
        /\ Msg[d] \in Messages
    BY <1>7, MessageOf DEF SetKeyWins
  <2>8. Answer(d, TRUE, "redis")
    BY <2>1
  <2>9. \A i \in DOMAIN log : log'[i] = log[i]
    BY <2>8, AnswerIsLast DEF Base
  <2>10. log'[ThisAnswer] = [msg |-> Msg[d], at |-> now, fresh |-> TRUE, by |-> "redis"]
    BY <2>8, AnswerIsLast DEF Base
  <2>11. Len(log) \in Nat /\ DOMAIN log = 1..Len(log)
    BY <2>8, AnswerIsLast DEF Base
  <2>2. /\ \A i \in DOMAIN log : log'[i] = log[i]
        /\ log'[ThisAnswer] = [msg |-> Msg[d], at |-> now, fresh |-> TRUE, by |-> "redis"]
        /\ \A i \in DOMAIN log : i < ThisAnswer
    BY <2>9, <2>10, <2>11 DEF ThisAnswer
  <2>3. \A m \in Messages : \A i \in Fresh("redis", m)' :
            i \in Fresh("redis", m) \/ (i = ThisAnswer /\ m = Msg[d])
    <3> SUFFICES ASSUME NEW m \in Messages, NEW i \in Fresh("redis", m)'
                 PROVE  i \in Fresh("redis", m) \/ (i = ThisAnswer /\ m = Msg[d])
      OBVIOUS
    <3>1. PICK fresh \in BOOLEAN : Answer(d, fresh, "redis")
      BY <2>8
    <3>. QED
      BY <3>1, AnswersGrow DEF Base
  <2>4. redis[Msg[d]] <= now /\ redis'[Msg[d]] = now + Ttl
    BY <2>1, DedupConstants DEF KeySet, Base, Types
  <2>5. KeyKept'
    <3> SUFFICES ASSUME NEW m \in Messages, NEW i \in Fresh("redis", m)'
                 PROVE  log'[i].at + Ttl <= redis'[m]
      BY DEF KeyKept
    <3>1. CASE i \in Fresh("redis", m)
      <4>1. log[i].at + Ttl <= redis[m] /\ log'[i] = log[i]
        BY <1>3, <2>2, <3>1 DEF KeyKept
      <4>. QED
        BY <1>2, <1>3, <3>1, <4>1, DedupConstants
    <3>2. CASE i = ThisAnswer /\ m = Msg[d]
      <4>1. log'[i].at = now
        BY <2>2, <3>2
      <4>. QED
        BY <2>4, <3>2, <4>1, DedupConstants DEF Base, Types
    <3>. QED
      BY <2>3, <3>1, <3>2
  <2>6. ThisAnswer \in Nat /\ \A m \in Messages : \A i \in Fresh("redis", m) : i < ThisAnswer
    BY <1>3, <2>2, <2>11 DEF ThisAnswer
  <2>7. RedisLetsOneThrough'
    <3> SUFFICES ASSUME NEW m \in Messages, NEW j \in Fresh("redis", m)', NEW k \in Fresh("redis", m)',
                        j < k
                 PROVE  log'[k].at >= log'[j].at + Ttl
      BY DEF RedisLetsOneThrough
    <3>1. CASE k \in Fresh("redis", m)
      <4>1. j \in Fresh("redis", m)
        BY <2>3, <2>6, <3>1, <1>3 DEF Base, Types
      <4>. QED
        BY <1>3, <2>2, <3>1, <4>1 DEF RedisLetsOneThrough
    <3>2. CASE k = ThisAnswer /\ m = Msg[d]
      <4>1. j \in Fresh("redis", m)
        BY <2>3, <2>6, <3>2
      <4>. QED
        BY <1>2, <1>3, <2>2, <2>4, <3>2, <4>1, DedupConstants DEF KeyKept, Base, Types
    <3>. QED
      BY <2>3, <3>1, <3>2
  <2>. QED
    BY <2>5, <2>7
<1>. QED
  <2>1. \/ log' = log
        \/ \E d \in Deliveries, fresh \in BOOLEAN, by \in {"redis", "memory"} :
              Answer(d, fresh, by) /\ (~fresh \/ by = "memory")
        \/ \E d \in Deliveries : SetKey(d) /\ SetKeyWins(d)
    BY DEF Next, vars, IsDuplicate, GetKey, SetKey, SetKeyLoses, SetKeyRaises, Continue, Tick,
           CheckMemory
  <2>. QED
    BY <1>5, <1>6, <1>7, <2>1

-----------------------------------------------------------------------------
(* No message is dropped.                                                  *)

IsNew(m) == \E i \in DOMAIN log : log[i].msg = m /\ log[i].fresh
Asking(m) == \E d \in Deliveries : Msg[d] = m /\ pc[d] = "memory"

\* Whatever makes a call answer "duplicate" tells of an answer "new" that
\* was given, or of a call that has still to ask the table.
Told ==
    /\ \A e \in memory : IsNew(e.msg)
    /\ \A m \in Messages : redis[m] > 0 => IsNew(m) \/ Asking(m)
    /\ \A d \in Deliveries : pc[d] = "done" => IsNew(Msg[d]) \/ Asking(Msg[d])

LEMMA ToldNext == Base /\ Told /\ [Next]_vars => Told'
<1> SUFFICES ASSUME Base, Told, [Next]_vars PROVE Told'
  OBVIOUS
<1>1. ASSUME NEW d \in Deliveries, NEW fresh \in BOOLEAN, NEW by \in {"redis", "memory"},
             Answer(d, fresh, by)
      PROVE  \A m : IsNew(m) => IsNew(m)'
  <2>1. DOMAIN log \subseteq DOMAIN log' /\ \A i \in DOMAIN log : log'[i] = log[i]
    BY <1>1, AnswerIsLast DEF Base
  <2>. QED
    BY <2>1 DEF IsNew
<1>2. ASSUME NEW d \in Deliveries, NEW by \in {"redis", "memory"}, Answer(d, TRUE, by)
      PROVE  IsNew(Msg[d])'
  <2>1. ThisAnswer \in DOMAIN log'
    BY <1>2, AnswerIsLast DEF Base
  <2>2. log'[ThisAnswer] = [msg |-> Msg[d], at |-> now, fresh |-> TRUE, by |-> by]
    BY <1>2, AnswerIsLast DEF Base
  <2>. QED
    BY <2>1, <2>2 DEF IsNew
<1>3. \A m : log' = log => IsNew(m)' = IsNew(m)
  BY DEF IsNew
<1>4. ASSUME NEW d \in Deliveries, GetKey(d) PROVE Told'
  <2>1. CASE KeySet(Msg[d]) /\ Answer(d, FALSE, "redis")
    <3>1. redis[Msg[d]] > 0
      BY <2>1, MessageOf, DedupConstants DEF KeySet, Base, Types
    <3>2. \A m : Asking(m)' = Asking(m)
      BY <1>4, <2>1 DEF GetKey, Asking, Answer, Base, Types
    <3>. QED
      BY <1>1, <1>4, <2>1, <3>1, <3>2, MessageOf DEF GetKey, Answer, Told, Base, Types
  <2>2. ASSUME NEW step \in {"set", "memory"}, pc[d] = "new", Continue(d, step),
               UNCHANGED <<redis, memory>>
        PROVE  Told'
    <3>1. \A m : Asking(m) => Asking(m)'
      BY <2>2 DEF Asking, Continue, Base, Types
    <3>. QED
      BY <1>3, <2>2, <3>1 DEF Continue, Told, Base, Types
  <2>. QED
    BY <1>4, <2>1, <2>2 DEF GetKey
<1>5. ASSUME NEW d \in Deliveries, SetKey(d) PROVE Told'
  <2>1. CASE SetKeyWins(d)
    <3>1. \A m : Asking(m)' = Asking(m)
      BY <1>5, <2>1 DEF SetKey, SetKeyWins, Asking, Answer, Base, Types
    <3>2. IsNew(Msg[d])' /\ \A m : IsNew(m) => IsNew(m)'
      BY <1>1, <1>2, <2>1 DEF SetKeyWins
    <3>3. \A m \in Messages : m # Msg[d] => redis'[m] = redis[m]
      BY <2>1 DEF SetKeyWins, Base, Types
    <3>4. \A c \in Deliveries : pc'[c] = "done" => c = d \/ pc[c] = "done"
      BY <2>1 DEF SetKeyWins, Answer, Base, Types
    <3>. QED
      BY <1>5, <3>1, <3>2, <3>3, <3>4 DEF SetKey, Told
  <2>2. CASE SetKeyLoses(d) \/ SetKeyRaises(d)
    <3>1. Asking(Msg[d])' /\ \A m : Asking(m) => Asking(m)'
      BY <2>2 DEF SetKeyLoses, SetKeyRaises, Asking, Continue, Base, Types
    <3>2. \A m \in Messages : m # Msg[d] => redis'[m] = redis[m]
      BY <2>2 DEF SetKeyLoses, SetKeyRaises, Base, Types
    <3>3. \A c \in Deliveries : pc'[c] = "done" => pc[c] = "done"
      BY <2>2 DEF SetKeyLoses, SetKeyRaises, Continue, Base, Types
    <3>4. log' = log
      BY <2>2 DEF SetKeyLoses, SetKeyRaises, Continue
    <3>. QED
      BY <1>3, <1>5, <3>1, <3>2, <3>3, <3>4 DEF SetKey, Told
  <2>. QED
    BY <1>5, <2>1, <2>2 DEF SetKey
<1>6. ASSUME NEW d \in Deliveries, CheckMemory(d) PROVE Told'
  <2>1. Answer(d, ~Known(Msg[d]), "memory") /\ (~Known(Msg[d])) \in BOOLEAN
    BY <1>6 DEF CheckMemory
  <2>2. \A m : IsNew(m) => IsNew(m)'
    BY <1>1, <2>1
  <2>3. IsNew(Msg[d])'
    <3>1. CASE Known(Msg[d])
      BY <2>2, <3>1 DEF Known, Live, Told
    <3>2. CASE ~Known(Msg[d])
      BY <1>2, <2>1, <3>2
    <3>. QED
      BY <3>1, <3>2
  <2>4. \A e \in memory' : e.msg = Msg[d] \/ \E g \in memory : g.msg = e.msg
    <3>1. \A e \in Touched(Msg[d]) : \E g \in memory : g.msg = e.msg
      BY DEF Touched, Live, Base, Types
    <3>2. \A e \in LongerBy(Msg[d]) : e.msg = Msg[d] \/ \E g \in memory : g.msg = e.msg
      BY DEF LongerBy, Live
    <3>. QED
      BY <1>6, <3>1, <3>2, AddedIsTable DEF CheckMemory
  <2>5. \A m : Asking(m) => m = Msg[d] \/ Asking(m)'
    BY <2>1 DEF Asking, Answer, Base, Types
  <2>6. \A c \in Deliveries : pc'[c] = "done" => c = d \/ pc[c] = "done"
    BY <2>1 DEF Answer, Base, Types
  <2>. QED
    BY <1>6, <2>2, <2>3, <2>4, <2>5, <2>6 DEF CheckMemory, Told
<1>7. CASE Tick \/ UNCHANGED vars
  BY <1>3, <1>7 DEF Tick, vars, Told, Asking
<1>. QED
  BY <1>4, <1>5, <1>6, <1>7 DEF Next, IsDuplicate

-----------------------------------------------------------------------------
(* What the table forgets.                                                 *)

\* The messages asked about since an answer, other than that answer's.
SeenSince(i) ==
    {log[j].msg : j \in {x \in i..Len(log) : log[x].by = "memory"}} \ {log[i].msg}
Crowded(i) == Cardinality(SeenSince(i)) >= Capacity

\* An entry lives as long as the answers "new" about its message reach.
Dated ==
    /\ \A i \in DOMAIN log : log[i].at <= now
    /\ \A e \in memory : \A j \in Fresh("memory", e.msg) : log[j].at + Ttl <= e.exp

\* Within the TTL of an answer "new", and for each later answer about the
\* same message, either the table holds an entry used at least as late, or
\* it was asked about too many others since.
Holds(m, i) == \E e \in memory : e.msg = m /\ e.used >= i
Kept ==
    \A m \in Messages : \A j \in Fresh("memory", m), i \in Answers("memory", m) :
        j <= i /\ now < log[j].at + Ttl => Crowded(i) \/ Holds(m, i)

SeenAreFinite ==
    \A i \in DOMAIN log : IsFiniteSet(SeenSince(i)) /\ Cardinality(SeenSince(i)) \in Nat

LEMMA SeenIsFinite == Types => SeenAreFinite
<1> SUFFICES ASSUME Types, NEW i \in DOMAIN log
             PROVE  IsFiniteSet(SeenSince(i)) /\ Cardinality(SeenSince(i)) \in Nat
  BY DEF SeenAreFinite
<1>1. SeenSince(i) \subseteq Messages
  <2>1. DOMAIN log = 1..Len(log) /\ Len(log) \in Nat
    BY DEF Types
  <2>. QED
    BY <2>1, AnswersAreTyped DEF SeenSince
<1>. QED
  BY <1>1, MessagesAreFinite, FS_Subset, FS_CardinalityType

LEMMA SeenGrows ==
    ASSUME Types, Types', NEW d \in Deliveries, NEW fresh \in BOOLEAN, NEW by \in {"redis", "memory"},
           Answer(d, fresh, by), NEW i \in DOMAIN log
    PROVE  /\ SeenSince(i) \subseteq SeenSince(i)'
           /\ Crowded(i) => Crowded(i)'
           /\ \A k \in DOMAIN log : SeenBetween(i, k)' = SeenBetween(i, k)
           /\ \A k : k = ThisAnswer /\ log[i].msg = Msg[d] => SeenBetween(i, k)' = SeenSince(i)'
<1>1. /\ Len(log) \in Nat /\ DOMAIN log = 1..Len(log)
      /\ Len(log') = Len(log) + 1 /\ DOMAIN log' = 1..(Len(log) + 1)
  BY AnswerIsLast DEF ThisAnswer
<1>2. \A k \in DOMAIN log : log'[k] = log[k] /\ k \in DOMAIN log'
  BY AnswerIsLast
<1>3. \A x \in i..Len(log) : x \in DOMAIN log /\ x \in i..Len(log')
  BY <1>1
<1>4. SeenSince(i) \subseteq SeenSince(i)'
  BY <1>2, <1>3 DEF SeenSince
<1>5. i \in DOMAIN log'
  BY <1>2
<1>6. IsFiniteSet(SeenSince(i)') /\ Cardinality(SeenSince(i)') \in Nat
  <2>1. Types' => SeenAreFinite'
    BY SeenIsFinite, PTL
  <2>. QED
    BY <1>5, <2>1 DEF SeenAreFinite
<1>7. Cardinality(SeenSince(i)) <= Cardinality(SeenSince(i)')
  BY <1>4, <1>6, FS_Subset
<1>8. Crowded(i) => Crowded(i)'
  BY <1>6, <1>7, SeenIsFinite, DedupConstants DEF Crowded, SeenAreFinite
<1>9. \A k \in DOMAIN log : SeenBetween(i, k)' = SeenBetween(i, k)
  <2>1. \A k \in DOMAIN log : \A x \in i..k : x \in DOMAIN log
    BY <1>1
  <2>. QED
    BY <1>2, <2>1 DEF SeenBetween
<1>10. \A k : k = ThisAnswer /\ log[i].msg = Msg[d] => SeenBetween(i, k)' = SeenSince(i)'
  <2>1. log'[ThisAnswer] = [msg |-> Msg[d], at |-> now, fresh |-> fresh, by |-> by]
    BY AnswerIsLast
  <2>2. ThisAnswer = Len(log')
    BY AnswerIsLast
  <2>. QED
    BY <1>2, <2>1, <2>2 DEF SeenBetween, SeenSince
<1>. QED
  BY <1>4, <1>8, <1>9, <1>10

\* The entry that was least recently used goes only when Capacity others
\* were used since.
LEMMA EvictedIsCrowded ==
    ASSUME Base, Base', NEW d \in Deliveries, CheckMemory(d), ~Known(Msg[d]),
           NEW i \in DOMAIN log, NEW e \in Live, e \notin memory',
           log[i].msg = e.msg, e.used >= i
    PROVE  Crowded(i)'
<1> DEFINE m == Msg[d]
           about == [f \in memory' |-> f.msg]
<1>1. memory' \in Added(m) /\ Answer(d, ~Known(m), "memory") /\ (~Known(m)) \in BOOLEAN
  BY DEF CheckMemory
<1>2. e \in LongerBy(m)
  BY DEF LongerBy
<1>3. ~(Cardinality(LongerBy(m)) <= Capacity)
  BY <1>1, <1>2 DEF Added
<1>4. PICK old \in LeastUsed(LongerBy(m)) : memory' = LongerBy(m) \ {old}
  BY <1>1, <1>3 DEF Added
<1>5. old = e
  BY <1>2, <1>4
<1>6. \A f \in memory' : e.used <= f.used /\ f.msg # e.msg
  BY <1>1, <1>2, <1>4, <1>5, AddedIsTable DEF LeastUsed
<1>7. IsFiniteSet(LongerBy(m)) /\ Cardinality(LongerBy(m)) \in Nat
  BY <1>1, AddedIsTable, FS_CardinalityType
<1>8. /\ Cardinality(memory') = Cardinality(LongerBy(m)) - 1
      /\ IsFiniteSet(memory') /\ Cardinality(memory') \in Nat
  BY <1>2, <1>4, <1>5, <1>7, FS_RemoveElement, FS_CardinalityType
<1>9. Cardinality(memory') >= Capacity
  BY <1>3, <1>7, <1>8, DedupConstants
<1>10. /\ log'[i] = log[i] /\ i \in DOMAIN log'
       /\ DOMAIN log' = 1..Len(log') /\ Len(log') \in Nat /\ i \in Nat
  <2>1. log'[i] = log[i] /\ i \in DOMAIN log' /\ DOMAIN log = 1..Len(log) /\ Len(log) \in Nat
    BY <1>1, AnswerIsLast DEF Base
  <2>2. DOMAIN log' = 1..Len(log') /\ Len(log') \in Nat
    BY DEF Base, Types
  <2>. QED
    BY <2>1, <2>2
<1>11. \A f \in memory' : f.msg \in SeenSince(i)'
  <2> SUFFICES ASSUME NEW f \in memory' PROVE f.msg \in SeenSince(i)'
    OBVIOUS
  <2>1. f.used \in DOMAIN log' /\ log'[f.used].by = "memory" /\ log'[f.used].msg = f.msg
    BY DEF Base, Types, Table
  <2>2. e.used \in DOMAIN log
    BY DEF Base, Types, Live
  <2>3. e.used \in Nat
    <3>1. DOMAIN log = 1..Len(log) /\ Len(log) \in Nat
      BY DEF Base, Types
    <3>. QED
      BY <2>2, <3>1
  <2>4. f.used \in i..Len(log')
    BY <1>6, <1>10, <2>1, <2>3
  <2>5. f.msg # log'[i].msg
    BY <1>6, <1>10
  <2>. QED
    BY <2>1, <2>4, <2>5 DEF SeenSince
<1>12. \A f, g \in memory' : f.msg = g.msg => f = g
  BY DEF Base, Table
<1>13. about \in Injection(memory', SeenSince(i)')
  BY <1>11, <1>12 DEF Injection, IsInjective
<1>14. IsFiniteSet(SeenSince(i)') /\ Cardinality(SeenSince(i)') \in Nat
  <2>1. Types' => SeenAreFinite'
    BY SeenIsFinite, PTL
  <2>. QED
    BY <1>10, <2>1 DEF Base, SeenAreFinite
<1>15. Cardinality(memory') <= Cardinality(SeenSince(i)')
  BY <1>13, <1>14, FS_Injection
<1>. QED
  BY <1>8, <1>9, <1>14, <1>15, DedupConstants DEF Crowded

\* The new entry is not the one to go.
LEMMA NewIsKept ==
    ASSUME Base, NEW d \in Deliveries, CheckMemory(d), ~Known(Msg[d])
    PROVE  [msg |-> Msg[d], exp |-> now + Ttl, used |-> ThisAnswer] \in memory'
<1> DEFINE new == [msg |-> Msg[d], exp |-> now + Ttl, used |-> ThisAnswer]
<1>1. memory' \in Added(Msg[d])
  BY DEF CheckMemory
<1>2. new \in LongerBy(Msg[d])
  BY DEF LongerBy
<1>3. CASE Cardinality(LongerBy(Msg[d])) <= Capacity
  BY <1>1, <1>2, <1>3 DEF Added
<1>4. CASE ~(Cardinality(LongerBy(Msg[d])) <= Capacity)
  <2>1. PICK old \in LeastUsed(LongerBy(Msg[d])) : memory' = LongerBy(Msg[d]) \ {old}
    BY <1>1, <1>4 DEF Added
  <2>2. LongerBy(Msg[d]) # {new}
    <3>1. Cardinality({new}) = 1
      BY FS_Singleton
    <3>2. ~(1 <= Capacity) \/ LongerBy(Msg[d]) # {new}
      BY <1>4, <3>1
    <3>. QED
      BY <3>2, DedupConstants
  <2>3. PICK e \in Live : e \in LongerBy(Msg[d])
    BY <2>2 DEF LongerBy
  <2>4. e.used \in DOMAIN log /\ DOMAIN log = 1..Len(log) /\ Len(log) \in Nat
    BY DEF Live, Base, Types
  <2>5. e.used < new.used
    BY <2>4 DEF ThisAnswer
  <2>6. new.used \in Nat /\ e.used \in Nat
    BY <2>4 DEF ThisAnswer
  <2>7. old # new
    <3>1. old.used <= e.used
      BY <2>1, <2>3 DEF LeastUsed
    <3>. QED
      BY <2>5, <2>6, <3>1
  <2>. QED
    BY <1>2, <2>1, <2>7
<1>. QED
  BY <1>3, <1>4

LEMMA DatedNext == Base /\ Dated /\ [Next]_vars => Dated'
<1> SUFFICES ASSUME Base, Dated, [Next]_vars PROVE Dated'
  OBVIOUS
<1>1. \A m : \A j \in Fresh("memory", m) : j \in DOMAIN log /\ log[j].at \in Nat /\ log[j].at <= now
  BY AnswersAreTyped DEF Base, Dated, Fresh, Answers
<1>2. CASE log' = log /\ memory' = memory
  <2>1. now' \in Nat /\ now \in Nat /\ now' >= now
    <3>1. now' = now \/ now' = now + 1
      BY <1>2 DEF Next, vars, IsDuplicate, GetKey, SetKey, CheckMemory, Tick
    <3>2. now \in Nat
      BY DedupConstants DEF Base, Types
    <3>. QED
      BY <3>1, <3>2
  <2>2. \A m : Fresh("memory", m)' = Fresh("memory", m)
    BY <1>2 DEF Fresh, Answers
  <2>. QED
    <3>1. \A i \in DOMAIN log' : log'[i].at <= now'
      BY <1>2, <2>1, AnswersAreTyped DEF Dated, Base
    <3>2. \A e \in memory' : \A j \in Fresh("memory", e.msg)' : log'[j].at + Ttl <= e.exp
      BY <1>2, <2>2 DEF Dated
    <3>. QED
      BY <3>1, <3>2 DEF Dated
<1>3. ASSUME NEW d \in Deliveries, NEW fresh \in BOOLEAN, NEW by \in {"redis", "memory"},
             Answer(d, fresh, by), now' = now
      PROVE  \A i \in DOMAIN log' : log'[i].at <= now'
  <2>1. /\ \A i \in DOMAIN log : log'[i] = log[i]
        /\ \A i \in DOMAIN log' : i \in DOMAIN log \/ i = ThisAnswer
    <3>1. \A n \in Nat : \A i \in 1..(n+1) : i \in 1..n \/ i = n+1
      OBVIOUS
    <3>. QED
      BY <1>3, <3>1, AnswerIsLast DEF Base, ThisAnswer
  <2>2. log'[ThisAnswer].at = now
    <3>1. log'[ThisAnswer] = [msg |-> Msg[d], at |-> now, fresh |-> fresh, by |-> by]
      BY <1>3, AnswerIsLast DEF Base
    <3>. QED
      BY <3>1
  <2>3. now <= now
    BY DedupConstants DEF Base, Types
  <2>. QED
    BY <1>3, <2>1, <2>2, <2>3 DEF Dated
<1>4. ASSUME NEW d \in Deliveries, NEW fresh \in BOOLEAN,
             Answer(d, fresh, "redis"), UNCHANGED <<now, memory>>
      PROVE  Dated'
  <2>1. \A m : \A j \in Fresh("memory", m)' : j \in Fresh("memory", m)
    BY <1>4, AnswersGrow DEF Base
  <2>2. \A i \in DOMAIN log : log'[i] = log[i]
    BY <1>4, AnswerIsLast DEF Base
  <2>. QED
    BY <1>1, <1>3, <1>4, <2>1, <2>2 DEF Dated
<1>5. ASSUME NEW d \in Deliveries, CheckMemory(d) PROVE Dated'
  <2> DEFINE m == Msg[d]
             new == [msg |-> m, exp |-> now + Ttl, used |-> ThisAnswer]
  <2>1. Answer(d, ~Known(m), "memory") /\ (~Known(m)) \in BOOLEAN /\ now' = now
    BY <1>5 DEF CheckMemory
  <2>2. PICK fresh \in BOOLEAN : Answer(d, fresh, "memory") /\ (fresh <=> ~Known(m))
    BY <2>1
  <2>3. /\ \A i \in DOMAIN log : log'[i] = log[i]
        /\ log'[ThisAnswer].at = now
    <3>1. log'[ThisAnswer] = [msg |-> m, at |-> now, fresh |-> fresh, by |-> "memory"]
      BY <2>2, AnswerIsLast DEF Base
    <3>2. \A i \in DOMAIN log : log'[i] = log[i]
      BY <2>2, AnswerIsLast DEF Base
    <3>. QED
      BY <3>1, <3>2
  <2>4. \A n : \A j \in Fresh("memory", n)' : j \in Fresh("memory", n) \/ (j = ThisAnswer /\ n = m /\ ~Known(m))
    BY <2>2, AnswersGrow DEF Base
  <2>5. \A e \in memory' : \/ e = new /\ ~Known(m)
                           \/ \E g \in memory : g.msg = e.msg /\ g.exp = e.exp /\ (e.msg = m => Known(m))
    <3>1. CASE Known(m)
      <4>1. memory' = Touched(m)
        BY <1>5, <3>1 DEF CheckMemory
      <4>. QED
        BY <3>1, <4>1 DEF Touched, Live, Base, Types
    <3>2. CASE ~Known(m)
      <4>1. memory' \subseteq LongerBy(m)
        BY <1>5, <3>2, AddedIsTable DEF CheckMemory
      <4>. QED
        BY <3>2, <4>1 DEF LongerBy, Live, Known
    <3>. QED
      BY <3>1, <3>2
  <2>6. \A e \in memory' : \A j \in Fresh("memory", e.msg)' : log'[j].at + Ttl <= e.exp
    <3> SUFFICES ASSUME NEW e \in memory', NEW j \in Fresh("memory", e.msg)'
                 PROVE  log'[j].at + Ttl <= e.exp
      OBVIOUS
    <3>1. now \in Nat /\ Ttl \in Nat
      BY DedupConstants DEF Base, Types
    <3>2. CASE e = new
      <4>1. log'[j].at \in Nat /\ log'[j].at <= now
        BY <1>1, <2>3, <2>4, <3>1
      <4>. QED
        BY <3>1, <3>2, <4>1
    <3>3. CASE e # new
      <4>1. PICK g \in memory : g.msg = e.msg /\ g.exp = e.exp /\ (e.msg = m => Known(m))
        BY <2>5, <3>3
      <4>2. j \in Fresh("memory", g.msg)
        BY <2>4, <4>1
      <4>. QED
        BY <1>1, <2>3, <4>1, <4>2 DEF Dated
    <3>. QED
      BY <3>2, <3>3
  <2>7. \A i \in DOMAIN log' : log'[i].at <= now'
    BY <1>3, <2>1, <2>2
  <2>. QED
    BY <2>6, <2>7 DEF Dated
<1>. QED
  BY <1>2, <1>4, <1>5, NextAnswers

LEMMA KeptNext ==
    /\ Base /\ Dated /\ Kept /\ ForgetsOnlyWhenFull /\ [Next]_vars
    => Kept' /\ ForgetsOnlyWhenFull'
<1> SUFFICES ASSUME Base, Dated, Kept, ForgetsOnlyWhenFull, [Next]_vars
             PROVE  Kept' /\ ForgetsOnlyWhenFull'
  OBVIOUS
<1>1. Base'
  BY BaseNext
<1>2. \A m : \A j \in Fresh("memory", m) : j \in Answers("memory", m)
  BY DEF Fresh
<1>3. \A m : \A i \in Answers("memory", m) :
        i \in DOMAIN log /\ i \in Nat /\ i <= Len(log) /\ log[i].msg = m /\ log[i].at \in Nat
  BY AnswersAreTyped DEF Base, Types, Answers
<1>4. now \in Nat /\ now' \in Nat /\ now' >= now /\ Ttl \in Nat
  <2>1. now' = now \/ now' = now + 1
    BY DEF Next, vars, IsDuplicate, GetKey, SetKey, CheckMemory, Tick
  <2>2. now \in Nat
    BY DedupConstants DEF Base, Types
  <2>. QED
    BY <2>1, <2>2, DedupConstants
<1>5. CASE log' = log /\ memory' = memory
  <2>1. /\ \A m : Fresh("memory", m)' = Fresh("memory", m) /\ Answers("memory", m)' = Answers("memory", m)
        /\ \A m, i : Crowded(i)' = Crowded(i) /\ Holds(m, i)' = Holds(m, i)
        /\ \A i, k : SeenBetween(i, k)' = SeenBetween(i, k)
    BY <1>5 DEF Fresh, Answers, Crowded, SeenSince, SeenBetween, Holds
  <2>2. Kept'
    <3>1. \A m \in Messages : \A j \in Fresh("memory", m) : now' < log[j].at + Ttl => now < log[j].at + Ttl
      BY <1>2, <1>3, <1>4
    <3>. QED
      BY <1>5, <2>1, <3>1 DEF Kept
  <2>3. ForgetsOnlyWhenFull'
    BY <1>5, <2>1 DEF ForgetsOnlyWhenFull
  <2>. QED
    BY <2>2, <2>3
<1>6. ASSUME NEW d \in Deliveries, NEW fresh \in BOOLEAN,
             Answer(d, fresh, "redis"), UNCHANGED <<now, memory>>
      PROVE  Kept' /\ ForgetsOnlyWhenFull'
  <2>1. \A m : /\ \A j \in Fresh("memory", m)' : j \in Fresh("memory", m)
               /\ \A i \in Answers("memory", m)' : i \in Answers("memory", m)
    BY <1>6, AnswersGrow DEF Base
  <2>2. \A i \in DOMAIN log : log'[i] = log[i]
    BY <1>6, AnswerIsLast DEF Base
  <2>3. \A i, k \in DOMAIN log : (Crowded(i) => Crowded(i)') /\ SeenBetween(i, k)' = SeenBetween(i, k)
    BY <1>1, <1>6, SeenGrows DEF Base
  <2>4. \A m, i : Holds(m, i)' = Holds(m, i)
    BY <1>6 DEF Holds
  <2>5. Kept'
    BY <1>2, <1>3, <1>6, <2>1, <2>2, <2>3, <2>4 DEF Kept
  <2>6. ForgetsOnlyWhenFull'
    BY <1>2, <1>3, <2>1, <2>2, <2>3 DEF ForgetsOnlyWhenFull
  <2>. QED
    BY <2>5, <2>6
<1>7. ASSUME NEW d \in Deliveries, CheckMemory(d)
      PROVE  Kept' /\ ForgetsOnlyWhenFull'
  <2> DEFINE own == Msg[d]
  <2>1. PICK fresh \in BOOLEAN : Answer(d, fresh, "memory") /\ (fresh <=> ~Known(own)) /\ now' = now
    BY <1>7 DEF CheckMemory
  <2>2. /\ \A i \in DOMAIN log : log'[i] = log[i]
        /\ log'[ThisAnswer].at = now
        /\ ThisAnswer \in Nat /\ \A i \in Nat : i <= Len(log) => i < ThisAnswer
    <3>1. log'[ThisAnswer] = [msg |-> own, at |-> now, fresh |-> fresh, by |-> "memory"]
      BY <2>1, AnswerIsLast DEF Base
    <3>2. \A i \in DOMAIN log : log'[i] = log[i]
      BY <2>1, AnswerIsLast DEF Base
    <3>3. Len(log) \in Nat
      BY DEF Base, Types
    <3>. QED
      BY <3>1, <3>2, <3>3 DEF ThisAnswer
  <2>3. \A m : /\ \A j \in Fresh("memory", m)' :
                     j \in Fresh("memory", m) \/ (j = ThisAnswer /\ m = own /\ ~Known(own))
               /\ \A i \in Answers("memory", m)' :
                     i \in Answers("memory", m) \/ (i = ThisAnswer /\ m = own)
    BY <2>1, AnswersGrow DEF Base
  <2>4. \A i \in DOMAIN log :
          /\ Crowded(i) => Crowded(i)'
          /\ \A k \in DOMAIN log : SeenBetween(i, k)' = SeenBetween(i, k)
          /\ \A k : k = ThisAnswer /\ log[i].msg = own => SeenBetween(i, k)' = SeenSince(i)'
    BY <1>1, <2>1, SeenGrows DEF Base
  \* An entry that holds a message within the TTL of an answer "new" is live.
  <2>5. ASSUME NEW m \in Messages, NEW j \in Fresh("memory", m), now < log[j].at + Ttl,
               NEW e \in memory, e.msg = m
        PROVE  e \in Live
    <3>1. log[j].at + Ttl <= e.exp
      BY <2>5 DEF Dated
    <3>2. e.exp \in Nat
      <4>1. e.exp \in 1..(MaxTime + Ttl)
        BY <2>5 DEF Base, Types
      <4>. QED
        BY <4>1, DedupConstants
    <3>. QED
      BY <1>2, <1>3, <1>4, <2>5, <3>1, <3>2 DEF Live
  \* What a live entry holds, the table holds after the answer, if it is not
  \* crowded by then.
  <2>6. ASSUME NEW i \in DOMAIN log, NEW e \in Live, log[i].msg = e.msg, e.used >= i
        PROVE  Crowded(i)' \/ Holds(e.msg, i)'
    <3>1. e.used \in Nat /\ e.used <= Len(log) /\ i \in Nat
      BY DEF Base, Types, Live
    <3>2. CASE Known(own)
      <4> DEFINE moved == [e EXCEPT !.used = IF e.msg = own THEN ThisAnswer ELSE @]
      <4>1. moved \in memory'
        BY <1>7, <3>2 DEF CheckMemory, Touched
      <4>2. moved.msg = e.msg /\ (moved.used = ThisAnswer \/ moved.used = e.used)
        BY DEF Base, Types, Live
      <4>3. moved.used >= i
        BY <2>2, <2>6, <3>1, <4>2
      <4> HIDE DEF moved
      <4>. QED
        BY <4>1, <4>2, <4>3 DEF Holds
    <3>3. CASE ~Known(own) /\ e \in memory'
      BY <2>6, <3>3 DEF Holds
    <3>4. CASE ~Known(own) /\ e \notin memory'
      BY <1>1, <1>7, <2>6, <3>4, EvictedIsCrowded
    <3>. QED
      BY <3>2, <3>3, <3>4
  \* The table holds the message it was asked about.
  <2>7. \E e \in memory' : e.msg = own /\ e.used = ThisAnswer
    <3>1. CASE Known(own)
      <4>1. PICK e \in Live : e.msg = own
        BY <3>1 DEF Known
      <4>2. [e EXCEPT !.used = ThisAnswer] \in memory'
        BY <1>7, <3>1, <4>1 DEF CheckMemory, Touched
      <4>3. [e EXCEPT !.used = ThisAnswer].msg = own /\ [e EXCEPT !.used = ThisAnswer].used = ThisAnswer
        BY <4>1 DEF Base, Types, Live
      <4>. QED
        BY <4>2, <4>3
    <3>2. CASE ~Known(own)
      BY <1>7, <3>2, NewIsKept
    <3>. QED
      BY <3>1, <3>2
  <2>8. Kept'
    <3> SUFFICES ASSUME NEW m \in Messages, NEW j \in Fresh("memory", m)',
                        NEW i \in Answers("memory", m)', j <= i, now < log'[j].at + Ttl
                 PROVE  Crowded(i)' \/ Holds(m, i)'
      BY <2>1 DEF Kept
    <3>1. CASE i = ThisAnswer /\ m = own
      BY <2>2, <2>7, <3>1 DEF Holds
    <3>2. CASE i \in Answers("memory", m)
      <4>1. i \in DOMAIN log /\ i \in Nat /\ i <= Len(log) /\ log[i].msg = m
        BY <1>3, <3>2
      <4>2. j \in Fresh("memory", m)
        BY <2>2, <2>3, <4>1
      <4>3. log'[j] = log[j]
        BY <1>2, <1>3, <2>2, <4>2
      <4>4. Crowded(i) \/ \E e \in memory : e.msg = m /\ e.used >= i
        BY <3>2, <4>2, <4>3 DEF Kept, Holds
      <4>5. ASSUME NEW e \in memory, e.msg = m, e.used >= i PROVE Crowded(i)' \/ Holds(m, i)'
        <5>1. e \in Live
          BY <2>5, <4>2, <4>3, <4>5
        <5>. QED
          BY <2>6, <4>1, <4>5, <5>1
      <4>. QED
        BY <2>4, <4>1, <4>4, <4>5
    <3>. QED
      BY <2>3, <3>1, <3>2
  <2>9. ForgetsOnlyWhenFull'
    <3> SUFFICES ASSUME NEW m \in Messages, NEW j \in Fresh("memory", m)', NEW k \in Fresh("memory", m)',
                        j < k, log'[k].at < log'[j].at + Ttl,
                        NEW i \in Answers("memory", m)', j <= i, i < k
                 PROVE  Cardinality(SeenBetween(i, k)') >= Capacity
      BY DEF ForgetsOnlyWhenFull
    <3>1. k \in Nat /\ k <= ThisAnswer
      BY <1>2, <1>3, <2>2, <2>3
    <3>2. i \in Answers("memory", m)
      BY <2>2, <2>3, <3>1
    <3>3. /\ i \in DOMAIN log /\ i \in Nat /\ i <= Len(log) /\ log[i].msg = m
      BY <1>3, <3>2
    <3>4. j \in Fresh("memory", m)
      BY <2>2, <2>3, <3>3
    <3>5. log'[j] = log[j]
      BY <1>2, <1>3, <2>2, <3>4
    <3>6. CASE k \in Fresh("memory", m)
      <4>1. k \in DOMAIN log /\ log'[k] = log[k]
        BY <1>2, <1>3, <2>2, <3>6
      <4>2. Cardinality(SeenBetween(i, k)) >= Capacity
        BY <3>2, <3>4, <3>5, <3>6, <4>1 DEF ForgetsOnlyWhenFull
      <4>. QED
        BY <2>4, <3>3, <4>1, <4>2
    <3>7. CASE k = ThisAnswer /\ m = own /\ ~Known(own)
      <4>1. now < log[j].at + Ttl
        BY <2>2, <3>5, <3>7
      <4>2. ~Holds(m, i)
        BY <2>5, <3>4, <3>7, <4>1 DEF Holds, Known
      <4>3. Crowded(i)
        BY <3>2, <3>4, <4>1, <4>2 DEF Kept
      <4>4. Cardinality(SeenSince(i)') >= Capacity
        BY <2>4, <3>3, <4>3 DEF Crowded
      <4>. QED
        BY <2>4, <3>3, <3>7, <4>4
    <3>. QED
      BY <2>3, <3>6, <3>7
  <2>. QED
    BY <2>8, <2>9
<1>. QED
  BY <1>5, <1>6, <1>7, NextAnswers

-----------------------------------------------------------------------------
(* The theorems.                                                           *)

IInv ==
    /\ Base /\ KeyKept /\ RedisLetsOneThrough /\ Told
    /\ Dated /\ Kept /\ ForgetsOnlyWhenFull

LEMMA IInvHolds == Spec => []IInv
<1>1. Init => IInv
  <2> SUFFICES ASSUME Init PROVE IInv
    OBVIOUS
  <2>1. DOMAIN log = {}
    BY DEF Init
  <2>2. \A by, m : Answers(by, m) = {} /\ Fresh(by, m) = {}
    BY <2>1 DEF Answers, Fresh
  <2>3. KeyKept /\ RedisLetsOneThrough /\ Kept /\ ForgetsOnlyWhenFull
    BY <2>2 DEF KeyKept, RedisLetsOneThrough, Kept, ForgetsOnlyWhenFull
  <2>4. Told /\ Dated
    BY <2>1, MessageOf DEF Init, Told, Dated, FirstStep
  <2>. QED
    BY <2>3, <2>4, BaseInit DEF IInv
<1>2. IInv /\ [Next]_vars => IInv'
  BY BaseNext, RedisNext, ToldNext, DatedNext, KeptNext DEF IInv
<1>. QED
  BY <1>1, <1>2, PTL DEF Spec

\* Every variable has its type; the table is never over its capacity.
THEOREM TypeCorrect == Spec => []TypeOK
<1>1. IInv => TypeOK
  BY DEF IInv, Base, Types, Table, TypeOK
<1>. QED
  BY <1>1, IInvHolds, PTL

\* Redis lets a message through once in a TTL, whatever overlaps or raises.
THEOREM RedisIsExact == Spec => []RedisLetsOneThrough
<1>1. IInv => RedisLetsOneThrough
  BY DEF IInv
<1>. QED
  BY <1>1, IInvHolds, PTL

\* A message all of whose deliveries are answered was told to be new once.
THEOREM NothingIsDropped == Spec => []NoneDropped
<1>1. IInv => NoneDropped
  BY DEF IInv, Told, IsNew, Asking, NoneDropped, Messages
<1>. QED
  BY <1>1, IInvHolds, PTL

\* The table forgets a message within its TTL only under the pressure of
\* Capacity others.
THEOREM TableKeepsRecent == Spec => []ForgetsOnlyWhenFull
<1>1. IInv => ForgetsOnlyWhenFull
  BY DEF IInv
<1>. QED
  BY <1>1, IInvHolds, PTL
=============================================================================
