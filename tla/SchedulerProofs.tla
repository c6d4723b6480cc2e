-------------------------- MODULE SchedulerProofs --------------------------
(***************************************************************************)
(* Theorems of Scheduler, for every set of jobs, every configuration and   *)
(* whether or not the side effects raise.                                  *)
(***************************************************************************)
EXTENDS Scheduler, FiniteSetTheorems, SequenceTheorems, TLAPS

LiveOf(ph) == {j \in Jobs : ph[j] \in LivePhases}
QueuedOf(ph) == {j \in Jobs : ph[j] = "queued"}

\* q holds each member of S once and nothing else.
Holds(q, S) ==
    /\ \A i, k \in DOMAIN q : q[i] = q[k] => i = k
    /\ ToSet(q) = S

-----------------------------------------------------------------------------
(* The queue.                                                              *)

\* The place append-then-sort gives a job is a place of the longer queue.
LEMMA InsertPosInRange ==
    ASSUME NEW q \in Seq(Jobs), NEW j \in Jobs
    PROVE  InsertPos(q, j) \in 1..(Len(q) + 1)
<1> DEFINE U == {i \in DOMAIN q : Priority[q[i]] <= Priority[j]}
<1>1. DOMAIN q = 1..Len(q) /\ Len(q) \in Nat
  BY LenProperties
<1>2. IsFiniteSet(1..Len(q)) /\ Cardinality(1..Len(q)) = Len(q)
  BY <1>1, FS_Interval
<1>3. IsFiniteSet(U) /\ Cardinality(U) <= Len(q)
  BY <1>1, <1>2, FS_Subset
<1>4. Cardinality(U) \in Nat
  BY <1>3, FS_CardinalityType
<1>. QED
  BY <1>1, <1>3, <1>4 DEF InsertPos

\* What Enqueue returns, element by element.
LEMMA EnqueueElements ==
    ASSUME NEW q \in Seq(Jobs), NEW j \in Jobs
    PROVE  LET p == InsertPos(q, j) IN
           /\ Enqueue(q, j) \in Seq(Jobs)
           /\ Len(Enqueue(q, j)) = Len(q) + 1
           /\ \A i \in 1..(Len(q) + 1) :
                Enqueue(q, j)[i] = IF i < p THEN q[i]
                                   ELSE IF i = p THEN j ELSE q[i - 1]
<1> DEFINE p == InsertPos(q, j)
           a == SubSeq(q, 1, p - 1)
           b == SubSeq(q, p, Len(q))
<1>1. Len(q) \in Nat /\ \A i \in 1..Len(q) : q[i] \in Jobs
  BY LenProperties, ElementOfSeq
<1>2. p \in 1..(Len(q) + 1)
  BY InsertPosInRange
<1> HIDE DEF p
<1>3. /\ a \in Seq(Jobs) /\ Len(a) = p - 1
      /\ \A i \in 1..(p - 1) : a[i] = q[i]
  BY <1>1, <1>2, SubSeqProperties
<1>4. /\ b \in Seq(Jobs) /\ Len(b) = Len(q) - p + 1
      /\ \A i \in 1..(Len(q) - p + 1) : b[i] = q[p + i - 1]
  BY <1>1, <1>2, SubSeqProperties
<1>5. <<j>> \in Seq(Jobs) /\ Len(<<j>>) = 1 /\ <<j>>[1] = j
  OBVIOUS
<1> HIDE DEF a, b
<1> DEFINE c == a \o <<j>>
           d == c \o b
<1>6. /\ c \in Seq(Jobs) /\ Len(c) = p
      /\ \A i \in 1..p : c[i] = IF i < p THEN q[i] ELSE j
  BY <1>2, <1>3, <1>5, ConcatProperties
<1> HIDE DEF c
<1>7. /\ d \in Seq(Jobs) /\ Len(d) = Len(q) + 1
      /\ \A i \in 1..(Len(q) + 1) : d[i] = IF i <= p THEN c[i] ELSE b[i - p]
  BY <1>1, <1>2, <1>4, <1>6, ConcatProperties
<1>8. Enqueue(q, j) = d
  BY DEF Enqueue, InsertAt, a, b, c, d, p
<1> HIDE DEF d
<1>9. \A i \in 1..(Len(q) + 1) :
        d[i] = IF i < p THEN q[i] ELSE IF i = p THEN j ELSE q[i - 1]
  <2> SUFFICES ASSUME NEW i \in 1..(Len(q) + 1)
               PROVE  d[i] = IF i < p THEN q[i] ELSE IF i = p THEN j ELSE q[i - 1]
    OBVIOUS
  <2>1. CASE i <= p
    BY <1>1, <1>2, <1>6, <1>7, <2>1
  <2>2. CASE i > p
    <3>1. i - p \in 1..(Len(q) - p + 1) /\ p + (i - p) - 1 = i - 1
      BY <1>1, <1>2, <2>2
    <3>2. b[i - p] = q[i - 1]
      BY <1>4, <3>1
    <3>. QED BY <1>1, <1>2, <1>7, <2>2, <3>2
  <2>. QED BY <1>1, <1>2, <2>1, <2>2
<1>. QED
  BY <1>7, <1>8, <1>9 DEF p

\* Enqueue adds the job and drops nothing.
LEMMA EnqueueHolds ==
    ASSUME NEW q \in Seq(Jobs), NEW S, Holds(q, S), NEW j \in Jobs, j \notin S
    PROVE  /\ Enqueue(q, j) \in Seq(Jobs)
           /\ Enqueue(q, j) # <<>>
           /\ Len(Enqueue(q, j)) = Len(q) + 1
           /\ Holds(Enqueue(q, j), S \union {j})
<1> DEFINE p == InsertPos(q, j)
           r == Enqueue(q, j)
<1>1. /\ r \in Seq(Jobs) /\ Len(r) = Len(q) + 1
      /\ \A i \in 1..(Len(q) + 1) :
            r[i] = IF i < p THEN q[i] ELSE IF i = p THEN j ELSE q[i - 1]
  BY EnqueueElements
<1>2. p \in 1..(Len(q) + 1)
  BY InsertPosInRange
<1>3. /\ Len(q) \in Nat /\ DOMAIN q = 1..Len(q) /\ DOMAIN r = 1..(Len(q) + 1)
  BY <1>1, LenProperties
<1> HIDE DEF p, r
<1>4. \A i \in DOMAIN q : q[i] \in S /\ q[i] # j
  BY DEF Holds, ToSet
<1>5. \A i, k \in DOMAIN r : r[i] = r[k] => i = k
  <2> DEFINE f(i) == IF i < p THEN i ELSE i - 1
  <2>1. ASSUME NEW i \in DOMAIN r, i # p
        PROVE  f(i) \in DOMAIN q /\ r[i] = q[f(i)] /\ r[i] # j
    BY <1>1, <1>2, <1>3, <1>4, <2>1
  <2>2. r[p] = j
    BY <1>1, <1>2, <1>3
  <2>3. ASSUME NEW i \in DOMAIN r, NEW k \in DOMAIN r, r[i] = r[k]
        PROVE  i = k
    <3>1. CASE i = p \/ k = p
      BY <2>1, <2>2, <2>3, <3>1
    <3>2. CASE i # p /\ k # p
      <4>1. f(i) = f(k)
        BY <2>1, <2>3, <3>2 DEF Holds
      <4>. QED BY <1>2, <1>3, <3>2, <4>1
    <3>. QED BY <3>1, <3>2
  <2>. QED BY <2>3
<1>6. ToSet(r) \subseteq S \union {j}
  <2> SUFFICES ASSUME NEW i \in DOMAIN r PROVE r[i] \in S \union {j}
    BY DEF ToSet
  <2>1. CASE i < p
    BY <1>1, <1>2, <1>3, <1>4, <2>1
  <2>2. CASE i = p
    BY <1>1, <1>2, <1>3, <2>2
  <2>3. CASE i > p
    <3>1. i - 1 \in DOMAIN q /\ r[i] = q[i - 1]
      BY <1>1, <1>2, <1>3, <2>3
    <3>. QED BY <1>4, <3>1
  <2>. QED BY <1>2, <1>3, <2>1, <2>2, <2>3
<1>7. \A x \in S : \E i \in DOMAIN r : r[i] = x
  <2> SUFFICES ASSUME NEW x \in S PROVE \E i \in DOMAIN r : r[i] = x
    OBVIOUS
  <2>1. PICK i \in 1..Len(q) : q[i] = x
    BY <1>3 DEF Holds, ToSet
  <2>2. CASE i < p
    BY <1>1, <1>2, <1>3, <2>1, <2>2
  <2>3. CASE i >= p
    <3>1. i + 1 \in DOMAIN r /\ r[i + 1] = q[i]
      BY <1>1, <1>2, <1>3, <2>3
    <3>. QED BY <2>1, <3>1
  <2>. QED BY <1>2, <1>3, <2>1, <2>2, <2>3
<1>8. r[p] = j /\ p \in DOMAIN r
  BY <1>1, <1>2, <1>3
<1>9. S \union {j} \subseteq ToSet(r)
  BY <1>7, <1>8 DEF ToSet
<1>10. r # <<>>
  BY <1>1, <1>3
<1>. QED
  BY <1>1, <1>5, <1>6, <1>9, <1>10 DEF Holds, r

\* Tail takes exactly the head away.
LEMMA TailHolds ==
    ASSUME NEW q \in Seq(Jobs), NEW S, Holds(q, S), q # <<>>
    PROVE  /\ Head(q) \in S /\ Head(q) \in Jobs
           /\ Tail(q) \in Seq(Jobs)
           /\ Len(Tail(q)) = Len(q) - 1
           /\ Holds(Tail(q), S \ {Head(q)})
<1> DEFINE t == Tail(q)
<1>1. /\ Head(q) \in Jobs /\ t \in Seq(Jobs) /\ Len(t) = Len(q) - 1
      /\ \A i \in 1..Len(t) : t[i] = q[i + 1]
  BY HeadTailProperties
<1>2. /\ Len(q) \in Nat \ {0} /\ DOMAIN q = 1..Len(q) /\ Head(q) = q[1]
      /\ DOMAIN t = 1..(Len(q) - 1)
  BY <1>1, EmptySeq, LenProperties
<1> HIDE DEF t
<1>3. Head(q) \in S
  BY <1>2 DEF Holds, ToSet
<1>4. \A i, k \in DOMAIN t : t[i] = t[k] => i = k
  <2> SUFFICES ASSUME NEW i \in DOMAIN t, NEW k \in DOMAIN t, t[i] = t[k]
               PROVE  i = k
    OBVIOUS
  <2>1. /\ i + 1 \in DOMAIN q /\ k + 1 \in DOMAIN q
        /\ q[i + 1] = q[k + 1]
    BY <1>1, <1>2
  <2>2. i + 1 = k + 1
    BY <2>1 DEF Holds
  <2>. QED BY <1>2, <2>2
<1>5. ToSet(t) \subseteq S \ {Head(q)}
  <2> SUFFICES ASSUME NEW i \in DOMAIN t PROVE t[i] \in S \ {Head(q)}
    BY DEF ToSet
  <2>1. t[i] = q[i + 1] /\ i + 1 \in DOMAIN q /\ i + 1 # 1 /\ 1 \in DOMAIN q
    BY <1>1, <1>2
  <2>. QED BY <1>2, <2>1 DEF Holds, ToSet
<1>6. ASSUME NEW x \in S \ {Head(q)} PROVE \E i \in DOMAIN t : t[i] = x
  <2>1. PICK i \in 1..Len(q) : q[i] = x
    BY <1>2 DEF Holds, ToSet
  <2>2. i # 1 /\ i - 1 \in DOMAIN t /\ t[i - 1] = x
    BY <1>1, <1>2, <1>6, <2>1
  <2>. QED BY <2>2
<1>7. S \ {Head(q)} \subseteq ToSet(t)
  BY <1>6 DEF ToSet
<1>. QED
  BY <1>1, <1>3, <1>4, <1>5, <1>7 DEF Holds, t

-----------------------------------------------------------------------------
(* The live jobs.                                                          *)

\* Setting one job's phase changes the number of live jobs by what that job
\* contributes.
LEMMA LiveCount ==
    ASSUME NEW ph \in [Jobs -> Phases], NEW j \in Jobs, NEW s \in Phases
    PROVE  LET C(f) == Cardinality(LiveOf(f))
               new  == [ph EXCEPT ![j] = s]
           IN  /\ C(ph) \in Nat
               /\ ph[j] \in LivePhases /\ s \in LivePhases => C(new) = C(ph)
               /\ ph[j] \notin LivePhases /\ s \notin LivePhases => C(new) = C(ph)
               /\ ph[j] \notin LivePhases /\ s \in LivePhases => C(new) = C(ph) + 1
               /\ ph[j] \in LivePhases /\ s \notin LivePhases => C(new) = C(ph) - 1
<1> DEFINE new == [ph EXCEPT ![j] = s]
<1>1. IsFiniteSet(Jobs)
  BY ConfigType
<1>2. IsFiniteSet(LiveOf(ph)) /\ Cardinality(LiveOf(ph)) \in Nat
  BY <1>1, FS_Subset, FS_CardinalityType DEF LiveOf
<1>3. CASE s \in LivePhases
  <2>1. LiveOf(new) = LiveOf(ph) \union {j}
    BY <1>3 DEF LiveOf
  <2>2. Cardinality(LiveOf(new)) = IF j \in LiveOf(ph) THEN Cardinality(LiveOf(ph))
                                   ELSE Cardinality(LiveOf(ph)) + 1
    BY <1>2, <2>1, FS_AddElement
  <2>3. j \in LiveOf(ph) <=> ph[j] \in LivePhases
    BY DEF LiveOf
  <2>. QED BY <1>2, <1>3, <2>2, <2>3
<1>4. CASE s \notin LivePhases
  <2>1. LiveOf(new) = LiveOf(ph) \ {j}
    BY <1>4 DEF LiveOf
  <2>2. Cardinality(LiveOf(new)) = IF j \in LiveOf(ph) THEN Cardinality(LiveOf(ph)) - 1
                                   ELSE Cardinality(LiveOf(ph))
    BY <1>2, <2>1, FS_RemoveElement
  <2>3. j \in LiveOf(ph) <=> ph[j] \in LivePhases
    BY DEF LiveOf
  <2>. QED BY <1>2, <1>4, <2>2, <2>3
<1>. QED
  BY <1>3, <1>4

-----------------------------------------------------------------------------
(* The inductive invariant of the slots: the three properties of the slots *)
(* and the queue need each other, since the slot a job leaves is handed to *)
(* the head of the queue without asking whether it is free.                *)

SlotsInv ==
    /\ TypeOK
    /\ activeCount = Cardinality(LiveOf(phase))
    /\ activeCount <= MaxConcurrentTasks
    /\ NoIdleSlot
    /\ Holds(queue, QueuedOf(phase))

LEMMA SlotsInvInit == Init => SlotsInv
<1> SUFFICES ASSUME Init PROVE SlotsInv
  OBVIOUS
<1>1. TypeOK
  BY ConfigType DEF Init, TypeOK, Phases, LivePhases, Days
<1>2. LiveOf(phase) = {} /\ QueuedOf(phase) = {}
  BY DEF Init, LiveOf, QueuedOf, LivePhases
<1>3. Cardinality(LiveOf(phase)) = 0
  BY <1>2, FS_EmptySet
<1>4. Holds(queue, {})
  BY DEF Init, Holds, ToSet
<1>5. activeCount = 0 /\ queue = <<>>
  BY DEF Init
<1>6. activeCount = Cardinality(LiveOf(phase)) /\ activeCount <= MaxConcurrentTasks
  BY <1>3, <1>5, ConfigType
<1>7. Holds(queue, QueuedOf(phase)) /\ NoIdleSlot
  BY <1>2, <1>4, <1>5 DEF NoIdleSlot
<1>. QED
  BY <1>1, <1>6, <1>7 DEF SlotsInv

\* _task_completed with the queue q and the phases ph keeps the slots right,
\* when the caller's own slot is the one counted too many.
LEMMA TaskCompletedSlots ==
    ASSUME NEW q \in Seq(Jobs), NEW ph \in [Jobs -> Phases],
           activeCount = Cardinality(LiveOf(ph)) + 1,
           activeCount <= MaxConcurrentTasks,
           Len(q) > 1 => activeCount = MaxConcurrentTasks,
           Holds(q, QueuedOf(ph)),
           TaskCompleted(q, ph)
    PROVE  /\ activeCount' \in Nat
           /\ queue' \in Seq(Jobs)
           /\ phase' \in [Jobs -> Phases]
           /\ activeCount' = Cardinality(LiveOf(phase'))
           /\ activeCount' <= MaxConcurrentTasks
           /\ queue' # <<>> => activeCount' = MaxConcurrentTasks
           /\ Holds(queue', QueuedOf(phase'))
<1>1. Cardinality(LiveOf(ph)) \in Nat
  <2>1. LiveOf(ph) \subseteq Jobs
    BY DEF LiveOf
  <2>. QED BY <2>1, ConfigType, FS_Subset, FS_CardinalityType
<1>2. CASE q = <<>>
  BY <1>1, <1>2, ConfigType DEF TaskCompleted
<1>3. CASE q # <<>>
  <2> DEFINE h == Head(q)
             new == [ph EXCEPT ![h] = "executing"]
  <2>1. /\ h \in QueuedOf(ph) /\ h \in Jobs
        /\ Tail(q) \in Seq(Jobs) /\ Len(Tail(q)) = Len(q) - 1
        /\ Holds(Tail(q), QueuedOf(ph) \ {h})
    BY <1>3, TailHolds
  <2>2. ph[h] = "queued" /\ ph[h] \notin LivePhases
    BY <2>1 DEF QueuedOf, LivePhases
  <2>3. "executing" \in LivePhases /\ "executing" \in Phases
    BY DEF LivePhases, Phases
  <2>4. Cardinality(LiveOf(new)) = Cardinality(LiveOf(ph)) + 1
    BY <2>1, <2>2, <2>3, LiveCount
  <2>5. QueuedOf(new) = QueuedOf(ph) \ {h}
    BY <2>1 DEF QueuedOf
  <2>6. /\ activeCount' = (activeCount - 1) + 1
        /\ queue' = Tail(q) /\ phase' = new
    BY <1>3 DEF TaskCompleted
  <2>7. new \in [Jobs -> Phases]
    BY <2>3
  <2>8. Tail(q) # <<>> => Len(q) > 1
    BY <2>1, LenProperties, EmptySeq
  <2> HIDE DEF new, h
  <2>9. activeCount' = activeCount /\ activeCount' \in Nat
    BY <1>1, <2>6
  <2>10. activeCount' = Cardinality(LiveOf(phase'))
    BY <1>1, <2>4, <2>6, <2>9
  <2>11. queue' # <<>> => activeCount' = MaxConcurrentTasks
    BY <2>6, <2>8, <2>9
  <2>12. Holds(queue', QueuedOf(phase'))
    BY <2>1, <2>5, <2>6
  <2>. QED
    BY <2>1, <2>6, <2>7, <2>9, <2>10, <2>11, <2>12
<1>. QED
  BY <1>2, <1>3

\* A step that moves a live job to another live phase keeps the slots.
LEMMA StayLiveSlots ==
    ASSUME SlotsInv, NEW j \in Jobs, NEW s \in LivePhases,
           phase[j] \in LivePhases,
           phase' = [phase EXCEPT ![j] = s], UNCHANGED slots
    PROVE  /\ phase' \in [Jobs -> Phases]
           /\ activeCount' = Cardinality(LiveOf(phase'))
           /\ activeCount' <= MaxConcurrentTasks
           /\ NoIdleSlot'
           /\ Holds(queue', QueuedOf(phase'))
<1>1. phase \in [Jobs -> Phases] /\ s \in Phases
  BY DEF SlotsInv, TypeOK, Phases
<1>2. Cardinality(LiveOf(phase')) = Cardinality(LiveOf(phase))
  BY <1>1, LiveCount
<1>3. QueuedOf(phase') = QueuedOf(phase)
  BY <1>1 DEF QueuedOf, LivePhases
<1>. QED
  BY <1>1, <1>2, <1>3 DEF SlotsInv, NoIdleSlot, slots

\* A live job ends: the finally clause.
LEMMA FinishSlots ==
    ASSUME SlotsInv, NEW j \in Jobs, phase[j] \in LivePhases, Finish(j)
    PROVE  /\ activeCount' \in Nat
           /\ queue' \in Seq(Jobs)
           /\ phase' \in [Jobs -> Phases]
           /\ inExcept' \in [Jobs -> BOOLEAN]
           /\ activeCount' = Cardinality(LiveOf(phase'))
           /\ activeCount' <= MaxConcurrentTasks
           /\ NoIdleSlot'
           /\ Holds(queue', QueuedOf(phase'))
<1> DEFINE ph == [phase EXCEPT ![j] = "done"]
<1>1. /\ phase \in [Jobs -> Phases] /\ "done" \in Phases
      /\ "done" \notin LivePhases
      /\ inExcept \in [Jobs -> BOOLEAN] /\ queue \in Seq(Jobs)
  BY DEF SlotsInv, TypeOK, Phases, LivePhases
<1>2. ph \in [Jobs -> Phases]
  BY <1>1
<1>3. activeCount = Cardinality(LiveOf(ph)) + 1
  <2>1. /\ Cardinality(LiveOf(phase)) \in Nat
        /\ Cardinality(LiveOf(ph)) = Cardinality(LiveOf(phase)) - 1
    BY <1>1, LiveCount
  <2>. QED BY <2>1 DEF SlotsInv
<1>4. QueuedOf(ph) = QueuedOf(phase)
  BY <1>1 DEF QueuedOf, LivePhases
<1>5. Len(queue) > 1 => activeCount = MaxConcurrentTasks
  BY EmptySeq DEF SlotsInv, NoIdleSlot
<1>6. TaskCompleted(queue, ph)
  BY DEF Finish
<1>7. activeCount <= MaxConcurrentTasks /\ Holds(queue, QueuedOf(ph))
  BY <1>4 DEF SlotsInv
<1> HIDE DEF ph
<1>8. /\ activeCount' \in Nat
      /\ queue' \in Seq(Jobs)
      /\ phase' \in [Jobs -> Phases]
      /\ activeCount' = Cardinality(LiveOf(phase'))
      /\ activeCount' <= MaxConcurrentTasks
      /\ queue' # <<>> => activeCount' = MaxConcurrentTasks
      /\ Holds(queue', QueuedOf(phase'))
  BY <1>1, <1>2, <1>3, <1>5, <1>6, <1>7, TaskCompletedSlots
<1>. QED
  BY <1>1, <1>8 DEF NoIdleSlot, Finish

\* A live job fails: it is queued again and its slot handed on, or its final
\* failure begins.
LEMMA HandleTaskFailureSlots ==
    ASSUME SlotsInv, NEW j \in Jobs, phase[j] \in LivePhases,
           NEW e \in BOOLEAN, HandleTaskFailure(j, e)
    PROVE  /\ activeCount' \in Nat
           /\ queue' \in Seq(Jobs)
           /\ phase' \in [Jobs -> Phases]
           /\ inExcept' \in [Jobs -> BOOLEAN]
           /\ retryCount' \in [Jobs -> Nat]
           /\ future' \in [Jobs -> {"pending", "success", "failure"}]
           /\ activeCount' = Cardinality(LiveOf(phase'))
           /\ activeCount' <= MaxConcurrentTasks
           /\ NoIdleSlot'
           /\ Holds(queue', QueuedOf(phase'))
<1>1. TypeOK
  BY DEF SlotsInv
<1>2. CASE RetriesLeft(j)
  <2> DEFINE ph == [phase EXCEPT ![j] = "queued"]
             q  == Enqueue(queue, j)
  <2>1. /\ retryCount' = [retryCount EXCEPT ![j] = @ + 1]
        /\ inExcept' = [inExcept EXCEPT ![j] = FALSE]
        /\ future' = future
        /\ TaskCompleted(q, ph)
    BY <1>2 DEF HandleTaskFailure
  <2>2. ph \in [Jobs -> Phases] /\ "queued" \notin LivePhases /\ "queued" \in Phases
    BY <1>1 DEF TypeOK, Phases, LivePhases
  <2>3. activeCount = Cardinality(LiveOf(ph)) + 1
    <3>1. phase \in [Jobs -> Phases]
      BY <1>1 DEF TypeOK
    <3>2. /\ Cardinality(LiveOf(phase)) \in Nat
          /\ Cardinality(LiveOf(ph)) = Cardinality(LiveOf(phase)) - 1
      BY <2>2, <3>1, LiveCount
    <3>. QED BY <3>2 DEF SlotsInv
  <2>4. j \notin QueuedOf(phase) /\ QueuedOf(ph) = QueuedOf(phase) \union {j}
    BY <1>1 DEF QueuedOf, LivePhases, TypeOK
  <2>5. /\ q \in Seq(Jobs) /\ Len(q) = Len(queue) + 1
        /\ Holds(q, QueuedOf(ph))
    <3>1. queue \in Seq(Jobs) /\ Holds(queue, QueuedOf(phase))
      BY <1>1 DEF SlotsInv, TypeOK
    <3>2. j \notin QueuedOf(phase)
      BY <2>4
    <3>3. /\ Enqueue(queue, j) \in Seq(Jobs)
          /\ Len(Enqueue(queue, j)) = Len(queue) + 1
          /\ Holds(Enqueue(queue, j), QueuedOf(phase) \union {j})
      BY <3>1, <3>2, EnqueueHolds
    <3>. QED BY <2>4, <3>3
  <2>6. Len(q) > 1 => activeCount = MaxConcurrentTasks
    <3>1. Len(q) > 1 => queue # <<>>
      BY <2>5, EmptySeq
    <3>. QED BY <3>1 DEF SlotsInv, NoIdleSlot
  <2>7. activeCount <= MaxConcurrentTasks
    BY DEF SlotsInv
  <2> HIDE DEF q, ph
  <2>8. /\ activeCount' \in Nat
        /\ queue' \in Seq(Jobs)
        /\ phase' \in [Jobs -> Phases]
        /\ activeCount' = Cardinality(LiveOf(phase'))
        /\ activeCount' <= MaxConcurrentTasks
        /\ queue' # <<>> => activeCount' = MaxConcurrentTasks
        /\ Holds(queue', QueuedOf(phase'))
    BY <2>1, <2>2, <2>3, <2>5, <2>6, <2>7, TaskCompletedSlots
  <2>9. /\ inExcept' \in [Jobs -> BOOLEAN] /\ retryCount' \in [Jobs -> Nat]
        /\ future' \in [Jobs -> {"pending", "success", "failure"}]
    BY <1>1, <2>1 DEF TypeOK
  <2>. QED
    BY <2>8, <2>9 DEF NoIdleSlot
<1>3. CASE ~RetriesLeft(j)
  <2>1. /\ phase' = [phase EXCEPT ![j] = "failing"]
        /\ future' = [future EXCEPT ![j] = IF @ = "pending" THEN "failure" ELSE @]
        /\ inExcept' = [inExcept EXCEPT ![j] = e]
        /\ UNCHANGED <<slots, retryCount>>
    BY <1>3 DEF HandleTaskFailure
  <2>2. "failing" \in LivePhases
    BY DEF LivePhases
  <2>3. /\ phase' \in [Jobs -> Phases]
        /\ activeCount' = Cardinality(LiveOf(phase'))
        /\ activeCount' <= MaxConcurrentTasks
        /\ NoIdleSlot'
        /\ Holds(queue', QueuedOf(phase'))
    BY <2>1, <2>2, StayLiveSlots
  <2>4. /\ activeCount' \in Nat /\ queue' \in Seq(Jobs)
        /\ inExcept' \in [Jobs -> BOOLEAN] /\ retryCount' \in [Jobs -> Nat]
    BY <1>1, <2>1 DEF TypeOK, slots
  <2>5. future' \in [Jobs -> {"pending", "success", "failure"}]
    BY <1>1, <2>1 DEF TypeOK
  <2>. QED
    BY <2>3, <2>4, <2>5
<1>. QED
  BY <1>2, <1>3

\* A submission keeps the slots: it takes a free one, or waits because none
\* is.
LEMMA SubmitSlots ==
    ASSUME SlotsInv, NEW j \in Jobs, SubmitAccepted(j)
    PROVE  /\ activeCount' \in Nat
           /\ queue' \in Seq(Jobs)
           /\ phase' \in [Jobs -> Phases]
           /\ activeCount' = Cardinality(LiveOf(phase'))
           /\ activeCount' <= MaxConcurrentTasks
           /\ NoIdleSlot'
           /\ Holds(queue', QueuedOf(phase'))
<1>1. /\ phase \in [Jobs -> Phases] /\ queue \in Seq(Jobs) /\ activeCount \in Nat
      /\ phase[j] = "new"
      /\ activeCount = Cardinality(LiveOf(phase))
      /\ activeCount <= MaxConcurrentTasks
      /\ Holds(queue, QueuedOf(phase))
  BY DEF SlotsInv, TypeOK, SubmitAccepted
<1>2. "new" \notin LivePhases /\ "executing" \in LivePhases /\ "queued" \notin LivePhases
  BY DEF LivePhases
<1>3. "executing" \in Phases /\ "queued" \in Phases
  BY DEF Phases, LivePhases
<1>4. CASE StartNow(j)
  <2>1. /\ activeCount < MaxConcurrentTasks /\ activeCount' = activeCount + 1
        /\ phase' = [phase EXCEPT ![j] = "executing"] /\ queue' = queue
    BY <1>4 DEF StartNow
  <2>2. Cardinality(LiveOf(phase')) = Cardinality(LiveOf(phase)) + 1
    BY <1>1, <1>2, <1>3, <2>1, LiveCount
  <2>3. QueuedOf(phase') = QueuedOf(phase)
    BY <1>1, <2>1 DEF QueuedOf
  <2>4. queue = <<>>
    BY <1>1, <2>1, ConfigType DEF SlotsInv, NoIdleSlot
  <2>5. phase' \in [Jobs -> Phases]
    BY <1>1, <1>3, <2>1
  <2>. QED
    BY <1>1, <2>1, <2>2, <2>3, <2>4, <2>5, ConfigType DEF NoIdleSlot
<1>5. CASE Queue(j)
  <2>1. /\ activeCount >= MaxConcurrentTasks /\ activeCount' = activeCount
        /\ phase' = [phase EXCEPT ![j] = "queued"]
        /\ queue' = Enqueue(queue, j)
    BY <1>5 DEF Queue
  <2>2. Cardinality(LiveOf(phase')) = Cardinality(LiveOf(phase))
    BY <1>1, <1>2, <1>3, <2>1, LiveCount
  <2>3. QueuedOf(phase') = QueuedOf(phase) \union {j} /\ j \notin QueuedOf(phase)
    BY <1>1, <2>1 DEF QueuedOf
  <2>4. /\ Enqueue(queue, j) \in Seq(Jobs)
        /\ Holds(Enqueue(queue, j), QueuedOf(phase) \union {j})
    BY <1>1, <2>3, EnqueueHolds
  <2>5. phase' \in [Jobs -> Phases]
    BY <1>1, <1>3, <2>1
  <2>6. activeCount = MaxConcurrentTasks
    BY <1>1, <2>1, ConfigType
  <2>. QED
    BY <1>1, <2>1, <2>2, <2>3, <2>4, <2>5, <2>6 DEF NoIdleSlot
<1>. QED
  BY <1>4, <1>5 DEF SubmitAccepted

\* The awaited side effects of a live job raise.
LEMMA SideEffectRaisesSlots ==
    ASSUME SlotsInv, NEW j \in Jobs, phase[j] \in LivePhases, SideEffectRaises(j)
    PROVE  /\ activeCount' \in Nat
           /\ queue' \in Seq(Jobs)
           /\ phase' \in [Jobs -> Phases]
           /\ inExcept' \in [Jobs -> BOOLEAN]
           /\ retryCount' \in [Jobs -> Nat]
           /\ future' \in [Jobs -> {"pending", "success", "failure"}]
           /\ activeCount' = Cardinality(LiveOf(phase'))
           /\ activeCount' <= MaxConcurrentTasks
           /\ NoIdleSlot'
           /\ Holds(queue', QueuedOf(phase'))
<1>1. CASE ~inExcept[j] /\ HandleTaskFailure(j, TRUE)
  BY <1>1, HandleTaskFailureSlots
<1>2. CASE inExcept[j] /\ Finish(j) /\ UNCHANGED <<retryCount, future>>
  <2>1. /\ retryCount' \in [Jobs -> Nat]
        /\ future' \in [Jobs -> {"pending", "success", "failure"}]
    BY <1>2 DEF SlotsInv, TypeOK
  <2>. QED BY <1>2, <2>1, FinishSlots
<1>. QED
  BY <1>1, <1>2 DEF SideEffectRaises

LEMMA SlotsInvNext == SlotsInv /\ [Next]_vars => SlotsInv'
<1> SUFFICES ASSUME SlotsInv, [Next]_vars PROVE SlotsInv'
  OBVIOUS
<1>1. TypeOK
  BY DEF SlotsInv
<1>2. ASSUME NEW j \in Jobs, SubmitRejected(j) PROVE SlotsInv'
  <2>1. /\ phase[j] = "new" /\ phase' = [phase EXCEPT ![j] = "rejected"]
        /\ activeCount' = activeCount /\ queue' = queue
    BY <1>2 DEF SubmitRejected, slots
  <2>2. "rejected" \in Phases /\ "rejected" \notin LivePhases /\ "new" \notin LivePhases
    BY DEF Phases, LivePhases
  <2>3. Cardinality(LiveOf(phase')) = Cardinality(LiveOf(phase))
    BY <1>1, <2>1, <2>2, LiveCount DEF TypeOK
  <2>4. QueuedOf(phase') = QueuedOf(phase)
    BY <1>1, <2>1 DEF QueuedOf, TypeOK
  <2>5. TypeOK'
    BY <1>1, <1>2, <2>1, <2>2 DEF TypeOK, SubmitRejected, RefreshedCount
  <2>. QED
    BY <2>1, <2>3, <2>4, <2>5 DEF SlotsInv, NoIdleSlot
<1>3. ASSUME NEW j \in Jobs, SubmitAccepted(j) PROVE SlotsInv'
  <2>1. /\ activeCount' \in Nat /\ queue' \in Seq(Jobs) /\ phase' \in [Jobs -> Phases]
        /\ activeCount' = Cardinality(LiveOf(phase'))
        /\ activeCount' <= MaxConcurrentTasks
        /\ NoIdleSlot' /\ Holds(queue', QueuedOf(phase'))
    BY <1>3, SubmitSlots
  <2>2. TypeOK'
    <3>1. /\ countDate' = today /\ dailyCount' = RefreshedCount + 1
          /\ acceptedOn' = [acceptedOn EXCEPT ![today] = @ \union {j}]
          /\ UNCHANGED <<today, inExcept, retryCount, future, deadLetters,
                         successes, failures>>
      BY <1>3 DEF SubmitAccepted
    <3>2. dailyCount' \in Nat /\ countDate' \in Nat
      BY <1>1, <3>1 DEF TypeOK, RefreshedCount
    <3>3. acceptedOn' \in [Days -> SUBSET Jobs]
      BY <1>1, <3>1 DEF TypeOK
    <3>. QED
      BY <1>1, <2>1, <3>1, <3>2, <3>3 DEF TypeOK
  <2>. QED
    BY <2>1, <2>2 DEF SlotsInv
<1>4. ASSUME NEW j \in Jobs, ExecuteSucceeds(j) PROVE SlotsInv'
  <2>1. /\ phase[j] \in LivePhases /\ "completing" \in LivePhases
        /\ phase' = [phase EXCEPT ![j] = "completing"] /\ UNCHANGED slots
    BY <1>4 DEF ExecuteSucceeds, LivePhases
  <2>2. /\ phase' \in [Jobs -> Phases]
        /\ activeCount' = Cardinality(LiveOf(phase'))
        /\ activeCount' <= MaxConcurrentTasks
        /\ NoIdleSlot' /\ Holds(queue', QueuedOf(phase'))
    BY <2>1, StayLiveSlots
  <2>3. TypeOK'
    <3>1. /\ successes' = [successes EXCEPT ![j] = @ + 1]
          /\ future' = [future EXCEPT ![j] = IF @ = "pending" THEN "success" ELSE @]
          /\ UNCHANGED <<slots, counters, inExcept, retryCount, deadLetters, failures>>
      BY <1>4 DEF ExecuteSucceeds
    <3>2. successes' \in [Jobs -> Nat]
      BY <1>1, <3>1 DEF TypeOK
    <3>3. future' \in [Jobs -> {"pending", "success", "failure"}]
      BY <1>1, <3>1 DEF TypeOK
    <3>. QED
      BY <1>1, <2>2, <3>1, <3>2, <3>3 DEF TypeOK, slots, counters
  <2>. QED
    BY <2>2, <2>3 DEF SlotsInv
<1>5. ASSUME NEW j \in Jobs, ExecuteFails(j) \/ ExecuteRaises(j) PROVE SlotsInv'
  <2>1. PICK e \in BOOLEAN : HandleTaskFailure(j, e)
    BY <1>5 DEF ExecuteFails, ExecuteRaises
  <2>2. /\ phase[j] \in LivePhases
        /\ failures' = [failures EXCEPT ![j] = @ + 1]
        /\ UNCHANGED <<counters, deadLetters, successes>>
    BY <1>5 DEF ExecuteFails, ExecuteRaises, LivePhases
  <2>3. /\ activeCount' \in Nat /\ queue' \in Seq(Jobs) /\ phase' \in [Jobs -> Phases]
        /\ inExcept' \in [Jobs -> BOOLEAN] /\ retryCount' \in [Jobs -> Nat]
        /\ future' \in [Jobs -> {"pending", "success", "failure"}]
        /\ activeCount' = Cardinality(LiveOf(phase'))
        /\ activeCount' <= MaxConcurrentTasks
        /\ NoIdleSlot' /\ Holds(queue', QueuedOf(phase'))
    BY <2>1, <2>2, HandleTaskFailureSlots
  <2>4. TypeOK'
    <3>1. failures' \in [Jobs -> Nat]
      BY <1>1, <2>2 DEF TypeOK
    <3>. QED
      BY <1>1, <2>2, <2>3, <3>1 DEF TypeOK, counters
  <2>. QED
    BY <2>3, <2>4 DEF SlotsInv
<1>6. ASSUME NEW j \in Jobs, CompletionPublished(j) \/ DeadLetterAnnounced(j)
      PROVE  SlotsInv'
  <2>1. /\ phase[j] \in LivePhases /\ Finish(j)
        /\ UNCHANGED <<counters, retryCount, future, deadLetters, successes, failures>>
    BY <1>6 DEF CompletionPublished, DeadLetterAnnounced, LivePhases
  <2>2. /\ activeCount' \in Nat /\ queue' \in Seq(Jobs) /\ phase' \in [Jobs -> Phases]
        /\ inExcept' \in [Jobs -> BOOLEAN]
        /\ activeCount' = Cardinality(LiveOf(phase'))
        /\ activeCount' <= MaxConcurrentTasks
        /\ NoIdleSlot' /\ Holds(queue', QueuedOf(phase'))
    BY <2>1, FinishSlots
  <2>3. TypeOK'
    BY <1>1, <2>1, <2>2 DEF TypeOK, counters
  <2>. QED
    BY <2>2, <2>3 DEF SlotsInv
<1>7. ASSUME NEW j \in Jobs, FailurePublished(j) PROVE SlotsInv'
  <2>1. /\ phase[j] \in LivePhases /\ "deadLettering" \in LivePhases
        /\ phase' = [phase EXCEPT ![j] = "deadLettering"] /\ UNCHANGED slots
    BY <1>7 DEF FailurePublished, LivePhases
  <2>2. /\ phase' \in [Jobs -> Phases]
        /\ activeCount' = Cardinality(LiveOf(phase'))
        /\ activeCount' <= MaxConcurrentTasks
        /\ NoIdleSlot' /\ Holds(queue', QueuedOf(phase'))
    BY <2>1, StayLiveSlots
  <2>3. TypeOK'
    BY <1>1, <1>7, <2>2 DEF TypeOK, FailurePublished, slots, counters
  <2>. QED
    BY <2>2, <2>3 DEF SlotsInv
<1>8. ASSUME NEW j \in Jobs, DeadLettered(j) PROVE SlotsInv'
  <2>1. /\ phase[j] \in LivePhases /\ "announcing" \in LivePhases
        /\ phase' = [phase EXCEPT ![j] = "announcing"] /\ UNCHANGED slots
    BY <1>8 DEF DeadLettered, LivePhases
  <2>2. /\ phase' \in [Jobs -> Phases]
        /\ activeCount' = Cardinality(LiveOf(phase'))
        /\ activeCount' <= MaxConcurrentTasks
        /\ NoIdleSlot' /\ Holds(queue', QueuedOf(phase'))
    BY <2>1, StayLiveSlots
  <2>3. TypeOK'
    BY <1>1, <1>8, <2>2 DEF TypeOK, DeadLettered, slots, counters
  <2>. QED
    BY <2>2, <2>3 DEF SlotsInv
<1>9. ASSUME NEW j \in Jobs, PublishRaises(j) \/ DeadLetterRaises(j) PROVE SlotsInv'
  <2>1. /\ phase[j] \in LivePhases /\ SideEffectRaises(j)
        /\ UNCHANGED <<counters, deadLetters, successes, failures>>
    BY <1>9 DEF PublishRaises, DeadLetterRaises, LivePhases
  <2>2. /\ activeCount' \in Nat /\ queue' \in Seq(Jobs) /\ phase' \in [Jobs -> Phases]
        /\ inExcept' \in [Jobs -> BOOLEAN] /\ retryCount' \in [Jobs -> Nat]
        /\ future' \in [Jobs -> {"pending", "success", "failure"}]
        /\ activeCount' = Cardinality(LiveOf(phase'))
        /\ activeCount' <= MaxConcurrentTasks
        /\ NoIdleSlot' /\ Holds(queue', QueuedOf(phase'))
    BY <2>1, SideEffectRaisesSlots
  <2>3. TypeOK'
    BY <1>1, <2>1, <2>2 DEF TypeOK, counters
  <2>. QED
    BY <2>2, <2>3 DEF SlotsInv
<1>10. CASE DayPasses
  <2>1. /\ phase' = phase /\ activeCount' = activeCount /\ queue' = queue
    BY <1>10 DEF DayPasses, slots
  <2>2. TypeOK'
    BY <1>1, <1>10 DEF TypeOK, DayPasses, slots
  <2>. QED
    BY <2>1, <2>2 DEF SlotsInv, NoIdleSlot
<1>11. CASE UNCHANGED vars
  <2>1. /\ phase' = phase /\ activeCount' = activeCount /\ queue' = queue
    BY <1>11 DEF vars
  <2>2. TypeOK'
    BY <1>1, <1>11 DEF TypeOK, vars
  <2>. QED
    BY <2>1, <2>2 DEF SlotsInv, NoIdleSlot
<1>. QED
  BY <1>2, <1>3, <1>4, <1>5, <1>6, <1>7, <1>8, <1>9, <1>10, <1>11
     DEF Next, SubmitTask, RunTask

\* The invariant of the slots holds in every state of every behaviour.
THEOREM SlotsInvariant == Spec => []SlotsInv
BY SlotsInvInit, SlotsInvNext, PTL DEF Spec

\* Every variable has its type in every state: _active_count is never
\* negative.
THEOREM TypeCorrect == Spec => []TypeOK
<1>1. SlotsInv => TypeOK
  BY DEF SlotsInv
<1>. QED
  BY <1>1, SlotsInvariant, PTL

\* _active_count is the number of tasks holding a slot and never exceeds
\* max_concurrent_tasks, whatever raises where.
THEOREM SlotsAreCounted == Spec => []SlotsCounted
<1>1. SlotsInv => SlotsCounted
  BY DEF SlotsInv, SlotsCounted, LiveOf, Live
<1>. QED
  BY <1>1, SlotsInvariant, PTL

\* A job is queued only while every slot is taken.
THEOREM SlotsAreNotIdle == Spec => []NoIdleSlot
<1>1. SlotsInv => NoIdleSlot
  BY DEF SlotsInv
<1>. QED
  BY <1>1, SlotsInvariant, PTL

\* The queue holds every queued job exactly once: no job is lost or doubled
\* by a retry, a hand-over or an exception.
THEOREM QueueIsExact == Spec => []QueueHoldsQueued
<1>1. SlotsInv => QueueHoldsQueued
  BY DEF SlotsInv, QueueHoldsQueued, Holds, QueuedOf
<1>. QED
  BY <1>1, SlotsInvariant, PTL

-----------------------------------------------------------------------------
(* The quota.  The count is the number of jobs accepted at _daily_count_date, *)
(* which may lag behind today until the next submission; dates after it have  *)
(* accepted nothing.  This needs the dates to be non-decreasing.              *)

QuotaInv ==
    /\ TypeOK
    /\ today \in Days
    /\ countDate <= today
    /\ countDate # 0 => dailyCount = Cardinality(acceptedOn[countDate])
    /\ \A d \in Days : d > countDate => acceptedOn[d] = {}
    /\ \A j \in Jobs : phase[j] = "new" => \A d \in Days : j \notin acceptedOn[d]
    /\ QuotaRespected

LEMMA QuotaInvInit == Init => QuotaInv
<1> SUFFICES ASSUME Init PROVE QuotaInv
  OBVIOUS
<1>1. TypeOK
  BY SlotsInvInit DEF SlotsInv
<1>2. today \in Days /\ countDate = 0 /\ today = 1
  BY ConfigType DEF Init, Days
<1>3. \A d \in Days : acceptedOn[d] = {}
  BY DEF Init
<1>4. QuotaRespected
  BY <1>3, FS_EmptySet, ConfigType DEF QuotaRespected
<1>. QED
  BY <1>1, <1>2, <1>3, <1>4 DEF QuotaInv

\* The count _refresh_daily_counter leaves is that of today's acceptances.
LEMMA RefreshedCountExact ==
    ASSUME QuotaInv
    PROVE  RefreshedCount = Cardinality(acceptedOn[today])
<1>1. today \in Nat /\ countDate \in Nat /\ today \in Days /\ countDate <= today
  BY DEF TypeOK, QuotaInv
<1>2. CASE countDate = today
  BY <1>1, <1>2 DEF RefreshedCount, QuotaInv, Days
<1>3. CASE countDate # today
  <2>1. acceptedOn[today] = {}
    BY <1>1, <1>3 DEF QuotaInv
  <2>. QED BY <1>3, <2>1, FS_EmptySet DEF RefreshedCount
<1>. QED
  BY <1>2, <1>3

\* No step but an acceptance touches the counters, and no step makes a job
\* new again.
LEMMA OtherStepsQuota ==
    ASSUME SlotsInv, QuotaInv, UNCHANGED counters,
           \A j \in Jobs : phase'[j] = "new" => phase[j] = "new", TypeOK'
    PROVE  QuotaInv'
BY DEF QuotaInv, QuotaRespected, counters

\* No step of a running task makes a job new again, or rejects one.
LEMMA RunTaskNeverNew ==
    ASSUME SlotsInv, NEW j \in Jobs, RunTask(j)
    PROVE  /\ UNCHANGED counters
           /\ \A k \in Jobs : phase'[k] \in {"new", "rejected"} => phase'[k] = phase[k]
<1>1. phase \in [Jobs -> Phases] /\ queue \in Seq(Jobs)
  BY DEF SlotsInv, TypeOK
<1>2. ASSUME NEW q, NEW s \in {"queued", "done"},
             TaskCompleted(q, [phase EXCEPT ![j] = s])
      PROVE  \A k \in Jobs : phase'[k] \in {"new", "rejected"} => phase'[k] = phase[k]
  <2> DEFINE ph == [phase EXCEPT ![j] = s]
  <2>1. \A k \in Jobs : ph[k] \in {"new", "rejected"} => ph[k] = phase[k]
    BY <1>1
  <2>2. ph \in [Jobs -> Phases]
    BY <1>1 DEF Phases
  <2>3. phase' = ph \/ phase' = [ph EXCEPT ![Head(q)] = "executing"]
    BY <1>2 DEF TaskCompleted
  <2> HIDE DEF ph
  <2>. QED BY <2>1, <2>2, <2>3
<1>3. ASSUME NEW e, HandleTaskFailure(j, e)
      PROVE  \A k \in Jobs : phase'[k] \in {"new", "rejected"} => phase'[k] = phase[k]
  <2>1. CASE TaskCompleted(Enqueue(queue, j), [phase EXCEPT ![j] = "queued"])
    BY <1>2, <2>1
  <2>2. CASE phase' = [phase EXCEPT ![j] = "failing"]
    BY <1>1, <2>2
  <2>. QED BY <1>3, <2>1, <2>2 DEF HandleTaskFailure
<1>4. ASSUME Finish(j)
      PROVE  \A k \in Jobs : phase'[k] \in {"new", "rejected"} => phase'[k] = phase[k]
  BY <1>2, <1>4 DEF Finish
<1>5. CASE ExecuteSucceeds(j)
  BY <1>1, <1>5 DEF ExecuteSucceeds
<1>6. CASE ExecuteFails(j) \/ ExecuteRaises(j)
  BY <1>3, <1>6 DEF ExecuteFails, ExecuteRaises
<1>7. CASE CompletionPublished(j) \/ DeadLetterAnnounced(j)
  BY <1>4, <1>7 DEF CompletionPublished, DeadLetterAnnounced
<1>8. CASE FailurePublished(j)
  BY <1>1, <1>8 DEF FailurePublished
<1>9. CASE DeadLettered(j)
  BY <1>1, <1>9 DEF DeadLettered
<1>10. CASE PublishRaises(j) \/ DeadLetterRaises(j)
  BY <1>3, <1>4, <1>10 DEF PublishRaises, DeadLetterRaises, SideEffectRaises
<1>. QED
  BY <1>5, <1>6, <1>7, <1>8, <1>9, <1>10 DEF RunTask

\* An acceptance charges the date it happens on, within the quota.
LEMMA SubmitAcceptedQuota ==
    ASSUME SlotsInv, QuotaInv, NEW j \in Jobs, SubmitAccepted(j), TypeOK'
    PROVE  QuotaInv'
<1>1. /\ TypeOK /\ today \in Days /\ countDate <= today
      /\ countDate \in Nat /\ today \in Nat /\ dailyCount \in Nat
      /\ acceptedOn \in [Days -> SUBSET Jobs]
  BY DEF QuotaInv, TypeOK
<1>2. /\ RefreshedCount < DailyTaskQuota
      /\ countDate' = today /\ today' = today
      /\ dailyCount' = RefreshedCount + 1
      /\ acceptedOn' = [acceptedOn EXCEPT ![today] = @ \union {j}]
      /\ phase[j] = "new"
  BY DEF SubmitAccepted, QuotaLeft
<1>3. RefreshedCount = Cardinality(acceptedOn[today])
  BY RefreshedCountExact
<1>4. IsFiniteSet(acceptedOn[today]) /\ Cardinality(acceptedOn[today]) \in Nat
  BY <1>1, ConfigType, FS_Subset, FS_CardinalityType
<1>5. j \notin acceptedOn[today]
  BY <1>1, <1>2 DEF QuotaInv
<1>6. Cardinality(acceptedOn[today] \union {j}) = Cardinality(acceptedOn[today]) + 1
  BY <1>4, <1>5, FS_AddElement
<1>7. acceptedOn'[today] = acceptedOn[today] \union {j}
  BY <1>1, <1>2
<1>8. \A d \in Days : d # today => acceptedOn'[d] = acceptedOn[d]
  BY <1>1, <1>2
<1>9. dailyCount' = Cardinality(acceptedOn'[countDate'])
  BY <1>2, <1>3, <1>6, <1>7
<1>10. QuotaRespected'
  <2> SUFFICES ASSUME NEW d \in Days
               PROVE  Cardinality(acceptedOn'[d]) <= DailyTaskQuota
    BY DEF QuotaRespected
  <2>1. CASE d = today
    <3>1. Cardinality(acceptedOn[today]) + 1 <= DailyTaskQuota
      BY <1>2, <1>3, <1>4, ConfigType
    <3>. QED BY <1>6, <1>7, <2>1, <3>1
  <2>2. CASE d # today
    BY <1>8, <2>2 DEF QuotaInv, QuotaRespected
  <2>. QED BY <2>1, <2>2
<1>11. \A d \in Days : d > countDate' => acceptedOn'[d] = {}
  BY <1>1, <1>2, <1>8 DEF QuotaInv, Days
<1>12. \A k \in Jobs : phase'[k] = "new" => phase[k] = "new" /\ k # j
  <2>1. phase' = [phase EXCEPT ![j] = "executing"] \/ phase' = [phase EXCEPT ![j] = "queued"]
    BY DEF SubmitAccepted, StartNow, Queue
  <2>. QED BY <1>1, <2>1 DEF TypeOK
<1>13. \A k \in Jobs : phase'[k] = "new" => \A d \in Days : k \notin acceptedOn'[d]
  BY <1>7, <1>8, <1>12 DEF QuotaInv
<1>14. today' \in Days /\ countDate' <= today'
  BY <1>1, <1>2
<1>15. countDate' # 0 => dailyCount' = Cardinality(acceptedOn'[countDate'])
  BY <1>9
<1>. QED
  BY <1>10, <1>11, <1>13, <1>14, <1>15, Zenon DEF QuotaInv

LEMMA QuotaInvNext == SlotsInv /\ SlotsInv' /\ QuotaInv /\ [Next]_vars => QuotaInv'
<1> SUFFICES ASSUME SlotsInv, SlotsInv', QuotaInv, [Next]_vars PROVE QuotaInv'
  OBVIOUS
<1>1. TypeOK /\ TypeOK'
  BY DEF SlotsInv
<1>2. ASSUME NEW j \in Jobs, SubmitRejected(j) PROVE QuotaInv'
  <2>1. /\ countDate' = today /\ today' = today /\ acceptedOn' = acceptedOn
        /\ dailyCount' = RefreshedCount
        /\ phase' = [phase EXCEPT ![j] = "rejected"]
    BY <1>2 DEF SubmitRejected
  <2>2. today \in Nat /\ countDate \in Nat /\ today \in Days /\ countDate <= today
    BY <1>1 DEF TypeOK, QuotaInv
  <2>3. RefreshedCount = Cardinality(acceptedOn[today])
    BY RefreshedCountExact
  <2>4. \A d \in Days : d > today => acceptedOn[d] = {}
    BY <2>2 DEF QuotaInv, Days
  <2>5. \A k \in Jobs : phase'[k] = "new" => phase[k] = "new"
    BY <1>1, <2>1 DEF TypeOK
  <2>. QED
    BY <1>1, <2>1, <2>2, <2>3, <2>4, <2>5 DEF QuotaInv, QuotaRespected
<1>3. ASSUME NEW j \in Jobs, SubmitAccepted(j) PROVE QuotaInv'
  BY <1>1, <1>3, SubmitAcceptedQuota
<1>4. ASSUME NEW j \in Jobs, RunTask(j) PROVE QuotaInv'
  BY <1>1, <1>4, RunTaskNeverNew, OtherStepsQuota
<1>5. CASE DayPasses
  <2>1. /\ today < LastDay /\ today' = today + 1
        /\ UNCHANGED <<dailyCount, countDate, acceptedOn, phase>>
    BY <1>5 DEF DayPasses
  <2>2. today' \in Days /\ countDate' <= today'
    BY <1>1, <2>1, ConfigType DEF TypeOK, QuotaInv, Days
  <2>. QED
    BY <1>1, <2>1, <2>2 DEF QuotaInv, QuotaRespected
<1>6. CASE UNCHANGED vars
  BY <1>1, <1>6 DEF vars, QuotaInv, QuotaRespected
<1>. QED
  BY <1>2, <1>3, <1>4, <1>5, <1>6 DEF Next, SubmitTask

\* The invariant of the quota holds in every state of every behaviour.
THEOREM QuotaInvariant == Spec => []QuotaInv
BY SlotsInvariant, QuotaInvInit, QuotaInvNext, PTL DEF Spec

\* No date ever sees more acceptances than the quota allows, with any number
\* of midnights between submissions.
THEOREM QuotaIsRespected == Spec => []QuotaRespected
<1>1. QuotaInv => QuotaRespected
  BY DEF QuotaInv
<1>. QED
  BY <1>1, QuotaInvariant, PTL

\* A job is rejected only when the quota of the date is used up, whatever
\* date the count is of.
THEOREM RejectionsAreOverQuota == Spec => RejectsOnlyOverQuota
<1>1. ASSUME SlotsInv, QuotaInv, [Next]_vars, NEW k \in Jobs,
             phase[k] = "new", phase'[k] = "rejected"
      PROVE  Cardinality(acceptedOn[today]) >= DailyTaskQuota
  <2>1. phase \in [Jobs -> Phases]
    BY <1>1 DEF SlotsInv, TypeOK
  <2>2. ASSUME NEW j \in Jobs, SubmitRejected(j)
        PROVE  Cardinality(acceptedOn[today]) >= DailyTaskQuota
    <3>1. RefreshedCount = Cardinality(acceptedOn[today]) /\ ~(RefreshedCount < DailyTaskQuota)
      BY <1>1, <2>2, RefreshedCountExact DEF SubmitRejected, QuotaLeft
    <3>2. RefreshedCount \in Nat
      BY <1>1 DEF SlotsInv, TypeOK, RefreshedCount
    <3>. QED BY <3>1, <3>2, ConfigType
  <2>3. ASSUME NEW j \in Jobs, SubmitAccepted(j) PROVE FALSE
    BY <1>1, <2>1, <2>3 DEF SubmitAccepted, StartNow, Queue
  <2>4. ASSUME NEW j \in Jobs, RunTask(j) PROVE FALSE
    BY <1>1, <2>4, RunTaskNeverNew
  <2>5. CASE DayPasses \/ UNCHANGED vars
    BY <1>1, <2>5 DEF DayPasses, vars
  <2>. QED
    BY <1>1, <2>2, <2>3, <2>4, <2>5 DEF Next, SubmitTask
<1>2. SlotsInv /\ QuotaInv /\ [Next]_vars =>
         [\A j \in Jobs : phase[j] = "new" /\ phase'[j] = "rejected"
             => Cardinality(acceptedOn[today]) >= DailyTaskQuota]_vars
  BY <1>1
<1>. QED
  BY <1>2, SlotsInvariant, QuotaInvariant, PTL DEF Spec, RejectsOnlyOverQuota

-----------------------------------------------------------------------------
(* Outcomes.  The executions of a job are counted by its retries as long   *)
(* as it is not given up, and a job is given up only without retries left; *)
(* a dead letter is written once in the try block and once in the except   *)
(* clause.                                                                 *)

Tries(j) == successes[j] + failures[j]

Bounded(j) ==
    /\ retryCount[j] <= MaxRetries
    /\ phase[j] \in {"new", "rejected", "queued", "executing"} =>
          Tries(j) = retryCount[j] /\ deadLetters[j] = 0
    /\ phase[j] = "completing" =>
          Tries(j) = retryCount[j] + 1 /\ deadLetters[j] = 0
    /\ phase[j] \in {"failing", "deadLettering", "announcing"} =>
          Tries(j) = retryCount[j] + 1 /\ retryCount[j] = MaxRetries
    /\ phase[j] \in {"failing", "deadLettering"} =>
          deadLetters[j] <= IF inExcept[j] THEN 1 ELSE 0
    /\ phase[j] = "announcing" =>
          deadLetters[j] <= IF inExcept[j] THEN 2 ELSE 1
    /\ phase[j] = "done" => Tries(j) <= MaxRetries + 1 /\ deadLetters[j] <= 2

\* What holds besides of a job whose side effects do not raise.
Regular(j) ==
    /\ phase[j] \in {"new", "rejected", "queued", "executing"} =>
          successes[j] = 0 /\ future[j] = "pending"
    /\ phase[j] = "completing" => successes[j] = 1 /\ future[j] = "success"
    /\ phase[j] \in {"failing", "deadLettering", "announcing"} =>
          successes[j] = 0 /\ future[j] = "failure"
    /\ phase[j] \in {"failing", "deadLettering"} => deadLetters[j] = 0
    /\ phase[j] = "announcing" => deadLetters[j] = 1
    /\ phase[j] = "done" =>
          \/ /\ successes[j] = 1 /\ failures[j] <= MaxRetries
             /\ deadLetters[j] = 0 /\ future[j] = "success"
          \/ /\ successes[j] = 0 /\ failures[j] = MaxRetries + 1
             /\ deadLetters[j] = 1 /\ future[j] = "failure"

JobInv(j) ==
    /\ Bounded(j)
    /\ j \notin PublishFaults \union DeadLetterFaults => Regular(j)

OutcomeInv == \A j \in Jobs : JobInv(j)

\* k is as it was, or has been handed a slot.
HandedSlot(k) ==
    \/ phase'[k] = phase[k]
    \/ phase[k] = "queued" /\ phase'[k] = "executing"

\* All that is recorded of k is as it was.
Kept(k) ==
    /\ retryCount'[k] = retryCount[k] /\ inExcept'[k] = inExcept[k]
    /\ future'[k] = future[k] /\ deadLetters'[k] = deadLetters[k]
    /\ successes'[k] = successes[k] /\ failures'[k] = failures[k]

LEMMA MaxRetriesNat == MaxRetries \in Nat
BY ConfigType DEF MaxRetries

\* _task_completed starts nothing but a queued job.
LEMMA TaskCompletedStarts ==
    ASSUME NEW q \in Seq(Jobs), NEW ph \in [Jobs -> Phases],
           Holds(q, QueuedOf(ph)), TaskCompleted(q, ph)
    PROVE  \A k \in Jobs : \/ phase'[k] = ph[k]
                           \/ ph[k] = "queued" /\ phase'[k] = "executing"
<1>1. CASE q = <<>>
  BY <1>1 DEF TaskCompleted
<1>2. CASE q # <<>>
  <2>1. Head(q) \in QueuedOf(ph)
    BY <1>2, TailHolds
  <2>2. phase' = [ph EXCEPT ![Head(q)] = "executing"]
    BY <1>2 DEF TaskCompleted
  <2>. QED BY <2>1, <2>2 DEF QueuedOf
<1>. QED
  BY <1>1, <1>2

\* A live job that has retries left is queued, or started again at once.
LEMMA RetriedPhase ==
    ASSUME SlotsInv, NEW j \in Jobs, phase[j] \in LivePhases,
           RetriesLeft(j), NEW e, HandleTaskFailure(j, e)
    PROVE  /\ phase'[j] \in {"queued", "executing"}
           /\ \A k \in Jobs \ {j} : HandedSlot(k)
<1> DEFINE ph == [phase EXCEPT ![j] = "queued"]
           q  == Enqueue(queue, j)
<1>1. phase \in [Jobs -> Phases] /\ queue \in Seq(Jobs) /\ Holds(queue, QueuedOf(phase))
  BY DEF SlotsInv, TypeOK
<1>2. j \notin QueuedOf(phase) /\ QueuedOf(ph) = QueuedOf(phase) \union {j}
  BY <1>1 DEF QueuedOf, LivePhases
<1>3. Enqueue(queue, j) \in Seq(Jobs) /\ Holds(Enqueue(queue, j), QueuedOf(phase) \union {j})
  <2>1. j \notin QueuedOf(phase)
    BY <1>2
  <2>. QED BY <1>1, <2>1, EnqueueHolds
<1>4. TaskCompleted(q, ph) /\ q \in Seq(Jobs) /\ Holds(q, QueuedOf(ph))
  BY <1>2, <1>3 DEF HandleTaskFailure
<1>5. ph \in [Jobs -> Phases] /\ ph[j] = "queued" /\ \A k \in Jobs \ {j} : ph[k] = phase[k]
  BY <1>1 DEF Phases
<1> HIDE DEF q, ph
<1>6. \A k \in Jobs : phase'[k] = ph[k] \/ (ph[k] = "queued" /\ phase'[k] = "executing")
  BY <1>4, <1>5, TaskCompletedStarts
<1>. QED
  BY <1>5, <1>6 DEF HandedSlot

\* A live job that ends is done.
LEMMA FinishPhase ==
    ASSUME SlotsInv, NEW j \in Jobs, phase[j] \in LivePhases, Finish(j)
    PROVE  /\ phase'[j] = "done"
           /\ \A k \in Jobs \ {j} : HandedSlot(k)
<1> DEFINE ph == [phase EXCEPT ![j] = "done"]
<1>1. phase \in [Jobs -> Phases] /\ queue \in Seq(Jobs) /\ Holds(queue, QueuedOf(phase))
  BY DEF SlotsInv, TypeOK
<1>2. QueuedOf(ph) = QueuedOf(phase)
  BY <1>1 DEF QueuedOf, LivePhases
<1>3. TaskCompleted(queue, ph)
  BY DEF Finish
<1>4. ph \in [Jobs -> Phases] /\ ph[j] = "done" /\ \A k \in Jobs \ {j} : ph[k] = phase[k]
  BY <1>1 DEF Phases
<1> HIDE DEF ph
<1>5. \A k \in Jobs : phase'[k] = ph[k] \/ (ph[k] = "queued" /\ phase'[k] = "executing")
  BY <1>1, <1>2, <1>3, <1>4, TaskCompletedStarts
<1>. QED
  BY <1>4, <1>5 DEF HandedSlot

\* A job a step does not record anything of keeps its invariant.
LEMMA KeptJobInv ==
    ASSUME NEW k \in Jobs, JobInv(k), HandedSlot(k), Kept(k)
    PROVE  JobInv(k)'
BY DEF JobInv, Bounded, Regular, Tries, HandedSlot, Kept

LEMMA OutcomeInvInit == Init => OutcomeInv
BY MaxRetriesNat DEF Init, OutcomeInv, JobInv, Bounded, Regular, Tries

\* The failure of a live job that has been tried once more than retried, with
\* what is recorded of the try given by the premises.
LEMMA HandleTaskFailureOutcome ==
    ASSUME SlotsInv, NEW j \in Jobs, phase[j] \in LivePhases,
           NEW e \in BOOLEAN, HandleTaskFailure(j, e),
           retryCount[j] <= MaxRetries, deadLetters'[j] = deadLetters[j],
           Tries(j)' = retryCount[j] + 1,
           retryCount[j] < MaxRetries => deadLetters[j] = 0,
           deadLetters[j] <= IF e THEN 1 ELSE 0,
           j \notin PublishFaults \union DeadLetterFaults =>
              successes'[j] = 0 /\ future[j] = "pending" /\ deadLetters[j] = 0
    PROVE  JobInv(j)' /\ \A k \in Jobs \ {j} : HandedSlot(k)
<1>1. /\ TypeOK /\ retryCount[j] \in Nat /\ MaxRetries \in Nat
      /\ retryCount \in [Jobs -> Nat] /\ phase \in [Jobs -> Phases]
      /\ inExcept \in [Jobs -> BOOLEAN]
      /\ future \in [Jobs -> {"pending", "success", "failure"}]
  BY MaxRetriesNat DEF SlotsInv, TypeOK
<1>2. CASE RetriesLeft(j)
  <2>1. /\ retryCount'[j] = retryCount[j] + 1 /\ retryCount[j] < MaxRetries
        /\ future'[j] = future[j]
    BY <1>1, <1>2 DEF HandleTaskFailure, RetriesLeft
  <2>2. /\ phase'[j] \in {"queued", "executing"}
        /\ \A k \in Jobs \ {j} : HandedSlot(k)
    BY <1>2, RetriedPhase
  <2>. QED
    BY <1>1, <2>1, <2>2 DEF JobInv, Bounded, Regular, Tries
<1>3. CASE ~RetriesLeft(j)
  <2>1. /\ phase' = [phase EXCEPT ![j] = "failing"]
        /\ future' = [future EXCEPT ![j] = IF @ = "pending" THEN "failure" ELSE @]
        /\ inExcept' = [inExcept EXCEPT ![j] = e]
        /\ retryCount' = retryCount /\ ~(retryCount[j] < MaxRetries)
    BY <1>3 DEF HandleTaskFailure, RetriesLeft
  <2>2. /\ phase'[j] = "failing" /\ inExcept'[j] = e
        /\ retryCount'[j] = retryCount[j] /\ retryCount[j] = MaxRetries
        /\ future[j] = "pending" => future'[j] = "failure"
    BY <1>1, <2>1
  <2>3. \A k \in Jobs \ {j} : HandedSlot(k)
    BY <1>1, <2>1 DEF HandedSlot
  <2>. QED
    BY <1>1, <2>2, <2>3 DEF JobInv, Bounded, Regular, Tries
<1>. QED
  BY <1>2, <1>3

\* A live job that ends in a state its outcome allows.
LEMMA FinishOutcome ==
    ASSUME SlotsInv, NEW j \in Jobs, phase[j] \in LivePhases, Finish(j),
           UNCHANGED <<retryCount, future, deadLetters, successes, failures>>,
           JobInv(j), inExcept[j] \/ phase[j] \in {"completing", "announcing"},
           phase[j] \in {"failing", "deadLettering"} =>
              j \in PublishFaults \union DeadLetterFaults,
           phase[j] # "executing"
    PROVE  JobInv(j)' /\ \A k \in Jobs \ {j} : HandedSlot(k)
<1>1. /\ retryCount[j] \in Nat /\ MaxRetries \in Nat /\ successes[j] \in Nat
      /\ failures[j] \in Nat /\ deadLetters[j] \in Nat
  BY MaxRetriesNat DEF SlotsInv, TypeOK
<1>2. phase'[j] = "done" /\ \A k \in Jobs \ {j} : HandedSlot(k)
  BY FinishPhase
<1>3. Tries(j) <= MaxRetries + 1 /\ deadLetters[j] <= 2
  BY <1>1 DEF JobInv, Bounded, Tries, LivePhases
<1>4. Bounded(j)'
  BY <1>1, <1>2, <1>3 DEF JobInv, Bounded, Tries
<1>5. j \notin PublishFaults \union DeadLetterFaults => Regular(j)'
  BY <1>1, <1>2 DEF JobInv, Bounded, Regular, Tries, LivePhases
<1>. QED
  BY <1>2, <1>4, <1>5 DEF JobInv

\* A step of the task of j keeps the invariant of j, hands a slot at most to
\* another job and records nothing of it.
LEMMA RunTaskOutcome ==
    ASSUME SlotsInv, NEW j \in Jobs, JobInv(j), RunTask(j)
    PROVE  /\ JobInv(j)'
           /\ \A k \in Jobs \ {j} : HandedSlot(k) /\ Kept(k)
<1>1. /\ phase \in [Jobs -> Phases] /\ inExcept \in [Jobs -> BOOLEAN]
      /\ retryCount \in [Jobs -> Nat] /\ deadLetters \in [Jobs -> Nat]
      /\ successes \in [Jobs -> Nat] /\ failures \in [Jobs -> Nat]
      /\ future \in [Jobs -> {"pending", "success", "failure"}]
      /\ MaxRetries \in Nat
  BY MaxRetriesNat DEF SlotsInv, TypeOK
<1>2. \A k \in Jobs \ {j} : Kept(k)
  <2>1. ASSUME NEW e, HandleTaskFailure(j, e)
        PROVE  \A k \in Jobs \ {j} : /\ retryCount'[k] = retryCount[k]
                                     /\ inExcept'[k] = inExcept[k]
                                     /\ future'[k] = future[k]
    BY <1>1, <2>1 DEF HandleTaskFailure
  <2>2. ASSUME Finish(j)
        PROVE  \A k \in Jobs \ {j} : inExcept'[k] = inExcept[k]
    BY <1>1, <2>2 DEF Finish
  <2>3. CASE ExecuteSucceeds(j)
    BY <1>1, <2>3 DEF ExecuteSucceeds, Kept
  <2>4. CASE ExecuteFails(j) \/ ExecuteRaises(j)
    BY <1>1, <2>1, <2>4 DEF ExecuteFails, ExecuteRaises, Kept
  <2>5. CASE CompletionPublished(j) \/ DeadLetterAnnounced(j)
    BY <2>2, <2>5 DEF CompletionPublished, DeadLetterAnnounced, Kept
  <2>6. CASE FailurePublished(j)
    BY <2>6 DEF FailurePublished, Kept
  <2>7. CASE DeadLettered(j)
    BY <1>1, <2>7 DEF DeadLettered, Kept
  <2>8. CASE PublishRaises(j) \/ DeadLetterRaises(j)
    BY <2>1, <2>2, <2>8 DEF PublishRaises, DeadLetterRaises, SideEffectRaises, Kept
  <2>. QED
    BY <2>3, <2>4, <2>5, <2>6, <2>7, <2>8 DEF RunTask
<1>3. CASE ExecuteSucceeds(j)
  <2>1. /\ phase[j] = "executing" /\ phase'[j] = "completing"
        /\ successes'[j] = successes[j] + 1
        /\ future[j] = "pending" => future'[j] = "success"
        /\ failures'[j] = failures[j] /\ retryCount'[j] = retryCount[j]
        /\ deadLetters'[j] = deadLetters[j]
    BY <1>1, <1>3 DEF ExecuteSucceeds
  <2>2. \A k \in Jobs \ {j} : HandedSlot(k)
    BY <1>1, <1>3 DEF ExecuteSucceeds, HandedSlot
  <2>3. JobInv(j)'
    BY <1>1, <2>1 DEF JobInv, Bounded, Regular, Tries
  <2>. QED BY <1>2, <2>2, <2>3
<1>4. CASE ExecuteFails(j) \/ ExecuteRaises(j)
  <2>1. PICK e \in BOOLEAN : HandleTaskFailure(j, e)
    BY <1>4 DEF ExecuteFails, ExecuteRaises
  <2>2. /\ phase[j] = "executing" /\ failures'[j] = failures[j] + 1
        /\ deadLetters'[j] = deadLetters[j] /\ successes'[j] = successes[j]
    BY <1>1, <1>4 DEF ExecuteFails, ExecuteRaises
  <2>3. /\ retryCount[j] <= MaxRetries /\ deadLetters[j] = 0
        /\ Tries(j)' = retryCount[j] + 1
    BY <1>1, <2>2 DEF JobInv, Bounded, Tries
  <2>4. j \notin PublishFaults \union DeadLetterFaults =>
           successes'[j] = 0 /\ future[j] = "pending"
    BY <2>2 DEF JobInv, Regular
  <2>5. phase[j] \in LivePhases
    BY <2>2 DEF LivePhases
  <2>. QED
    BY <1>1, <1>2, <2>1, <2>2, <2>3, <2>4, <2>5, HandleTaskFailureOutcome
<1>5. CASE CompletionPublished(j) \/ DeadLetterAnnounced(j)
  <2>1. /\ phase[j] \in {"completing", "announcing"} /\ Finish(j)
        /\ UNCHANGED <<retryCount, future, deadLetters, successes, failures>>
    BY <1>5 DEF CompletionPublished, DeadLetterAnnounced
  <2>2. phase[j] \in LivePhases
    BY <2>1 DEF LivePhases
  <2>. QED
    BY <1>2, <2>1, <2>2, FinishOutcome
<1>6. CASE FailurePublished(j)
  <2>1. /\ phase[j] = "failing" /\ phase'[j] = "deadLettering"
        /\ \A k \in Jobs \ {j} : HandedSlot(k)
        /\ UNCHANGED <<inExcept, retryCount, future, deadLetters, successes, failures>>
    BY <1>1, <1>6 DEF FailurePublished, HandedSlot
  <2>2. JobInv(j)'
    BY <2>1 DEF JobInv, Bounded, Regular, Tries
  <2>. QED BY <1>2, <2>1, <2>2
<1>7. CASE DeadLettered(j)
  <2>1. /\ phase[j] = "deadLettering" /\ phase'[j] = "announcing"
        /\ deadLetters'[j] = deadLetters[j] + 1
        /\ \A k \in Jobs \ {j} : HandedSlot(k)
        /\ UNCHANGED <<inExcept, retryCount, future, successes, failures>>
    BY <1>1, <1>7 DEF DeadLettered, HandedSlot
  <2>2. JobInv(j)'
    BY <1>1, <2>1 DEF JobInv, Bounded, Regular, Tries
  <2>. QED BY <1>2, <2>1, <2>2
<1>8. CASE PublishRaises(j) \/ DeadLetterRaises(j)
  <2>1. /\ j \in PublishFaults \union DeadLetterFaults
        /\ phase[j] \in {"completing", "failing", "deadLettering", "announcing"}
        /\ SideEffectRaises(j)
        /\ UNCHANGED <<deadLetters, successes, failures>>
    BY <1>8 DEF PublishRaises, DeadLetterRaises
  <2>2. phase[j] \in LivePhases /\ phase[j] # "executing"
    BY <2>1 DEF LivePhases
  <2>3. CASE ~inExcept[j] /\ HandleTaskFailure(j, TRUE)
    <3>1. /\ retryCount[j] <= MaxRetries /\ Tries(j)' = retryCount[j] + 1
          /\ retryCount[j] < MaxRetries => deadLetters[j] = 0
          /\ deadLetters[j] <= 1
      BY <1>1, <2>1, <2>3 DEF JobInv, Bounded, Tries
    <3>. QED
      BY <1>2, <2>1, <2>2, <2>3, <3>1, HandleTaskFailureOutcome
  <2>4. CASE inExcept[j] /\ Finish(j) /\ UNCHANGED <<retryCount, future>>
    BY <1>2, <2>1, <2>2, <2>4, FinishOutcome
  <2>. QED BY <2>1, <2>3, <2>4 DEF SideEffectRaises
<1>. QED
  BY <1>3, <1>4, <1>5, <1>6, <1>7, <1>8 DEF RunTask

LEMMA OutcomeInvNext == SlotsInv /\ OutcomeInv /\ [Next]_vars => OutcomeInv'
<1> SUFFICES ASSUME SlotsInv, OutcomeInv, [Next]_vars, NEW k \in Jobs
             PROVE  JobInv(k)'
  BY DEF OutcomeInv
<1>1. JobInv(k) /\ phase \in [Jobs -> Phases]
  BY DEF OutcomeInv, SlotsInv, TypeOK
<1>2. ASSUME NEW j \in Jobs, SubmitTask(j) PROVE JobInv(k)'
  <2>1. UNCHANGED <<inExcept, retryCount, future, deadLetters, successes, failures>>
    BY <1>2 DEF SubmitTask, SubmitRejected, SubmitAccepted
  <2>2. \/ phase'[k] = phase[k]
        \/ phase[k] = "new" /\ phase'[k] \in {"rejected", "queued", "executing"}
    BY <1>1, <1>2 DEF SubmitTask, SubmitRejected, SubmitAccepted, StartNow, Queue
  <2>. QED
    BY <1>1, <2>1, <2>2 DEF JobInv, Bounded, Regular, Tries
<1>3. ASSUME NEW j \in Jobs, RunTask(j) PROVE JobInv(k)'
  <2>1. JobInv(j)
    BY DEF OutcomeInv
  <2>2. CASE k = j
    BY <1>3, <2>1, <2>2, RunTaskOutcome
  <2>3. CASE k # j
    BY <1>1, <1>3, <2>1, <2>3, RunTaskOutcome, KeptJobInv
  <2>. QED BY <2>2, <2>3
<1>4. CASE DayPasses
  BY <1>1, <1>4, KeptJobInv DEF DayPasses, HandedSlot, Kept
<1>5. CASE UNCHANGED vars
  BY <1>1, <1>5, KeptJobInv DEF vars, HandedSlot, Kept
<1>. QED
  BY <1>2, <1>3, <1>4, <1>5 DEF Next

LEMMA OutcomeInvariant == Spec => [](SlotsInv /\ OutcomeInv)
BY SlotsInvariant, OutcomeInvInit, OutcomeInvNext, PTL DEF Spec

\* Retries included, no job is executed more than max_task_retries + 1
\* times or dead-lettered more than twice, whatever raises.
THEOREM ExecutionsAreBounded == Spec => []ExecutionsBounded
<1>1. SlotsInv /\ OutcomeInv => ExecutionsBounded
  <2> SUFFICES ASSUME SlotsInv, OutcomeInv, NEW j \in Jobs
               PROVE  Tries(j) <= MaxRetries + 1 /\ deadLetters[j] <= 2
    BY DEF ExecutionsBounded, Tries
  <2>1. /\ Bounded(j) /\ phase[j] \in Phases /\ inExcept[j] \in BOOLEAN
        /\ successes[j] \in Nat /\ failures[j] \in Nat /\ deadLetters[j] \in Nat
        /\ retryCount[j] \in Nat /\ MaxRetries \in Nat
    BY MaxRetriesNat DEF OutcomeInv, JobInv, SlotsInv, TypeOK
  <2>. QED BY <2>1 DEF Bounded, Tries, Phases, LivePhases
<1>. QED
  BY <1>1, OutcomeInvariant, PTL

\* A job whose own side effects do not raise has one of two outcomes, and
\* its completion future tells which.
THEOREM OutcomeIsOne == Spec => []OneOutcome
<1>1. OutcomeInv => OneOutcome
  BY DEF OutcomeInv, JobInv, Regular, OneOutcome
<1>. QED
  BY <1>1, OutcomeInvariant, PTL
=============================================================================
