------------------------ MODULE SchedulerPoolProofs ------------------------
(***************************************************************************)
(* The queue of Scheduler is sorted and fair, and Scheduler implements     *)
(* JobPool, for every set of jobs and every configuration.                 *)
(***************************************************************************)
EXTENDS SchedulerProofs

Sorted(q) == \A m, n \in DOMAIN q : m < n => Priority[q[m]] <= Priority[q[n]]

-----------------------------------------------------------------------------
(* Sorted queues.                                                          *)

\* A set of numbers from 1 without gaps is known by its size.
LEMMA InitialSegment ==
    ASSUME NEW n \in Nat, NEW S \in SUBSET (1..n),
           \A i \in S : \A k \in 1..n : k < i => k \in S
    PROVE  S = 1..Cardinality(S)
<1>1. IsFiniteSet(S) /\ Cardinality(S) \in Nat
  <2>1. IsFiniteSet(1..n)
    BY FS_Interval
  <2>2. IsFiniteSet(S)
    BY <2>1, FS_Subset
  <2>. QED BY <2>2, FS_CardinalityType
<1>2. ASSUME NEW i \in S PROVE i \in 1..Cardinality(S)
  <2>1. 1..i \in SUBSET S
    BY <1>2
  <2>2. Cardinality(1..i) = i
    BY <1>2, FS_Interval
  <2>3. i <= Cardinality(S)
    BY <1>1, <2>1, <2>2, FS_Subset
  <2>. QED BY <1>1, <1>2, <2>3
<1>3. S \in SUBSET (1..Cardinality(S))
  BY <1>2
<1>4. /\ IsFiniteSet(1..Cardinality(S))
      /\ Cardinality(1..Cardinality(S)) = Cardinality(S)
  BY <1>1, FS_Interval
<1>. QED
  BY <1>3, <1>4, FS_Subset

\* The jobs a new one does not pass are those in front of its place.
LEMMA InsertPosSplits ==
    ASSUME NEW q \in Seq(Jobs), Sorted(q), NEW j \in Jobs, NEW i \in 1..Len(q)
    PROVE  i < InsertPos(q, j) <=> Priority[q[i]] <= Priority[j]
<1> DEFINE U == {k \in DOMAIN q : Priority[q[k]] <= Priority[j]}
<1>1. Len(q) \in Nat /\ DOMAIN q = 1..Len(q)
  BY LenProperties
<1>2. \A k \in 1..Len(q) : Priority[q[k]] \in Nat
  BY ElementOfSeq, PriorityType
<1>3. Priority[j] \in Nat
  BY PriorityType
<1>4. U \in SUBSET (1..Len(q))
  BY <1>1
<1>5. \A m \in U : \A k \in 1..Len(q) : k < m => k \in U
  BY <1>1, <1>2, <1>3 DEF Sorted
<1>6. InsertPos(q, j) = Cardinality(U) + 1
  BY DEF InsertPos
<1>7. i \in U <=> Priority[q[i]] <= Priority[j]
  BY <1>1
<1> HIDE DEF U
<1>8. U = 1..Cardinality(U)
  BY <1>1, <1>4, <1>5, InitialSegment
<1>9. Cardinality(U) \in Nat
  <2>1. IsFiniteSet(1..Len(q))
    BY <1>1, FS_Interval
  <2>2. IsFiniteSet(U)
    BY <1>4, <2>1, FS_Subset
  <2>. QED BY <2>2, FS_CardinalityType
<1>. QED
  BY <1>6, <1>7, <1>8, <1>9

\* Enqueue keeps a queue sorted.
LEMMA EnqueueSorted ==
    ASSUME NEW q \in Seq(Jobs), Sorted(q), NEW j \in Jobs
    PROVE  Sorted(Enqueue(q, j))
<1> DEFINE p == InsertPos(q, j)
           r == Enqueue(q, j)
<1>1. /\ r \in Seq(Jobs) /\ Len(r) = Len(q) + 1
      /\ \A i \in 1..(Len(q) + 1) :
            r[i] = IF i < p THEN q[i] ELSE IF i = p THEN j ELSE q[i - 1]
  BY EnqueueElements
<1>2. p \in 1..(Len(q) + 1)
  BY InsertPosInRange
<1>3. Len(q) \in Nat /\ DOMAIN q = 1..Len(q) /\ DOMAIN r = 1..(Len(q) + 1)
  BY <1>1, LenProperties
<1>4. \A i \in 1..Len(q) : i < p <=> Priority[q[i]] <= Priority[j]
  BY InsertPosSplits
<1>5. Priority[j] \in Nat /\ \A i \in 1..Len(q) : Priority[q[i]] \in Nat
  BY ElementOfSeq, PriorityType
<1> HIDE DEF p, r
<1>6. ASSUME NEW m \in DOMAIN r, NEW n \in DOMAIN r, m < n
      PROVE  Priority[r[m]] <= Priority[r[n]]
  <2>1. CASE n < p
    BY <1>1, <1>2, <1>3, <1>6, <2>1 DEF Sorted
  <2>2. CASE n = p
    BY <1>1, <1>2, <1>3, <1>4, <1>6, <2>2
  <2>3. CASE m = p
    <3>1. n - 1 \in 1..Len(q) /\ ~(n - 1 < p) /\ r[n] = q[n - 1] /\ r[m] = j
      BY <1>1, <1>2, <1>3, <1>6, <2>3
    <3>. QED BY <1>4, <1>5, <3>1
  <2>4. CASE m < p /\ n > p
    <3>1. n - 1 \in 1..Len(q) /\ ~(n - 1 < p) /\ r[n] = q[n - 1]
      BY <1>1, <1>2, <1>3, <2>4
    <3>2. m \in 1..Len(q) /\ r[m] = q[m]
      BY <1>1, <1>2, <1>3, <2>4
    <3>. QED BY <1>4, <1>5, <2>4, <3>1, <3>2
  <2>5. CASE m > p
    <3>1. /\ m - 1 \in 1..Len(q) /\ n - 1 \in 1..Len(q) /\ m - 1 < n - 1
          /\ r[m] = q[m - 1] /\ r[n] = q[n - 1]
      BY <1>1, <1>2, <1>3, <1>6, <2>5
    <3>. QED BY <1>3, <3>1 DEF Sorted
  <2>. QED BY <1>2, <1>3, <1>6, <2>1, <2>2, <2>3, <2>4, <2>5
<1>. QED
  BY <1>6 DEF Sorted, r

\* Enqueue keeps the order of the others; the new job passes exactly those
\* less urgent than itself.
LEMMA EnqueueOrder ==
    ASSUME NEW q \in Seq(Jobs), NEW S, Holds(q, S), Sorted(q),
           NEW j \in Jobs, j \notin S
    PROVE  /\ \A a, b \in S : Before(q, a, b) => Before(Enqueue(q, j), a, b)
           /\ \A b \in S : Before(Enqueue(q, j), j, b) <=> Priority[j] < Priority[b]
<1> DEFINE p == InsertPos(q, j)
           r == Enqueue(q, j)
           f(i) == IF i < p THEN i ELSE i + 1
<1>1. /\ r \in Seq(Jobs) /\ Len(r) = Len(q) + 1
      /\ \A i \in 1..(Len(q) + 1) :
            r[i] = IF i < p THEN q[i] ELSE IF i = p THEN j ELSE q[i - 1]
  BY EnqueueElements
<1>2. p \in 1..(Len(q) + 1)
  BY InsertPosInRange
<1>3. Len(q) \in Nat /\ DOMAIN q = 1..Len(q) /\ DOMAIN r = 1..(Len(q) + 1)
  BY <1>1, LenProperties
<1>4. \A i \in 1..Len(q) : i < p <=> Priority[q[i]] <= Priority[j]
  BY InsertPosSplits
<1>5. Priority[j] \in Nat /\ \A i \in 1..Len(q) : Priority[q[i]] \in Nat
  BY ElementOfSeq, PriorityType
<1>6. \A i, k \in DOMAIN r : r[i] = r[k] => i = k
  <2>1. Holds(r, S \union {j})
    BY EnqueueHolds
  <2>. QED BY <2>1 DEF Holds
<1> HIDE DEF p, r
<1>7. \A i \in 1..Len(q) : f(i) \in DOMAIN r /\ r[f(i)] = q[i]
  <2> SUFFICES ASSUME NEW i \in 1..Len(q)
               PROVE  f(i) \in DOMAIN r /\ r[f(i)] = q[i]
    OBVIOUS
  <2>1. CASE i < p
    BY <1>1, <1>2, <1>3, <2>1
  <2>2. CASE i >= p
    BY <1>1, <1>2, <1>3, <2>2
  <2>. QED BY <1>2, <1>3, <2>1, <2>2
<1>8. r[p] = j /\ p \in DOMAIN r
  BY <1>1, <1>2, <1>3
<1>9. ASSUME NEW a \in S, NEW b \in S, Before(q, a, b) PROVE Before(r, a, b)
  <2>1. PICK m \in 1..Len(q), n \in 1..Len(q) : m < n /\ q[m] = a /\ q[n] = b
    BY <1>3, <1>9 DEF Before
  <2>2. f(m) < f(n)
    BY <1>2, <1>3, <2>1
  <2>. QED BY <1>7, <2>1, <2>2 DEF Before
<1>10. ASSUME NEW b \in S PROVE Before(r, j, b) <=> Priority[j] < Priority[b]
  <2>1. PICK i \in 1..Len(q) : q[i] = b
    BY <1>3, <1>10 DEF Holds, ToSet
  <2>2. Before(r, j, b) <=> p < f(i)
    <3>1. f(i) \in DOMAIN r /\ r[f(i)] = b
      BY <1>7, <2>1
    <3> HIDE DEF f
    <3>. QED BY <1>6, <1>8, <3>1 DEF Before
  <2>3. p < f(i) <=> ~(i < p)
    BY <1>2, <1>3
  <2>. QED BY <1>4, <1>5, <2>1, <2>2, <2>3
<1>. QED
  BY <1>9, <1>10 DEF r

\* Tail keeps the order, and the head of a sorted queue is a most urgent job.
LEMMA TailOrder ==
    ASSUME NEW q \in Seq(Jobs), NEW S, Holds(q, S), q # <<>>
    PROVE  /\ \A a, b \in S \ {Head(q)} : Before(q, a, b) <=> Before(Tail(q), a, b)
           /\ Sorted(q) => /\ Sorted(Tail(q))
                           /\ \A k \in S : Priority[Head(q)] <= Priority[k]
<1> DEFINE t == Tail(q)
<1>1. /\ Head(q) \in Jobs /\ t \in Seq(Jobs) /\ Len(t) = Len(q) - 1
      /\ \A i \in 1..Len(t) : t[i] = q[i + 1]
  BY HeadTailProperties
<1>2. /\ Len(q) \in Nat \ {0} /\ DOMAIN q = 1..Len(q) /\ Head(q) = q[1]
      /\ DOMAIN t = 1..(Len(q) - 1)
  BY <1>1, EmptySeq, LenProperties
<1> HIDE DEF t
<1>3. ASSUME NEW a \in S \ {Head(q)}, NEW b \in S \ {Head(q)}
      PROVE  Before(q, a, b) <=> Before(t, a, b)
  <2>1. ASSUME Before(q, a, b) PROVE Before(t, a, b)
    <3>1. PICK m \in 1..Len(q), n \in 1..Len(q) : m < n /\ q[m] = a /\ q[n] = b
      BY <1>2, <2>1 DEF Before
    <3>2. /\ m - 1 \in DOMAIN t /\ n - 1 \in DOMAIN t /\ m - 1 < n - 1
          /\ t[m - 1] = q[m] /\ t[n - 1] = q[n]
      BY <1>1, <1>2, <1>3, <3>1
    <3>. QED BY <3>1, <3>2 DEF Before
  <2>2. ASSUME Before(t, a, b) PROVE Before(q, a, b)
    <3>1. PICK m \in DOMAIN t, n \in DOMAIN t : m < n /\ t[m] = a /\ t[n] = b
      BY <2>2 DEF Before
    <3>2. /\ m + 1 \in DOMAIN q /\ n + 1 \in DOMAIN q /\ m + 1 < n + 1
          /\ t[m] = q[m + 1] /\ t[n] = q[n + 1]
      BY <1>1, <1>2, <3>1
    <3>. QED BY <3>1, <3>2 DEF Before
  <2>. QED BY <2>1, <2>2
<1>4. ASSUME Sorted(q) PROVE Sorted(t)
  <2> SUFFICES ASSUME NEW m \in DOMAIN t, NEW n \in DOMAIN t, m < n
               PROVE  Priority[t[m]] <= Priority[t[n]]
    BY DEF Sorted
  <2>1. /\ m + 1 \in DOMAIN q /\ n + 1 \in DOMAIN q /\ m + 1 < n + 1
        /\ t[m] = q[m + 1] /\ t[n] = q[n + 1]
    BY <1>1, <1>2
  <2>. QED BY <1>4, <2>1 DEF Sorted
<1>5. ASSUME Sorted(q), NEW k \in S PROVE Priority[Head(q)] <= Priority[k]
  <2>1. PICK i \in 1..Len(q) : q[i] = k
    BY <1>2 DEF Holds, ToSet
  <2>2. CASE i = 1
    <3>1. Priority[k] \in Nat
      BY <1>1, <1>2, <2>1, <2>2, PriorityType
    <3>. QED BY <1>2, <2>1, <2>2, <3>1
  <2>3. CASE i # 1
    BY <1>2, <1>5, <2>1, <2>3 DEF Sorted
  <2>. QED BY <2>2, <2>3
<1>. QED
  BY <1>3, <1>4, <1>5 DEF t

-----------------------------------------------------------------------------
(* The queue of the scheduler.                                             *)

\* What a step does to the queue: x enters, if anybody, and then the head
\* leaves, or nobody.
QueueStep ==
    \/ queue' = queue
    \/ queue # <<>> /\ queue' = Tail(queue)
    \/ \E x \in Jobs \ QueuedOf(phase) :
          queue' = Enqueue(queue, x) \/ queue' = Tail(Enqueue(queue, x))

LEMMA QueueSteps == SlotsInv /\ [Next]_vars => QueueStep
<1> SUFFICES ASSUME SlotsInv, [Next]_vars PROVE QueueStep
  OBVIOUS
<1>1. phase \in [Jobs -> Phases]
  BY DEF SlotsInv, TypeOK
<1>2. ASSUME NEW j \in Jobs, SubmitTask(j) PROVE QueueStep
  <2>1. queue' = queue \/ (queue' = Enqueue(queue, j) /\ phase[j] = "new")
    BY <1>2 DEF SubmitTask, SubmitRejected, SubmitAccepted, StartNow, Queue, slots
  <2>. QED BY <2>1 DEF QueueStep, QueuedOf
<1>3. ASSUME NEW j \in Jobs, Finish(j) PROVE QueueStep
  BY <1>3 DEF Finish, TaskCompleted, QueueStep
<1>4. ASSUME NEW j \in Jobs, phase[j] \in LivePhases, NEW e, HandleTaskFailure(j, e)
      PROVE  QueueStep
  <2>1. j \in Jobs \ QueuedOf(phase)
    BY <1>4 DEF QueuedOf, LivePhases
  <2>2. \/ queue' = queue \/ queue' = Enqueue(queue, j)
        \/ queue' = Tail(Enqueue(queue, j))
    BY <1>4 DEF HandleTaskFailure, TaskCompleted, slots
  <2>. QED BY <2>1, <2>2 DEF QueueStep
<1>5. ASSUME NEW j \in Jobs, RunTask(j) PROVE QueueStep
  <2>1. CASE ExecuteSucceeds(j) \/ FailurePublished(j) \/ DeadLettered(j)
    BY <2>1 DEF ExecuteSucceeds, FailurePublished, DeadLettered, slots, QueueStep
  <2>2. CASE ExecuteFails(j) \/ ExecuteRaises(j)
    BY <1>4, <2>2 DEF ExecuteFails, ExecuteRaises, LivePhases
  <2>3. CASE CompletionPublished(j) \/ DeadLetterAnnounced(j)
    BY <1>3, <2>3 DEF CompletionPublished, DeadLetterAnnounced
  <2>4. CASE PublishRaises(j) \/ DeadLetterRaises(j)
    BY <1>3, <1>4, <2>4 DEF PublishRaises, DeadLetterRaises, SideEffectRaises, LivePhases
  <2>. QED BY <1>5, <2>1, <2>2, <2>3, <2>4 DEF RunTask
<1>6. CASE DayPasses \/ UNCHANGED vars
  BY <1>6 DEF DayPasses, vars, slots, QueueStep
<1>. QED
  BY <1>2, <1>5, <1>6 DEF Next

LEMMA SortedNext == SlotsInv /\ Sorted(queue) /\ [Next]_vars => Sorted(queue)'
<1> SUFFICES ASSUME SlotsInv, Sorted(queue), [Next]_vars PROVE Sorted(queue')
  BY DEF Sorted
<1>1. queue \in Seq(Jobs) /\ Holds(queue, QueuedOf(phase))
  BY DEF SlotsInv, TypeOK
<1>2. QueueStep
  BY QueueSteps
<1>3. CASE queue # <<>> /\ queue' = Tail(queue)
  BY <1>1, <1>3, TailOrder
<1>4. ASSUME NEW x \in Jobs \ QueuedOf(phase),
             queue' = Enqueue(queue, x) \/ queue' = Tail(Enqueue(queue, x))
      PROVE  Sorted(queue')
  <2>1. Sorted(Enqueue(queue, x))
    BY <1>1, EnqueueSorted
  <2>2. /\ Enqueue(queue, x) \in Seq(Jobs) /\ Enqueue(queue, x) # <<>>
        /\ Holds(Enqueue(queue, x), QueuedOf(phase) \union {x})
    BY <1>1, EnqueueHolds
  <2>3. Sorted(Tail(Enqueue(queue, x)))
    BY <2>1, <2>2, TailOrder
  <2>. QED BY <1>4, <2>1, <2>3
<1>. QED
  BY <1>2, <1>3, <1>4 DEF QueueStep

\* The queue is sorted by priority in every state.
THEOREM QueueIsSorted == Spec => []Sorted(queue)
<1>1. Init => Sorted(queue)
  BY DEF Init, Sorted
<1>. QED
  BY <1>1, SlotsInvariant, SortedNext, PTL DEF Spec

LEMMA FairStep ==
    ASSUME SlotsInv, Sorted(queue), [Next]_vars,
           NEW j \in ToSet(queue'), NEW k \in ToSet(queue'), j # k
    PROVE  /\ Before(queue, j, k) => Before(queue', j, k)
           /\ (j \in ToSet(queue) /\ k \notin ToSet(queue))
                 => (Before(queue', k, j) <=> Priority[k] < Priority[j])
<1>1. queue \in Seq(Jobs) /\ Holds(queue, QueuedOf(phase)) /\ ToSet(queue) = QueuedOf(phase)
  BY DEF SlotsInv, TypeOK, Holds
<1>2. QueueStep
  BY QueueSteps
<1>3. Before(queue, j, k) => j \in ToSet(queue) /\ k \in ToSet(queue)
  BY DEF Before, ToSet
<1>4. CASE queue' = queue
  BY <1>4
<1>5. CASE queue # <<>> /\ queue' = Tail(queue)
  <2>1. ToSet(queue') = QueuedOf(phase) \ {Head(queue)}
    BY <1>1, <1>5, TailHolds DEF Holds
  <2>. QED BY <1>1, <1>5, <2>1, TailOrder
<1>6. ASSUME NEW x \in Jobs \ QueuedOf(phase),
             queue' = Enqueue(queue, x) \/ queue' = Tail(Enqueue(queue, x))
      PROVE  /\ Before(queue, j, k) => Before(queue', j, k)
             /\ (j \in ToSet(queue) /\ k \notin ToSet(queue))
                   => (Before(queue', k, j) <=> Priority[k] < Priority[j])
  <2> DEFINE r == Enqueue(queue, x)
             S == QueuedOf(phase) \union {x}
  <2>1. r \in Seq(Jobs) /\ r # <<>> /\ Holds(r, S)
    BY <1>1, EnqueueHolds
  <2>2. /\ \A a, b \in QueuedOf(phase) : Before(queue, a, b) => Before(r, a, b)
        /\ \A b \in QueuedOf(phase) : Before(r, x, b) <=> Priority[x] < Priority[b]
    BY <1>1, EnqueueOrder
  <2> HIDE DEF r
  <2>3. ToSet(r) = S /\ ToSet(Tail(r)) = S \ {Head(r)}
    BY <2>1, TailHolds DEF Holds
  <2>4. \A a, b \in S \ {Head(r)} : Before(r, a, b) <=> Before(Tail(r), a, b)
    BY <2>1, TailOrder
  <2>5. j \in S /\ k \in S
    BY <1>6, <2>3 DEF r
  <2>6. Before(r, j, k) => Before(queue', j, k)
    BY <1>6, <2>3, <2>4 DEF r
  <2>7. Before(r, k, j) <=> Before(queue', k, j)
    BY <1>6, <2>3, <2>4 DEF r
  <2>. QED BY <1>1, <1>3, <2>2, <2>5, <2>6, <2>7
<1>. QED
  BY <1>2, <1>4, <1>5, <1>6 DEF QueueStep

\* Queued jobs keep their order; a job that enters passes exactly the jobs
\* strictly less urgent than itself, retried or new.
THEOREM QueueStaysFair == Spec => QueueIsFair
<1>1. SlotsInv /\ Sorted(queue) /\ [Next]_vars =>
        [\A j, k \in ToSet(queue') : j # k =>
         /\ Before(queue, j, k) => Before(queue', j, k)
         /\ (j \in ToSet(queue) /\ k \notin ToSet(queue))
               => (Before(queue', k, j) <=> Priority[k] < Priority[j])]_vars
  BY FairStep
<1>. QED
  BY <1>1, SlotsInvariant, QueueIsSorted, PTL DEF Spec, QueueIsFair

-----------------------------------------------------------------------------
(* The pool.                                                               *)

\* The status in the pool of a job whose phase is s.
StatusOf(s) ==
    CASE s = "queued" -> "waiting"
      [] s = "done"   -> "finished"
      [] s \in LivePhases -> "running"
      [] OTHER -> s

LEMMA StatusOfPhases ==
    ASSUME NEW s \in Phases
    PROVE  /\ StatusOf(s) = "waiting" <=> s = "queued"
           /\ StatusOf(s) = "finished" <=> s = "done"
           /\ StatusOf(s) = "running" <=> s \in LivePhases
           /\ StatusOf(s) = "new" <=> s = "new"
           /\ StatusOf(s) = "rejected" <=> s = "rejected"
BY DEF StatusOf, Phases, LivePhases

LEMMA PoolStatusIs == PoolStatus = [k \in Jobs |-> StatusOf(phase[k])]
BY DEF PoolStatus, StatusOf

LEMMA PoolStatusWillBe == PoolStatus' = [k \in Jobs |-> StatusOf(phase'[k])]
BY DEF PoolStatus, StatusOf

\* The waiting jobs of the pool are the queued ones, the running ones live.
LEMMA PoolSets ==
    ASSUME phase \in [Jobs -> Phases]
    PROVE  /\ Pool!In("waiting") = QueuedOf(phase)
           /\ Pool!In("running") = LiveOf(phase)
<1>1. \A k \in Jobs : /\ StatusOf(phase[k]) = "waiting" <=> phase[k] = "queued"
                      /\ StatusOf(phase[k]) = "running" <=> phase[k] \in LivePhases
  BY StatusOfPhases
<1>. QED
  BY <1>1, PoolStatusIs DEF Pool!In, QueuedOf, LiveOf

\* _task_completed releases the slot of j to a most urgent waiting job.
LEMMA TaskCompletedReleases ==
    ASSUME SlotsInv, NEW j \in Jobs, phase[j] \in LivePhases,
           NEW s \in {"queued", "done"}, NEW q \in Seq(Jobs), Sorted(q),
           Holds(q, QueuedOf([phase EXCEPT ![j] = s])),
           TaskCompleted(q, [phase EXCEPT ![j] = s])
    PROVE  \E next \in {"waiting", "finished"} : Pool!Release(j, next)
<1> DEFINE ph == [phase EXCEPT ![j] = s]
           next == StatusOf(s)
           W == Pool!In("waiting") \union (IF next = "waiting" THEN {j} ELSE {})
<1>1. /\ phase \in [Jobs -> Phases] /\ ph \in [Jobs -> Phases]
      /\ ph[j] = s /\ \A k \in Jobs \ {j} : ph[k] = phase[k]
  BY DEF SlotsInv, TypeOK, Phases
<1>2. next \in {"waiting", "finished"} /\ (next = "waiting" <=> s = "queued")
  BY StatusOfPhases DEF Phases
<1>3. PoolStatus[j] = "running"
  BY <1>1, StatusOfPhases, PoolStatusIs
<1>4. W = QueuedOf(ph)
  <2>1. Pool!In("waiting") = QueuedOf(phase)
    BY <1>1, PoolSets
  <2>2. phase[j] # "queued"
    BY DEF LivePhases
  <2>. QED BY <1>1, <1>2, <2>1, <2>2 DEF QueuedOf
<1>5. TaskCompleted(q, ph) /\ Holds(q, QueuedOf(ph))
  OBVIOUS
<1>6. StatusOf("executing") = "running"
  BY DEF StatusOf, LivePhases
<1>7. next = StatusOf(s)
  OBVIOUS
<1> HIDE DEF ph, next
<1>8. CASE q = <<>>
  <2>1. W = {}
    BY <1>4, <1>5, <1>8 DEF Holds, ToSet
  <2>2. phase' = ph
    BY <1>5, <1>8 DEF TaskCompleted
  <2>3. PoolStatus' = [PoolStatus EXCEPT ![j] = next]
    BY <1>1, <1>7, <2>2, PoolStatusIs, PoolStatusWillBe
  <2>. QED BY <1>2, <1>3, <2>1, <2>3 DEF Pool!Release
<1>9. CASE q # <<>>
  <2> DEFINE h == Head(q)
  <2>1. h \in QueuedOf(ph) /\ h \in Jobs
    BY <1>5, <1>9, TailHolds
  <2>2. \A k \in QueuedOf(ph) : Priority[h] <= Priority[k]
    BY <1>5, <1>9, TailOrder
  <2>3. phase' = [ph EXCEPT ![h] = "executing"]
    BY <1>5, <1>9 DEF TaskCompleted
  <2> HIDE DEF h
  <2>4. \A k \in Jobs : phase'[k] = IF k = h THEN "executing" ELSE IF k = j THEN s ELSE phase[k]
    BY <1>1, <2>1, <2>3
  <2>5. PoolStatus' = [PoolStatus EXCEPT ![j] = next, ![h] = "running"]
    BY <1>6, <1>7, <2>1, <2>4, PoolStatusIs, PoolStatusWillBe
  <2>6. h \in Pool!MostUrgent(W)
    BY <1>4, <2>1, <2>2 DEF Pool!MostUrgent
  <2>. QED BY <1>2, <1>3, <2>5, <2>6 DEF Pool!Release
<1>. QED
  BY <1>8, <1>9

LEMMA FinishReleases ==
    ASSUME SlotsInv, Sorted(queue), NEW j \in Jobs, phase[j] \in LivePhases, Finish(j)
    PROVE  Pool!Next
<1>1. /\ phase \in [Jobs -> Phases] /\ queue \in Seq(Jobs)
      /\ Holds(queue, QueuedOf(phase))
  BY DEF SlotsInv, TypeOK
<1>2. QueuedOf([phase EXCEPT ![j] = "done"]) = QueuedOf(phase)
  BY <1>1 DEF QueuedOf, LivePhases
<1>3. TaskCompleted(queue, [phase EXCEPT ![j] = "done"])
  BY DEF Finish
<1>. QED
  BY <1>1, <1>2, <1>3, TaskCompletedReleases DEF Pool!Next

\* A live job that moves to another live phase stays running.
LEMMA StayLiveStutters ==
    ASSUME SlotsInv, NEW j \in Jobs, phase[j] \in LivePhases, NEW s \in LivePhases,
           phase' = [phase EXCEPT ![j] = s]
    PROVE  UNCHANGED PoolStatus
<1>1. phase \in [Jobs -> Phases] /\ s \in Phases
  BY DEF SlotsInv, TypeOK, Phases
<1>2. StatusOf(s) = "running" /\ StatusOf(phase[j]) = "running"
  BY <1>1, StatusOfPhases
<1>3. \A k \in Jobs : StatusOf(phase'[k]) = StatusOf(phase[k])
  BY <1>1, <1>2
<1>. QED
  BY <1>3, PoolStatusIs, PoolStatusWillBe

LEMMA HandleTaskFailureReleases ==
    ASSUME SlotsInv, Sorted(queue), NEW j \in Jobs, phase[j] \in LivePhases,
           NEW e, HandleTaskFailure(j, e)
    PROVE  [Pool!Next]_PoolStatus
<1>1. /\ phase \in [Jobs -> Phases] /\ queue \in Seq(Jobs)
      /\ Holds(queue, QueuedOf(phase))
  BY DEF SlotsInv, TypeOK
<1>2. CASE TaskCompleted(Enqueue(queue, j), [phase EXCEPT ![j] = "queued"])
  <2>1. /\ j \notin QueuedOf(phase)
        /\ QueuedOf([phase EXCEPT ![j] = "queued"]) = QueuedOf(phase) \union {j}
    BY <1>1 DEF QueuedOf, LivePhases
  <2>2. /\ Enqueue(queue, j) \in Seq(Jobs)
        /\ Holds(Enqueue(queue, j), QueuedOf(phase) \union {j})
    BY <1>1, <2>1, EnqueueHolds
  <2>3. Sorted(Enqueue(queue, j))
    BY <1>1, EnqueueSorted
  <2>. QED
    BY <1>2, <2>1, <2>2, <2>3, TaskCompletedReleases DEF Pool!Next
<1>3. CASE phase' = [phase EXCEPT ![j] = "failing"]
  BY <1>3, StayLiveStutters DEF LivePhases
<1>. QED
  BY <1>2, <1>3 DEF HandleTaskFailure

\* JobPool counts as Scheduler does.
LEMMA PoolCardinality == \A S : Pool!Cardinality(S) = Cardinality(S)
BY DEF Pool!Cardinality, Cardinality

LEMMA SubmitPools ==
    ASSUME SlotsInv, NEW j \in Jobs, SubmitTask(j)
    PROVE  Pool!Next
<1>1. /\ phase \in [Jobs -> Phases] /\ phase[j] = "new"
      /\ activeCount = Cardinality(LiveOf(phase))
      /\ activeCount \in Nat /\ MaxConcurrentTasks \in Nat
  BY ConfigType DEF SlotsInv, TypeOK, SubmitTask, SubmitRejected, SubmitAccepted
<1>2. PoolStatus[j] = "new"
  BY <1>1, StatusOfPhases, PoolStatusIs DEF Phases
<1>3. ASSUME NEW s, phase' = [phase EXCEPT ![j] = s]
      PROVE  PoolStatus' = [PoolStatus EXCEPT ![j] = StatusOf(s)]
  <2>1. \A k \in Jobs : phase'[k] = IF k = j THEN s ELSE phase[k]
    BY <1>1, <1>3
  <2>. QED BY <2>1, PoolStatusIs, PoolStatusWillBe
<1>4. /\ StatusOf("rejected") = "rejected" /\ StatusOf("executing") = "running"
      /\ StatusOf("queued") = "waiting"
  BY DEF StatusOf, LivePhases
<1>5. CASE SubmitRejected(j)
  BY <1>2, <1>3, <1>4, <1>5 DEF SubmitRejected, Pool!Reject, Pool!Next
<1>6. CASE SubmitAccepted(j)
  <2>1. Pool!Cardinality(Pool!In("running")) = activeCount
    BY <1>1, PoolSets, PoolCardinality
  <2>2. CASE StartNow(j)
    <3>1. PoolStatus' = [PoolStatus EXCEPT ![j] = "running"] /\ activeCount < MaxConcurrentTasks
      BY <1>3, <1>4, <2>2 DEF StartNow
    <3>. QED BY <1>2, <2>1, <3>1 DEF Pool!Accept, Pool!Next
  <2>3. CASE Queue(j)
    <3>1. ~(activeCount < MaxConcurrentTasks)
      BY <1>1, <2>3 DEF Queue
    <3>2. PoolStatus' = [PoolStatus EXCEPT ![j] = "waiting"]
      BY <1>3, <1>4, <2>3 DEF Queue
    <3>. QED BY <1>2, <2>1, <3>1, <3>2 DEF Pool!Accept, Pool!Next
  <2>. QED BY <1>6, <2>2, <2>3 DEF SubmitAccepted
<1>. QED
  BY <1>5, <1>6 DEF SubmitTask

\* Every step of the scheduler is a step of the pool, or leaves it alone.
LEMMA PoolNext == SlotsInv /\ Sorted(queue) /\ [Next]_vars => [Pool!Next]_PoolStatus
<1> SUFFICES ASSUME SlotsInv, Sorted(queue), [Next]_vars PROVE [Pool!Next]_PoolStatus
  OBVIOUS
<1>1. ASSUME NEW j \in Jobs, SubmitTask(j) PROVE [Pool!Next]_PoolStatus
  BY <1>1, SubmitPools
<1>2. ASSUME NEW j \in Jobs, RunTask(j) PROVE [Pool!Next]_PoolStatus
  <2>1. CASE ExecuteSucceeds(j) \/ FailurePublished(j) \/ DeadLettered(j)
    BY <2>1, StayLiveStutters DEF ExecuteSucceeds, FailurePublished, DeadLettered, LivePhases
  <2>2. CASE ExecuteFails(j) \/ ExecuteRaises(j)
    BY <2>2, HandleTaskFailureReleases DEF ExecuteFails, ExecuteRaises, LivePhases
  <2>3. CASE CompletionPublished(j) \/ DeadLetterAnnounced(j)
    BY <2>3, FinishReleases DEF CompletionPublished, DeadLetterAnnounced, LivePhases
  <2>4. CASE PublishRaises(j) \/ DeadLetterRaises(j)
    BY <2>4, FinishReleases, HandleTaskFailureReleases
       DEF PublishRaises, DeadLetterRaises, SideEffectRaises, LivePhases
  <2>. QED BY <1>2, <2>1, <2>2, <2>3, <2>4 DEF RunTask
<1>3. CASE DayPasses \/ UNCHANGED vars
  <2>1. phase' = phase
    BY <1>3 DEF DayPasses, vars
  <2>. QED BY <2>1, PoolStatusIs, PoolStatusWillBe
<1>. QED
  BY <1>1, <1>2, <1>3 DEF Next

\* The scheduler implements the job pool: whatever fails, a slot that becomes
\* free passes at once to a most urgent waiting job.
THEOREM SchedulerIsJobPool == Spec => ImplementsPool
<1>1. Init => Pool!Init
  <2> SUFFICES ASSUME Init PROVE PoolStatus = [j \in Jobs |-> "new"]
    BY DEF Pool!Init
  <2>1. \A k \in Jobs : StatusOf(phase[k]) = "new"
    BY DEF Init, StatusOf, LivePhases
  <2>. QED BY <2>1, PoolStatusIs
<1>. QED
  BY <1>1, PoolNext, SlotsInvariant, QueueIsSorted, PTL DEF Spec, ImplementsPool, Pool!Spec
=============================================================================
