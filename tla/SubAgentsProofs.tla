-------------------------- MODULE SubAgentsProofs --------------------------
(***************************************************************************)
(* Proofs about SubAgents: types, permits, the order of the layers, and    *)
(* that a parent which shares its worker with no other accounts for its    *)
(* agents and reports what they came to.                                   *)
(***************************************************************************)
EXTENDS SubAgents, FiniteSetTheorems, SequenceTheorems, TLAPS

-----------------------------------------------------------------------------
(* The inductive invariant.                                                *)

Once(s) == \A i, j \in DOMAIN s : s[i] = s[j] => i = j

Spawned(p) == {g \in Goals : agent[<<p, g>>] # "none"}

\* Who holds a permit of a semaphore.
RunningOn(s) == {a \in Agents : agent[a] = "running" /\ sem[a] = s}

\* Where a parent stands: nothing before it begins; a layer in hand exactly
\* while it collects; what is left has no cycle and has not been spawned, and
\* all else has unless the parent failed.
Stands(p) ==
    /\ pc[p] = "idle" => left[p] = {} /\ results[p] = <<>> /\ Spawned(p) = {}
    /\ pc[p] = "collecting" <=> handles[p] # <<>>
    /\ pc[p] # "collecting" => awaits[p] = NoAgent
    /\ p \notin Tools => strategy[p] = "best_effort"
    /\ strategy[p] = "unknown" => pc[p] # "collecting"
    /\ ~Cyclic(deps[p], left[p]) /\ left[p] \subseteq DOMAIN deps[p]
    /\ Spawned(p) \subseteq DOMAIN deps[p] \ left[p]
    /\ pc[p] \in {"layered", "collecting"} => DOMAIN deps[p] \ left[p] = Spawned(p)
    /\ ToSet(handles[p]) \subseteq Spawned(p)
    /\ Once(handles[p])

Standing == \A p \in Parents : Stands(p)

\* What is registered or awaited is an agent that was spawned, registered
\* under its own agent_id.
Registered ==
    /\ \A i \in AgentIds : tasks[i] # NoAgent =>
         \E p \in Parents : tasks[i] = <<p, i[2]>> /\ worker[p] = i[1] /\ i[2] \in Spawned(p)
    /\ \A p \in Parents : awaits[p] # NoAgent => agent[awaits[p]] # "none"

\* Who runs or waits has a semaphore, there is one once an agent exists, and
\* only an agent that has not ended is to be cancelled.
Gated ==
    /\ \A a \in Agents : agent[a] # "none" => current # NoAgent
    /\ \A a \in Agents : agent[a] \in {"waiting", "running"} => sem[a] # NoAgent
    /\ \A a \in cancelled : agent[a] \in {"created", "waiting", "running"}

\* Whose agent_ids are its own finds the tasks of its layer, and an agent of
\* it outside the layer has ended, unless fail_fast is cancelling it or the
\* call failed for its strategy.
Owned ==
    \A p \in Parents : Alone(p) =>
        /\ \A g \in ToSet(handles[p]) : tasks[AgentId(p, g)] = <<p, g>>
        /\ pc[p] = "collecting" => awaits[p] = <<p, Head(handles[p])>>
        /\ \A g \in Spawned(p) :
             \/ Over(<<p, g>>)
             \/ g \in ToSet(handles[p])
             \/ <<p, g>> \in cancelled /\ Stopped(p)
             \/ strategy[p] = "unknown" /\ pc[p] = "failed"

\* Every agent is collected or still in hand, and once.
Counted ==
    \A p \in Parents : strategy[p] # "unknown" =>
        /\ Collected(p) \union ToSet(handles[p]) = Spawned(p)
        /\ Len(results[p]) + Len(handles[p]) = Cardinality(Spawned(p))

\* What is registered is in hand, but for what is not waited for.
Awaited ==
    \A i \in AgentIds : tasks[i] # NoAgent =>
        LET p == tasks[i][1] IN
        Alone(p) => strategy[p] \in {"fail_fast", "unknown"} \/ i[2] \in ToSet(handles[p])

Base == TypeOK /\ Standing /\ Registered /\ Gated
IInv == Base /\ PermitsCounted /\ Owned /\ Counted /\ Awaited /\ OwnResultsIfAlone

-----------------------------------------------------------------------------
(* Sequences and sets.                                                     *)

LEMMA GoalsFinite ==
    /\ \A S \in SUBSET Goals : IsFiniteSet(S) /\ Cardinality(S) \in Nat
    /\ IsFiniteSet(Agents)
<1>1. IsFiniteSet(Goals) /\ IsFiniteSet(Parents)
  BY SubAgentsConstants
<1>2. \A S \in SUBSET Goals : IsFiniteSet(S) /\ Cardinality(S) \in Nat
  BY <1>1, FS_Subset, FS_CardinalityType
<1>3. IsFiniteSet(Agents)
  BY <1>1, FS_Product DEF Agents
<1>. QED
  BY <1>2, <1>3

\* The elements of a sequence, of its head and its tail.
LEMMA Parts ==
    ASSUME NEW S, NEW s \in Seq(S), s # <<>>
    PROVE  /\ Head(s) \in S /\ Tail(s) \in Seq(S)
           /\ Len(Tail(s)) = Len(s) - 1 /\ Len(s) \in Nat \ {0}
           /\ ToSet(s) = {Head(s)} \union ToSet(Tail(s))
           /\ Tail(s) # <<>> => Head(Tail(s)) \in ToSet(Tail(s))
<1> DEFINE t == Tail(s)
<1>1. /\ Head(s) \in S /\ t \in Seq(S) /\ Len(t) = Len(s) - 1
      /\ \A i \in 1..Len(t) : t[i] = s[i + 1]
  BY HeadTailProperties
<1>2. /\ Len(s) \in Nat \ {0} /\ DOMAIN s = 1..Len(s) /\ Head(s) = s[1]
      /\ DOMAIN t = 1..(Len(s) - 1)
  BY <1>1, EmptySeq, LenProperties
<1>. HIDE DEF t
<1>3. ASSUME NEW x \in ToSet(s) PROVE x = Head(s) \/ x \in ToSet(t)
  <2>1. PICK i \in DOMAIN s : x = s[i]
    BY DEF ToSet
  <2>2. i # 1 => i - 1 \in DOMAIN t /\ t[i - 1] = s[i]
    BY <1>1, <1>2
  <2>. QED
    BY <2>1, <2>2, <1>2 DEF ToSet
<1>4. ASSUME NEW x \in ToSet(t) PROVE x \in ToSet(s)
  <2>1. PICK i \in DOMAIN t : x = t[i]
    BY DEF ToSet
  <2>2. i + 1 \in DOMAIN s /\ t[i] = s[i + 1]
    BY <1>1, <1>2
  <2>. QED
    BY <2>1, <2>2 DEF ToSet
<1>5. Head(s) \in ToSet(s)
  BY <1>2 DEF ToSet
<1>6. t # <<>> => Head(t) \in ToSet(t)
  <2>. SUFFICES ASSUME t # <<>> PROVE Head(t) \in ToSet(t)
    OBVIOUS
  <2>1. Len(t) \in Nat \ {0} /\ DOMAIN t = 1..Len(t)
    BY <1>1, EmptySeq, LenProperties
  <2>. QED
    BY <2>1, <1>1 DEF ToSet
<1>. QED
  BY <1>1, <1>2, <1>3, <1>4, <1>5, <1>6 DEF t

\* What comes after its first element does not repeat it.
LEMMA PartsOnce ==
    ASSUME NEW S, NEW s \in Seq(S), s # <<>>, Once(s)
    PROVE  Once(Tail(s)) /\ Head(s) \notin ToSet(Tail(s))
<1> DEFINE t == Tail(s)
<1>1. /\ t \in Seq(S) /\ Len(t) = Len(s) - 1
      /\ \A i \in 1..Len(t) : t[i] = s[i + 1]
  BY HeadTailProperties
<1>2. /\ Len(s) \in Nat \ {0} /\ DOMAIN s = 1..Len(s) /\ Head(s) = s[1]
      /\ DOMAIN t = 1..(Len(s) - 1)
  BY <1>1, EmptySeq, LenProperties
<1>. HIDE DEF t
<1>3. ASSUME NEW i \in DOMAIN t PROVE i \in Nat /\ i + 1 \in DOMAIN s /\ t[i] = s[i + 1] /\ i + 1 # 1
  BY <1>1, <1>2
<1>4. Once(t)
  BY <1>3 DEF Once
<1>5. Head(s) \notin ToSet(t)
  <2>1. 1 \in DOMAIN s
    BY <1>2
  <2>. QED
    BY <2>1, <1>3, <1>2 DEF ToSet, Once
<1>. QED
  BY <1>4, <1>5 DEF t

LEMMA AppendParts ==
    ASSUME NEW S, NEW s \in Seq(S), NEW e \in S
    PROVE  /\ Append(s, e) \in Seq(S)
           /\ Len(Append(s, e)) = Len(s) + 1 /\ Len(s) \in Nat
           /\ ToSet(Append(s, e)) = ToSet(s) \union {e}
<1> DEFINE t == Append(s, e)
<1>1. /\ t \in Seq(S) /\ Len(t) = Len(s) + 1 /\ Len(s) \in Nat
      /\ DOMAIN t = 1..(Len(s) + 1) /\ DOMAIN s = 1..Len(s)
      /\ t[Len(s) + 1] = e /\ \A i \in 1..Len(s) : t[i] = s[i]
  BY AppendProperties, LenProperties
<1>. HIDE DEF t
<1>2. \A i \in DOMAIN t : i \in DOMAIN s \/ i = Len(s) + 1
  BY <1>1
<1>3. \A i \in DOMAIN s : i \in DOMAIN t
  BY <1>1
<1>4. Len(s) + 1 \in DOMAIN t
  BY <1>1
<1>5. ToSet(t) \subseteq ToSet(s) \union {e}
  BY <1>1, <1>2 DEF ToSet
<1>6. ToSet(s) \union {e} \subseteq ToSet(t)
  BY <1>1, <1>3, <1>4 DEF ToSet
<1>. QED
  BY <1>1, <1>5, <1>6 DEF t

LEMMA ConcatParts ==
    ASSUME NEW S, NEW s \in Seq(S), NEW t \in Seq(S)
    PROVE  /\ s \o t \in Seq(S)
           /\ Len(s \o t) = Len(s) + Len(t)
           /\ ToSet(s \o t) = ToSet(s) \union ToSet(t)
<1> DEFINE r == s \o t
<1>1. /\ r \in Seq(S) /\ Len(r) = Len(s) + Len(t)
      /\ Len(s) \in Nat /\ Len(t) \in Nat
      /\ DOMAIN r = 1..(Len(s) + Len(t)) /\ DOMAIN s = 1..Len(s) /\ DOMAIN t = 1..Len(t)
      /\ \A i \in 1..(Len(s) + Len(t)) : r[i] = IF i <= Len(s) THEN s[i] ELSE t[i - Len(s)]
  BY ConcatProperties, LenProperties
<1>. HIDE DEF r
<1>2. ASSUME NEW i \in DOMAIN r
      PROVE  \/ i \in DOMAIN s /\ r[i] = s[i]
             \/ i - Len(s) \in DOMAIN t /\ r[i] = t[i - Len(s)]
  BY <1>1
<1>3. ASSUME NEW i \in DOMAIN s PROVE i \in DOMAIN r /\ r[i] = s[i]
  BY <1>1
<1>4. ASSUME NEW i \in DOMAIN t PROVE i + Len(s) \in DOMAIN r /\ r[i + Len(s)] = t[i]
  <2>1. /\ i + Len(s) \in 1..(Len(s) + Len(t)) /\ ~(i + Len(s) <= Len(s))
        /\ (i + Len(s)) - Len(s) = i
    BY <1>1
  <2>. QED
    BY <2>1, <1>1
<1>5. ToSet(r) \subseteq ToSet(s) \union ToSet(t)
  BY <1>2 DEF ToSet
<1>6. ToSet(s) \union ToSet(t) \subseteq ToSet(r)
  BY <1>3, <1>4 DEF ToSet
<1>. QED
  BY <1>1, <1>5, <1>6 DEF r

\* A layer in order has each of its goals once.
LEMMA SortedParts ==
    ASSUME NEW L \in SUBSET Goals, NEW s \in Sorted(L)
    PROVE  /\ s \in Seq(L) /\ Once(s)
           /\ ToSet(s) = L /\ Len(s) = Cardinality(L)
           /\ L # {} => s # <<>> /\ Head(s) = s[1] /\ s[1] \in L
<1> DEFINE n == Cardinality(L)
<1>1. IsFiniteSet(L) /\ n \in Nat /\ L \subseteq Nat
  BY GoalsFinite, SubAgentsConstants
<1>. HIDE DEF n
<1>2. s \in [1..n -> L] /\ Once(s)
  BY DEF Sorted, SetToSeqs, Once, n
<1>3. s \in Seq(L) /\ Len(s) = n /\ DOMAIN s = 1..n
  BY <1>1, <1>2
<1>4. s \in Injection(1..n, L)
  BY <1>2, <1>3 DEF Injection, IsInjective, Once
<1>5. Cardinality(1..n) = n
  BY <1>1, FS_Interval
<1>6. s \in Surjection(1..n, L)
  BY <1>1, <1>4, <1>5, FS_Injection DEF n
<1>7. ToSet(s) = L
  BY <1>2, <1>3, <1>6 DEF Surjection, ToSet
<1>8. ASSUME L # {} PROVE s # <<>> /\ Head(s) = s[1] /\ s[1] \in L
  <2>1. n # 0
    BY <1>1, <1>8, FS_EmptySet DEF n
  <2>. QED
    BY <2>1, <1>1, <1>2, <1>3
<1>. QED
  BY <1>2, <1>3, <1>7, <1>8 DEF n

-----------------------------------------------------------------------------
(* Initial states, and graphs.                                             *)

LEMMA IdTypes ==
    ASSUME worker \in Workers
    PROVE  \A p \in Parents, g \in Goals :
             /\ AgentId(p, g) \in AgentIds /\ <<p, g>> \in Agents
             /\ AgentId(p, g)[1] = worker[p] /\ AgentId(p, g)[2] = g
<1>. SUFFICES ASSUME NEW p \in Parents, NEW g \in Goals
              PROVE  /\ AgentId(p, g) \in AgentIds /\ <<p, g>> \in Agents
                     /\ AgentId(p, g)[1] = worker[p] /\ AgentId(p, g)[2] = g
  OBVIOUS
<1>1. worker[p] \in UNION {{w[q] : q \in Parents} : w \in Workers}
  OBVIOUS
<1>. QED
  BY <1>1 DEF AgentId, AgentIds, Agents

LEMMA GraphTypes ==
    /\ <<>> \in Dependencies
    /\ \A d \in Dependencies : DOMAIN d \subseteq Goals /\ \A g \in DOMAIN d : d[g] \subseteq Goals
    /\ \A d : ~Cyclic(d, {})
<1>1. <<>> \in [{} -> SUBSET Goals]
  OBVIOUS
<1>2. <<>> \in Dependencies
  BY <1>1 DEF Dependencies
<1>. QED
  BY <1>2 DEF Dependencies, Cyclic

\* Without a cycle a layer has goals, and leaves no cycle.
LEMMA LayerParts ==
    ASSUME NEW d, NEW S \in SUBSET Goals, ~Cyclic(d, S), S # {}
    PROVE  /\ Layer(d, S) # {} /\ Layer(d, S) \subseteq S
           /\ ~Cyclic(d, S \ Layer(d, S))
           /\ \A g \in Layer(d, S) : d[g] \intersect S = {}
BY DEF Layer, Cyclic

LEMMA InitIInv == Init => IInv
<1>. SUFFICES ASSUME Init PROVE IInv
  OBVIOUS
<1>. USE DEF Init
<1>0. worker \in Workers /\ MaxConcurrent \in Nat \ {0} /\ MaxIterations \in Nat \ {0} /\ MaxFaults[worker] \in Nat
  BY SubAgentsConstants
<1>1. TypeOK
  <2>1. \A S : <<>> \in Seq(S)
    BY EmptySeq
  <2>. QED
    BY <1>0, <2>1, GraphTypes DEF TypeOK, Strategies
<1>2. \A p \in Parents : Spawned(p) = {}
  BY DEF Spawned, Agents
<1>3. Standing
  BY <1>2, GraphTypes DEF Standing, Stands, ToSet, Once
<1>4. Registered /\ Gated
  BY SubAgentsConstants DEF Registered, Gated
<1>5. PermitsCounted
  <2>. SUFFICES ASSUME NEW s \in Agents
                PROVE  permits[s] + Cardinality(RunningOn(s)) = MaxConcurrent
    BY DEF PermitsCounted, RunningOn
  <2>1. RunningOn(s) = {} /\ permits[s] = MaxConcurrent
    BY DEF RunningOn
  <2>2. Cardinality(RunningOn(s)) = 0
    BY <2>1, FS_EmptySet
  <2>. QED
    BY <2>1, <2>2, <1>0
<1>6. Owned
  BY <1>2 DEF Owned, ToSet
<1>7. Counted
  <2>. SUFFICES ASSUME NEW p \in Parents
                PROVE  /\ Collected(p) \union ToSet(handles[p]) = Spawned(p)
                       /\ Len(results[p]) + Len(handles[p]) = Cardinality(Spawned(p))
    BY DEF Counted
  <2>1. Spawned(p) = {} /\ Cardinality({}) = 0 /\ results[p] = <<>> /\ handles[p] = <<>>
    BY <1>2, FS_EmptySet
  <2>2. Cardinality(Spawned(p)) = 0
    BY <2>1
  <2>3. Len(results[p]) = 0 /\ Len(handles[p]) = 0
    BY <2>1, EmptySeq
  <2>. QED
    BY <2>1, <2>2, <2>3 DEF ToSet, Collected
<1>8. Awaited /\ OwnResultsIfAlone
  BY DEF Awaited, OwnResultsIfAlone, GetsOwnResults, ToSet
<1>. QED
  BY <1>1, <1>3, <1>4, <1>5, <1>6, <1>7, <1>8 DEF IInv, Base

-----------------------------------------------------------------------------
(* A parent plans, reflects or ends: no agent, task or result is touched.   *)

Unspawned == <<worker, handles, awaits, results, agentVars, tasks, current, faults>>

\* What such a step of p may do to p.
Rearranged(p) ==
    /\ UNCHANGED Unspawned
    /\ pc' \in [Parents -> {"idle", "layered", "collecting", "done", "failed"}]
    /\ strategy' \in [Parents -> Strategies]
    /\ deps' \in [Parents -> Dependencies]
    /\ left' \in [Parents -> SUBSET Goals]
    /\ round' \in [Parents -> 0..MaxIterations]
    /\ pc[p] \in {"idle", "layered"} /\ pc'[p] \in {"layered", "done", "failed"}
    /\ pc[p] # "idle" => strategy'[p] = strategy[p]
    /\ p \notin Tools => strategy'[p] = "best_effort"
    /\ ~Cyclic(deps'[p], left'[p]) /\ left'[p] \subseteq DOMAIN deps'[p]
    /\ Spawned(p) \subseteq DOMAIN deps'[p] \ left'[p]
    /\ pc'[p] = "layered" => DOMAIN deps'[p] \ left'[p] = Spawned(p)
    /\ \A q \in Parents \ {p} :
         /\ pc'[q] = pc[q] /\ strategy'[q] = strategy[q]
         /\ deps'[q] = deps[q] /\ left'[q] = left[q]

LEMMA ElementTypes ==
    ASSUME NEW S, NEW s \in Seq(S)
    PROVE  ToSet(s) \subseteq S
BY LenProperties DEF ToSet

LEMMA ResultTypes ==
    ASSUME TypeOK
    PROVE  \A p \in Parents : \A r \in ToSet(results[p]) : r.goal \in Goals /\ r.status \in Outcomes
<1>. SUFFICES ASSUME NEW p \in Parents, NEW r \in ToSet(results[p])
              PROVE  r.goal \in Goals /\ r.status \in Outcomes
  OBVIOUS
<1> DEFINE R == [goal : Goals, status : Outcomes]
<1>1. results[p] \in Seq(R)
  BY DEF TypeOK
<1>. HIDE DEF R
<1>2. r \in R
  BY <1>1, ElementTypes
<1>. QED
  BY <1>2 DEF R

LEMMA RearrangedKeeps ==
    ASSUME IInv, NEW p \in Parents, Rearranged(p)
    PROVE  IInv'
<1>1. /\ TypeOK /\ Standing /\ Registered /\ Gated
      /\ PermitsCounted /\ Owned /\ Counted /\ Awaited /\ OwnResultsIfAlone
  BY DEF IInv, Base
<1>2. UNCHANGED <<worker, handles, awaits, results, agent, sem, cancelled, permits, tasks, current, faults>>
  BY DEF Rearranged, Unspawned, agentVars
<1>3. /\ TypeOK'
  BY <1>1, <1>2 DEF TypeOK, Rearranged
<1>4. /\ \A q : Spawned(q)' = Spawned(q) /\ Collected(q)' = Collected(q) /\ Alone(q)' = Alone(q)
      /\ \A a : Over(a)' = Over(a)
      /\ \A q, g : AgentId(q, g)' = AgentId(q, g)
  BY <1>2 DEF Spawned, Collected, Alone, Over, AgentId
<1>5. Stands(p) /\ pc[p] # "collecting" /\ handles[p] = <<>> /\ awaits[p] = NoAgent
  BY <1>1 DEF Standing, Stands, Rearranged
<1>6. Standing'
  <2>1. Stands(p)'
    BY <1>2, <1>4, <1>5 DEF Stands, Rearranged
  <2>2. ASSUME NEW q \in Parents \ {p} PROVE Stands(q)'
    BY <1>1, <1>2, <1>4 DEF Standing, Stands, Rearranged
  <2>. QED
    BY <2>1, <2>2 DEF Standing
<1>7. Registered' /\ Gated' /\ PermitsCounted'
  BY <1>1, <1>2, <1>4 DEF Registered, Gated, PermitsCounted
<1>8. pc[p] = "idle" => Spawned(p) = {} /\ results[p] = <<>>
  BY <1>5 DEF Stands
<1>9. Owned'
  <2>. SUFFICES ASSUME NEW q \in Parents, Alone(q)'
                PROVE  /\ \A g \in ToSet(handles[q]) : tasks[AgentId(q, g)] = <<q, g>>
                       /\ pc'[q] = "collecting" => awaits[q] = <<q, Head(handles[q])>>
                       /\ \A g \in Spawned(q) :
                            \/ Over(<<q, g>>)
                            \/ g \in ToSet(handles[q])
                            \/ <<q, g>> \in cancelled /\ Stopped(q)'
                            \/ strategy'[q] = "unknown" /\ pc'[q] = "failed"
    BY <1>2, <1>4 DEF Owned
  <2>1. pc'[q] = "collecting" => pc[q] = "collecting"
    BY DEF Rearranged
  <2>2. /\ \A g \in ToSet(handles[q]) : tasks[AgentId(q, g)] = <<q, g>>
        /\ pc[q] = "collecting" => awaits[q] = <<q, Head(handles[q])>>
        /\ \A g \in Spawned(q) :
             \/ Over(<<q, g>>)
             \/ g \in ToSet(handles[q])
             \/ <<q, g>> \in cancelled /\ Stopped(q)
             \/ strategy[q] = "unknown" /\ pc[q] = "failed"
    BY <1>1, <1>4 DEF Owned
  <2>3. ASSUME NEW g \in Spawned(q), Stopped(q) PROVE Stopped(q)'
    BY <2>3, <1>2, <1>8 DEF Stopped, Rearranged
  <2>4. ASSUME NEW g \in Spawned(q), strategy[q] = "unknown" /\ pc[q] = "failed"
        PROVE  strategy'[q] = "unknown" /\ pc'[q] = "failed"
    BY <2>4 DEF Rearranged
  <2>. QED
    BY <2>1, <2>2, <2>3, <2>4
<1>10. Counted'
  <2>. SUFFICES ASSUME NEW q \in Parents, strategy'[q] # "unknown"
                PROVE  /\ Collected(q) \union ToSet(handles[q]) = Spawned(q)
                       /\ Len(results[q]) + Len(handles[q]) = Cardinality(Spawned(q))
    BY <1>2, <1>4 DEF Counted
  <2>1. CASE strategy[q] # "unknown"
    BY <2>1, <1>1 DEF Counted
  <2>2. CASE strategy[q] = "unknown"
    <3>1. q = p /\ pc[p] = "idle"
      BY <2>2 DEF Rearranged
    <3>2. Spawned(q) = {} /\ results[q] = <<>> /\ handles[q] = <<>>
      BY <3>1, <1>5, <1>8
    <3>3. Cardinality(Spawned(q)) = 0 /\ Len(results[q]) = 0 /\ Len(handles[q]) = 0
      BY <3>2, FS_EmptySet, EmptySeq
    <3>. QED
      BY <3>2, <3>3 DEF ToSet, Collected
  <2>. QED
    BY <2>1, <2>2
<1>11. Awaited'
  <2>. SUFFICES ASSUME NEW i \in AgentIds, tasks[i] # NoAgent, Alone(tasks[i][1])
                PROVE  strategy'[tasks[i][1]] \in {"fail_fast", "unknown"} \/ i[2] \in ToSet(handles[tasks[i][1]])
    BY <1>2, <1>4 DEF Awaited
  <2>1. PICK q \in Parents : tasks[i] = <<q, i[2]>> /\ i[2] \in Spawned(q)
    BY <1>1 DEF Registered
  <2>0. tasks[i][1] = q
    BY <2>1
  <2>2. strategy[q] \in {"fail_fast", "unknown"} \/ i[2] \in ToSet(handles[q])
    BY <1>1, <2>0 DEF Awaited
  <2>3. q = p => strategy'[q] = strategy[q]
    BY <1>8, <2>1 DEF Rearranged
  <2>. QED
    BY <2>0, <2>2, <2>3 DEF Rearranged
<1>12. OwnResultsIfAlone'
  <2>. SUFFICES ASSUME NEW q \in Parents, Alone(q) PROVE GetsOwnResults(q)'
    BY <1>4 DEF OwnResultsIfAlone
  <2>1. GetsOwnResults(q)
    BY <1>1 DEF OwnResultsIfAlone
  <2>2. CASE strategy'[q] = strategy[q]
    BY <2>1, <2>2, <1>2 DEF GetsOwnResults, Over, Reported
  <2>3. CASE strategy'[q] # strategy[q]
    <3>1. results[q] = <<>>
      BY <2>3, <1>8 DEF Rearranged
    <3>. QED
      BY <3>1, <1>2 DEF GetsOwnResults, ToSet
  <2>. QED
    BY <2>2, <2>3
<1>. QED
  BY <1>3, <1>6, <1>7, <1>9, <1>10, <1>11, <1>12 DEF IInv, Base

LEMMA RearrangedSteps ==
    ASSUME IInv, NEW p \in Parents,
           Plans(p) \/ PlanFails(p) \/ Returns(p) \/ PlanEnds(p) \/ Reflects(p)
    PROVE  Rearranged(p)
<1>1. TypeOK /\ Stands(p) /\ Graphs[p] \subseteq Dependencies /\ Extras[p] \subseteq Dependencies
  BY SubAgentsConstants DEF IInv, Base, Standing
<1>2. MaxIterations \in Nat \ {0}
  BY SubAgentsConstants
<1>. USE DEF Rearranged, Unspawned
<1>3. CASE Plans(p)
  <2>1. PICK G \in Graphs[p] : Arrange(p, G, DOMAIN G)
    BY <1>3 DEF Plans
  <2>2. G \in Dependencies /\ DOMAIN G \subseteq Goals
    BY <1>1, <2>1, GraphTypes
  <2>3. /\ deps' \in [Parents -> Dependencies] /\ deps'[p] = G
        /\ left' \in [Parents -> SUBSET Goals]
        /\ pc' \in [Parents -> {"idle", "layered", "collecting", "done", "failed"}]
        /\ pc'[p] \in {"layered", "failed"}
        /\ \A q \in Parents \ {p} : pc'[q] = pc[q] /\ deps'[q] = deps[q] /\ left'[q] = left[q]
        /\ pc'[p] = "layered" => left'[p] = DOMAIN G /\ ~Cyclic(G, DOMAIN G)
        /\ pc'[p] = "failed" => left'[p] = left[p]
    BY <1>1, <2>1, <2>2 DEF Arrange, TypeOK
  <2>4. pc[p] = "idle" /\ left[p] = {} /\ Spawned(p) = {}
    BY <1>1, <1>3 DEF Plans, Stands
  <2>5. /\ strategy' \in [Parents -> Strategies] /\ round' \in [Parents -> 0..MaxIterations]
        /\ p \notin Tools => strategy'[p] = "best_effort"
        /\ \A q \in Parents \ {p} : strategy'[q] = strategy[q]
    <3>1. PICK s \in IF p \in Tools THEN Strategies ELSE {"best_effort"} :
            strategy' = [strategy EXCEPT ![p] = s]
      BY <1>3 DEF Plans
    <3>2. round' = [round EXCEPT ![p] = 1] /\ 1 \in 0..MaxIterations
      BY <1>2, <1>3 DEF Plans
    <3>. QED
      BY <1>1, <3>1, <3>2 DEF TypeOK, Strategies
  <2>6. ~Cyclic(deps'[p], left'[p])
    BY <2>3, <2>4, GraphTypes
  <2>7. UNCHANGED Unspawned
    BY <1>3 DEF Plans
  <2>. QED
    BY <2>3, <2>4, <2>5, <2>6, <2>7
<1>4. CASE PlanFails(p) \/ Returns(p) \/ PlanEnds(p)
  <2>1. /\ UNCHANGED Unspawned /\ UNCHANGED <<strategy, deps, left, round>>
        /\ pc[p] \in {"idle", "layered"}
        /\ \E e \in {"done", "failed"} : pc' = [pc EXCEPT ![p] = e]
    BY <1>4 DEF PlanFails, Returns, PlanEnds
  <2>. QED
    BY <1>1, <2>1 DEF TypeOK, Stands
<1>5. CASE Reflects(p)
  <2>1. PICK E \in Extras[p] :
          LET new == DOMAIN E
              all == [g \in DOMAIN deps[p] \union new |-> IF g \in new THEN E[g] ELSE deps[p][g]]
          IN
          /\ new # {} /\ new \intersect DOMAIN deps[p] = {}
          /\ IF round[p] < MaxIterations
             THEN round' = [round EXCEPT ![p] = @ + 1] /\ Arrange(p, all, new)
             ELSE /\ deps' = [deps EXCEPT ![p] = all]
                  /\ pc' = [pc EXCEPT ![p] = "done"]
                  /\ UNCHANGED <<left, round>>
    BY <1>5 DEF Reflects
  <2> DEFINE new == DOMAIN E
             all == [g \in DOMAIN deps[p] \union new |-> IF g \in new THEN E[g] ELSE deps[p][g]]
  <2>2. new \subseteq Goals /\ all \in Dependencies /\ DOMAIN all = DOMAIN deps[p] \union new
    <3>1. E \in Dependencies /\ deps[p] \in Dependencies
      BY <1>1 DEF TypeOK
    <3>2. /\ DOMAIN E \subseteq Goals /\ \A g \in DOMAIN E : E[g] \subseteq Goals
          /\ DOMAIN deps[p] \subseteq Goals /\ \A g \in DOMAIN deps[p] : deps[p][g] \subseteq Goals
      BY <3>1, GraphTypes
    <3>3. all \in [DOMAIN deps[p] \union new -> SUBSET Goals]
      BY <3>2
    <3>4. DOMAIN deps[p] \union new \in SUBSET Goals
      BY <3>2
    <3>5. all \in Dependencies
      BY <3>3, <3>4 DEF Dependencies
    <3>. QED
      BY <3>2, <3>5
  <2>3. /\ new \intersect DOMAIN deps[p] = {}
        /\ IF round[p] < MaxIterations
           THEN round' = [round EXCEPT ![p] = @ + 1] /\ Arrange(p, all, new)
           ELSE /\ deps' = [deps EXCEPT ![p] = all]
                /\ pc' = [pc EXCEPT ![p] = "done"]
                /\ UNCHANGED <<left, round>>
    BY <2>1
  <2>. HIDE DEF new, all
  <2>4. pc[p] = "layered" /\ left[p] = {} /\ DOMAIN deps[p] = Spawned(p)
    BY <1>1, <1>5 DEF Reflects, Stands
  <2>5. /\ deps' \in [Parents -> Dependencies] /\ deps'[p] = all
        /\ left' \in [Parents -> SUBSET Goals]
        /\ pc' \in [Parents -> {"idle", "layered", "collecting", "done", "failed"}]
        /\ pc'[p] \in {"layered", "done", "failed"}
        /\ \A q \in Parents \ {p} : pc'[q] = pc[q] /\ deps'[q] = deps[q] /\ left'[q] = left[q]
        /\ pc'[p] = "layered" => left'[p] = new /\ ~Cyclic(all, new)
        /\ pc'[p] # "layered" => left'[p] = left[p]
    <3>1. CASE round[p] < MaxIterations
      <4>1. Arrange(p, all, new)
        BY <2>3, <3>1
      <4>2. /\ deps' = [deps EXCEPT ![p] = all]
            /\ \/ Cyclic(all, new) /\ pc' = [pc EXCEPT ![p] = "failed"] /\ left' = left
               \/ /\ ~Cyclic(all, new)
                  /\ pc' = [pc EXCEPT ![p] = "layered"] /\ left' = [left EXCEPT ![p] = new]
        BY <4>1 DEF Arrange
      <4>. QED
        BY <1>1, <2>2, <4>2 DEF TypeOK
    <3>2. CASE ~(round[p] < MaxIterations)
      BY <1>1, <2>2, <2>3, <3>2 DEF TypeOK
    <3>. QED
      BY <3>1, <3>2
  <2>6. round' \in [Parents -> 0..MaxIterations]
    <3>1. round \in [Parents -> 0..MaxIterations]
      BY <1>1 DEF TypeOK
    <3>2. round[p] < MaxIterations => round[p] + 1 \in 0..MaxIterations
      BY <1>2, <3>1
    <3>3. (round[p] < MaxIterations /\ round' = [round EXCEPT ![p] = @ + 1]) \/ round' = round
      BY <2>3
    <3>. QED
      BY <3>1, <3>2, <3>3
  <2>7. UNCHANGED Unspawned /\ UNCHANGED strategy /\ p \notin Tools
    BY <1>5 DEF Reflects
  <2>8. ~Cyclic(deps'[p], left'[p])
    BY <2>4, <2>5, GraphTypes
  <2>9. strategy \in [Parents -> Strategies] /\ strategy[p] = "best_effort"
    BY <1>1, <2>7 DEF TypeOK, Stands
  <2>10. /\ left'[p] \subseteq DOMAIN deps'[p]
         /\ Spawned(p) \subseteq DOMAIN deps'[p] \ left'[p]
         /\ pc'[p] = "layered" => DOMAIN deps'[p] \ left'[p] = Spawned(p)
    BY <2>2, <2>3, <2>4, <2>5
  <2>. QED
    BY <2>4, <2>5, <2>6, <2>7, <2>8, <2>9, <2>10
<1>. QED
  BY <1>3, <1>4, <1>5

-----------------------------------------------------------------------------
(* An agent moves on.                                                      *)

Moved(a) ==
    /\ UNCHANGED <<parentVars, tasks, current>>
    /\ agent[a] \in {"created", "waiting", "running"}
    /\ \E s \in {"waiting", "running"} \union Outcomes : agent' = [agent EXCEPT ![a] = s]
    /\ sem' \in [Agents -> Agents \union {NoAgent}]
    /\ \A b \in Agents \ {a} : sem'[b] = sem[b]
    /\ agent'[a] \in {"waiting", "running"} => sem'[a] # NoAgent
    /\ cancelled' = IF agent'[a] \in Outcomes THEN cancelled \ {a} ELSE cancelled
    /\ permits' \in [Agents -> 0..MaxConcurrent]
    /\ PermitsCounted'
    /\ faults' \in 0..MaxFaults[worker]

\* A permit is taken, given back or neither.
LEMMA PermitMoves ==
    ASSUME TypeOK, PermitsCounted, NEW a \in Agents, NEW s \in Agents,
           \/ /\ a \notin RunningOn(s) /\ RunningOn(s)' = RunningOn(s) \union {a}
              /\ permits[s] > 0 /\ permits'[s] = permits[s] - 1
           \/ /\ a \in RunningOn(s) /\ RunningOn(s)' = RunningOn(s) \ {a}
              /\ permits'[s] = permits[s] + 1
           \/ RunningOn(s)' = RunningOn(s) /\ permits'[s] = permits[s]
    PROVE  permits'[s] + Cardinality(RunningOn(s)') = MaxConcurrent /\ permits'[s] \in 0..MaxConcurrent
<1>1. MaxConcurrent \in Nat /\ permits[s] \in 0..MaxConcurrent
  BY SubAgentsConstants DEF TypeOK
<1>2. IsFiniteSet(RunningOn(s)) /\ Cardinality(RunningOn(s)) \in Nat
  BY GoalsFinite, FS_Subset, FS_CardinalityType DEF RunningOn
<1>3. permits[s] + Cardinality(RunningOn(s)) = MaxConcurrent
  BY DEF PermitsCounted, RunningOn
<1>4. CASE /\ a \notin RunningOn(s) /\ RunningOn(s)' = RunningOn(s) \union {a}
           /\ permits[s] > 0 /\ permits'[s] = permits[s] - 1
  <2>1. Cardinality(RunningOn(s)') = Cardinality(RunningOn(s)) + 1
    BY <1>2, <1>4, FS_AddElement
  <2>. QED
    BY <1>1, <1>2, <1>3, <1>4, <2>1
<1>5. CASE /\ a \in RunningOn(s) /\ RunningOn(s)' = RunningOn(s) \ {a}
           /\ permits'[s] = permits[s] + 1
  <2>1. Cardinality(RunningOn(s)') = Cardinality(RunningOn(s)) - 1
    BY <1>2, <1>5, FS_RemoveElement
  <2>2. Cardinality(RunningOn(s)) # 0
    BY <1>2, <1>5, FS_EmptySet
  <2>. QED
    BY <1>1, <1>2, <1>3, <1>5, <2>1, <2>2
<1>. QED
  BY <1>1, <1>2, <1>3, <1>4, <1>5

LEMMA MovedSteps ==
    ASSUME IInv, NEW a \in Agents, Agent(a) \/ FailsOrTimesOut(a)
    PROVE  Moved(a)
<1>1. TypeOK /\ Gated /\ PermitsCounted
  BY DEF IInv, Base
<1>2. /\ agent \in [Agents -> {"none", "created", "waiting", "running"} \union Outcomes]
      /\ sem \in [Agents -> Agents \union {NoAgent}]
      /\ permits \in [Agents -> 0..MaxConcurrent]
      /\ faults \in 0..MaxFaults[worker] /\ NoAgent \notin Agents
  BY <1>1, SubAgentsConstants DEF TypeOK
<1>3. MaxConcurrent \in Nat /\ MaxFaults[worker] \in Nat
  BY <1>1, SubAgentsConstants DEF TypeOK
\* The rest follows from what each semaphore has.
<1> DEFINE Balanced(s) ==
      \/ /\ a \notin RunningOn(s) /\ RunningOn(s)' = RunningOn(s) \union {a}
         /\ permits[s] > 0 /\ permits'[s] = permits[s] - 1
      \/ /\ a \in RunningOn(s) /\ RunningOn(s)' = RunningOn(s) \ {a}
         /\ permits'[s] = permits[s] + 1
      \/ RunningOn(s)' = RunningOn(s) /\ permits'[s] = permits[s]
<1>4. ASSUME \A s \in Agents : Balanced(s), DOMAIN permits' = Agents, permits' = [s \in Agents |-> permits'[s]]
      PROVE  PermitsCounted' /\ permits' \in [Agents -> 0..MaxConcurrent]
  <2>1. \A s \in Agents : permits'[s] + Cardinality(RunningOn(s)') = MaxConcurrent /\ permits'[s] \in 0..MaxConcurrent
    BY <1>1, <1>4, PermitMoves
  <2>. QED
    BY <2>1, <1>4 DEF PermitsCounted, RunningOn
<1>5. CASE Starts(a)
  <2>1. current \in Agents
    BY <1>1, <1>5 DEF Gated, TypeOK, Starts
  <2>2. /\ agent[a] = "created" /\ sem' = [sem EXCEPT ![a] = current]
        /\ UNCHANGED <<parentVars, tasks, current, cancelled, faults>>
        /\ \/ /\ permits[current] > 0
              /\ agent' = [agent EXCEPT ![a] = "running"]
              /\ permits' = [permits EXCEPT ![current] = @ - 1]
           \/ agent' = [agent EXCEPT ![a] = "waiting"] /\ permits' = permits
    BY <1>5 DEF Starts, Takes, otherVars
  <2>3. \A s \in Agents : Balanced(s)
    BY <1>2, <2>1, <2>2 DEF RunningOn
  <2>. HIDE DEF Balanced
  <2>4. DOMAIN permits' = Agents /\ permits' = [s \in Agents |-> permits'[s]]
    BY <1>2, <2>2
  <2>5. \E s \in {"waiting", "running"} : agent' = [agent EXCEPT ![a] = s] /\ agent'[a] = s
    BY <1>2, <2>2
  <2>. QED
    BY <1>2, <1>4, <2>1, <2>2, <2>3, <2>4, <2>5 DEF Moved, Outcomes
<1>6. CASE Acquires(a)
  <2>1. sem[a] \in Agents
    BY <1>1, <1>2, <1>6 DEF Gated, Acquires
  <2>2. /\ agent[a] = "waiting" /\ permits[sem[a]] > 0
        /\ UNCHANGED <<parentVars, tasks, current, cancelled, faults, sem>>
        /\ agent' = [agent EXCEPT ![a] = "running"]
        /\ permits' = [permits EXCEPT ![sem[a]] = @ - 1]
    BY <1>6 DEF Acquires, Takes, otherVars
  <2>3. \A s \in Agents : Balanced(s)
    BY <1>2, <2>1, <2>2 DEF RunningOn
  <2>. HIDE DEF Balanced
  <2>4. DOMAIN permits' = Agents /\ permits' = [s \in Agents |-> permits'[s]]
    BY <1>2, <2>2
  <2>. QED
    BY <1>2, <1>4, <2>1, <2>2, <2>3, <2>4 DEF Moved, Outcomes
<1>7. CASE Succeeds(a) \/ CancelLands(a) \/ FailsOrTimesOut(a)
  <2>1. /\ agent[a] \in {"created", "waiting", "running"}
        /\ \E o \in Outcomes : Ends(a, o)
        /\ faults' \in 0..MaxFaults[worker]
    BY <1>1, <1>2, <1>3, <1>7 DEF Succeeds, CancelLands, FailsOrTimesOut, Gated, Outcomes
  <2>2. PICK o \in Outcomes : Ends(a, o)
    BY <2>1
  <2>3. /\ agent' = [agent EXCEPT ![a] = o] /\ agent'[a] = o
        /\ permits' = Released(a)
        /\ sem' = [sem EXCEPT ![a] = NoAgent]
        /\ cancelled' = cancelled \ {a}
        /\ UNCHANGED <<parentVars, tasks, current>>
    BY <1>2, <2>2 DEF Ends, otherVars
  <2>4. agent'[a] # "running"
    BY <2>3 DEF Outcomes
  <2>5. /\ DOMAIN permits' = Agents /\ permits' = [s \in Agents |-> permits'[s]]
        /\ \A s \in Agents : permits'[s] = IF s = sem[a] /\ agent[a] = "running" THEN permits[s] + 1 ELSE permits[s]
    BY <2>3 DEF Released
  <2>6. \A s \in Agents : Balanced(s)
    BY <1>2, <2>3, <2>4, <2>5 DEF RunningOn
  <2>. HIDE DEF Balanced
  <2>7. PermitsCounted' /\ permits' \in [Agents -> 0..MaxConcurrent]
    BY <1>4, <2>5, <2>6
  <2>. QED
    BY <1>2, <2>1, <2>3, <2>7 DEF Moved, Outcomes
<1>. QED
  BY <1>5, <1>6, <1>7 DEF Agent

LEMMA MovedKeeps ==
    ASSUME IInv, NEW a \in Agents, Moved(a)
    PROVE  IInv'
<1>1. /\ TypeOK /\ Standing /\ Registered /\ Gated
      /\ PermitsCounted /\ Owned /\ Counted /\ Awaited /\ OwnResultsIfAlone
  BY DEF IInv, Base
<1>2. /\ UNCHANGED <<worker, pc, strategy, deps, left, handles, awaits, results, round, tasks, current>>
      /\ agent \in [Agents -> {"none", "created", "waiting", "running"} \union Outcomes]
  BY <1>1 DEF Moved, parentVars, TypeOK
<1>3. /\ agent' \in [Agents -> {"none", "created", "waiting", "running"} \union Outcomes]
      /\ agent'[a] \in {"waiting", "running"} \union Outcomes
      /\ \A b \in Agents \ {a} : agent'[b] = agent[b]
  BY <1>2 DEF Moved
<1>4. agent[a] \in {"created", "waiting", "running"}
  BY DEF Moved
<1>5. /\ \A b \in Agents : agent'[b] = "none" <=> agent[b] = "none"
      /\ \A b \in Agents : Over(b) => Over(b)' /\ agent'[b] = agent[b]
      /\ \A b \in Agents : b \in cancelled => b \in cancelled' \/ Over(b)'
  BY <1>3, <1>4 DEF Over, Outcomes, Moved
<1>6. /\ \A p \in Parents : Spawned(p)' = Spawned(p)
      /\ \A q : Alone(q)' = Alone(q) /\ Collected(q)' = Collected(q) /\ Stopped(q)' = Stopped(q)
      /\ \A q, g : AgentId(q, g)' = AgentId(q, g)
  BY <1>2, <1>5 DEF Spawned, Collected, Alone, AgentId, Agents, Stopped
<1>7. TypeOK'
  BY <1>1, <1>2, <1>3 DEF TypeOK, Moved
<1>8. Standing'
  BY <1>1, <1>2, <1>6 DEF Standing, Stands
<1>9. Registered'
  <2>1. \A p \in Parents : awaits[p] \in Agents \union {NoAgent}
    BY <1>1 DEF TypeOK
  <2>. QED
    BY <1>1, <1>2, <1>5, <1>6, <2>1 DEF Registered
<1>10. Gated'
  <2>1. \A b \in Agents : agent'[b] \in {"waiting", "running"} => sem'[b] # NoAgent
    BY <1>1, <1>3 DEF Gated, Moved
  <2>2. \A b \in cancelled' : agent'[b] \in {"created", "waiting", "running"}
    <3>1. cancelled \subseteq Agents
      BY <1>1 DEF TypeOK
    <3>. QED
      BY <1>1, <1>3, <3>1 DEF Gated, Moved
  <2>. QED
    BY <1>1, <1>2, <1>5, <2>1, <2>2 DEF Gated
<1>11. PermitsCounted'
  BY DEF Moved
<1>12. Owned'
  <2>. SUFFICES ASSUME NEW q \in Parents, Alone(q)
                PROVE  /\ \A g \in ToSet(handles[q]) : tasks[AgentId(q, g)] = <<q, g>>
                       /\ pc[q] = "collecting" => awaits[q] = <<q, Head(handles[q])>>
                       /\ \A g \in Spawned(q) :
                            \/ Over(<<q, g>>)'
                            \/ g \in ToSet(handles[q])
                            \/ <<q, g>> \in cancelled' /\ Stopped(q)
                            \/ strategy[q] = "unknown" /\ pc[q] = "failed"
    BY <1>2, <1>6 DEF Owned
  <2>1. \A g \in Spawned(q) : <<q, g>> \in Agents
    BY DEF Spawned, Agents
  <2>. QED
    BY <1>1, <1>5, <2>1 DEF Owned
<1>13. Counted' /\ Awaited'
  BY <1>1, <1>2, <1>6 DEF Counted, Awaited
<1>14. OwnResultsIfAlone'
  <2>. SUFFICES ASSUME NEW q \in Parents, Alone(q), NEW r \in ToSet(results[q])
                PROVE  \/ r.status = "cancelled"
                       \/ Over(<<q, r.goal>>)' /\ r.status = Reported(q, agent'[<<q, r.goal>>])
    BY <1>2, <1>6 DEF OwnResultsIfAlone, GetsOwnResults, Reported
  <2>1. \/ r.status = "cancelled"
        \/ Over(<<q, r.goal>>) /\ r.status = Reported(q, agent[<<q, r.goal>>])
    BY <1>1 DEF OwnResultsIfAlone, GetsOwnResults
  <2>2. r.goal \in Goals
    BY <1>1, ResultTypes
  <2>3. <<q, r.goal>> \in Agents
    BY <2>2 DEF Agents
  <2>. QED
    BY <1>2, <1>5, <2>1, <2>3 DEF Reported
<1>. QED
  BY <1>7, <1>8, <1>9, <1>10, <1>11, <1>12, <1>13, <1>14 DEF IInv, Base

-----------------------------------------------------------------------------
(* A layer is spawned.                                                     *)

\* What spawning the goals of layer in order does.
Spawns(p, layer, order) ==
    LET known == strategy[p] # "unknown" IN
    /\ pc' = [pc EXCEPT ![p] = IF known THEN "collecting" ELSE "failed"]
    /\ left' = [left EXCEPT ![p] = @ \ layer]
    /\ handles' = [handles EXCEPT ![p] = IF known THEN order ELSE <<>>]
    /\ awaits' = [awaits EXCEPT ![p] = IF known THEN <<p, order[1]>> ELSE NoAgent]
    /\ current' = <<p, order[1]>>
    /\ agent' = [a \in Agents |-> IF a \in {p} \X layer THEN "created" ELSE agent[a]]
    /\ tasks' = [i \in AgentIds |->
                   IF \E g \in layer : i = AgentId(p, g) THEN <<p, i[2]>> ELSE tasks[i]]
    /\ UNCHANGED <<worker, strategy, deps, results, round, sem, cancelled, permits, faults>>

\* The layer is one of Kahn's, in order.
SpawnedAs(p, layer, order) ==
    /\ Spawns(p, layer, order)
    /\ layer # {} /\ Once(order) /\ ToSet(order) = layer /\ Len(order) = Cardinality(layer)
    /\ order # <<>> /\ Head(order) = order[1] /\ order[1] \in layer
    /\ ~Cyclic(deps[p], left[p] \ layer)
    /\ \A g \in layer : deps[p][g] \intersect left[p] = {}
    /\ pc[p] = "layered" /\ ~Stopped(p)

LEMMA LayerSpawns ==
    ASSUME IInv, NEW p \in Parents, StartsLayer(p)
    PROVE  \E layer \in SUBSET left[p] : \E order \in Seq(layer) : SpawnedAs(p, layer, order)
<1> DEFINE layer == Layer(deps[p], left[p])
<1>1. left[p] \in SUBSET Goals /\ ~Cyclic(deps[p], left[p])
  BY DEF IInv, Base, TypeOK, Standing, Stands
<1>2. left[p] # {} /\ pc[p] = "layered" /\ ~Stopped(p)
  BY DEF StartsLayer
<1>3. /\ layer # {} /\ layer \in SUBSET left[p] /\ ~Cyclic(deps[p], left[p] \ layer)
      /\ \A g \in layer : deps[p][g] \intersect left[p] = {}
  <2> DEFINE d == deps[p]
             S == left[p]
  <2>1. S \in SUBSET Goals /\ ~Cyclic(d, S) /\ S # {}
    BY <1>1, <1>2
  <2>. HIDE DEF d, S
  <2>2. /\ Layer(d, S) # {} /\ Layer(d, S) \subseteq S
        /\ ~Cyclic(d, S \ Layer(d, S))
        /\ \A g \in Layer(d, S) : d[g] \intersect S = {}
    BY <2>1, LayerParts
  <2>. QED
    BY <2>2 DEF d, S
<1>4. PICK order \in Sorted(layer) : Spawns(p, layer, order)
  BY DEF StartsLayer, Spawns, SemaphoreFor
<1>. HIDE DEF layer
<1>5. layer \in SUBSET Goals
  BY <1>1, <1>3
<1>6. /\ order \in Seq(layer) /\ Once(order) /\ ToSet(order) = layer /\ Len(order) = Cardinality(layer)
      /\ order # <<>> /\ Head(order) = order[1] /\ order[1] \in layer
  BY <1>3, <1>4, <1>5, SortedParts
<1>. QED
  BY <1>2, <1>3, <1>4, <1>6 DEF SpawnedAs

LEMMA StartsLayerKeeps ==
    ASSUME IInv, NEW p \in Parents, StartsLayer(p)
    PROVE  IInv'
<1>1. /\ TypeOK /\ Standing /\ Registered /\ Gated
      /\ PermitsCounted /\ Owned /\ Counted /\ Awaited /\ OwnResultsIfAlone
  BY DEF IInv, Base
<1>2. PICK layer \in SUBSET left[p] : \E order \in Seq(layer) : SpawnedAs(p, layer, order)
  BY LayerSpawns
<1>2a. PICK order \in Seq(layer) : SpawnedAs(p, layer, order)
  BY <1>2
<1>2b. /\ Spawns(p, layer, order)
       /\ layer # {} /\ Once(order) /\ ToSet(order) = layer /\ Len(order) = Cardinality(layer)
       /\ order # <<>> /\ Head(order) = order[1] /\ order[1] \in layer
       /\ ~Cyclic(deps[p], left[p] \ layer)
       /\ pc[p] = "layered" /\ ~Stopped(p)
  BY <1>2a DEF SpawnedAs
<1>3. /\ left[p] \in SUBSET Goals /\ layer \subseteq Goals /\ order \in Seq(Goals)
      /\ worker \in Workers /\ NoAgent \notin Agents
  BY <1>1, <1>2, <1>2a, SeqMonotonic, SubAgentsConstants DEF TypeOK
<1>4. UNCHANGED <<worker, strategy, deps, results, round, sem, cancelled, permits, faults>>
  BY <1>2b DEF Spawns
<1>5. /\ agent \in [Agents -> {"none", "created", "waiting", "running"} \union Outcomes]
      /\ agent' \in [Agents -> {"none", "created", "waiting", "running"} \union Outcomes]
      /\ \A b \in Agents : IF b \in {p} \X layer THEN agent'[b] = "created" ELSE agent'[b] = agent[b]
  BY <1>1, <1>2b DEF Spawns, TypeOK
<1>6. /\ Stands(p) /\ handles[p] = <<>> /\ Spawned(p) \intersect left[p] = {}
      /\ DOMAIN deps[p] \ left[p] = Spawned(p) /\ left[p] \subseteq DOMAIN deps[p]
  BY <1>1, <1>2b DEF Standing, Stands
<1>7. \A g \in layer : agent[<<p, g>>] = "none"
  BY <1>3, <1>6 DEF Spawned
<1>8. /\ Spawned(p)' = Spawned(p) \union layer
      /\ \A q \in Parents \ {p} : Spawned(q)' = Spawned(q)
      /\ \A b \in Agents : agent[b] # "none" => agent'[b] = agent[b]
  BY <1>3, <1>5, <1>7 DEF Spawned, Agents
<1>9. /\ \A q : Alone(q)' = Alone(q) /\ Collected(q)' = Collected(q) /\ Stopped(q)' = Stopped(q)
      /\ \A q, g : AgentId(q, g)' = AgentId(q, g)
      /\ \A q, s : Reported(q, s)' = Reported(q, s)
  BY <1>4 DEF Collected, Alone, AgentId, Stopped, Reported
<1>10. \A g \in Goals, q \in Parents : AgentId(q, g) \in AgentIds /\ <<q, g>> \in Agents
                                     /\ AgentId(q, g)[1] = worker[q] /\ AgentId(q, g)[2] = g
  BY <1>3, IdTypes
<1>11. /\ pc' = [pc EXCEPT ![p] = IF strategy[p] # "unknown" THEN "collecting" ELSE "failed"]
       /\ left' = [left EXCEPT ![p] = @ \ layer]
       /\ handles' = [handles EXCEPT ![p] = IF strategy[p] # "unknown" THEN order ELSE <<>>]
       /\ awaits' = [awaits EXCEPT ![p] = IF strategy[p] # "unknown" THEN <<p, order[1]>> ELSE NoAgent]
       /\ current' = <<p, order[1]>>
       /\ tasks' = [i \in AgentIds |->
                      IF \E g \in layer : i = AgentId(p, g) THEN <<p, i[2]>> ELSE tasks[i]]
  BY <1>2b DEF Spawns
<1>12. <<p, order[1]>> \in Agents /\ order[1] \in layer
  BY <1>2b, <1>3 DEF Agents
<1>13. /\ pc \in [Parents -> {"idle", "layered", "collecting", "done", "failed"}]
       /\ handles \in [Parents -> Seq(Goals)] /\ awaits \in [Parents -> Agents \union {NoAgent}]
       /\ left \in [Parents -> SUBSET Goals] /\ tasks \in [AgentIds -> Agents \union {NoAgent}]
       /\ <<>> \in Seq(Goals)
  BY <1>1, EmptySeq DEF TypeOK
<1>14. /\ tasks' \in [AgentIds -> Agents \union {NoAgent}]
       /\ \A i \in AgentIds : IF \E g \in layer : i = AgentId(p, g)
                              THEN tasks'[i] = <<p, i[2]>> /\ i[1] = worker[p] /\ i[2] \in layer
                              ELSE tasks'[i] = tasks[i]
  <2>1. \A i \in AgentIds : (\E g \in layer : i = AgentId(p, g)) =>
          <<p, i[2]>> \in Agents /\ i[1] = worker[p] /\ i[2] \in layer
    <3>. SUFFICES ASSUME NEW i \in AgentIds, NEW g \in layer, i = AgentId(p, g)
                  PROVE  <<p, i[2]>> \in Agents /\ i[1] = worker[p] /\ i[2] \in layer
      OBVIOUS
    <3>1. i[1] = worker[p] /\ i[2] = g /\ g \in Goals /\ <<p, g>> \in Agents
      BY <1>3, <1>10
    <3>. QED
      BY <3>1
  <2>. QED
    BY <1>11, <1>13, <2>1
<1>15. TypeOK'
  <2>1. handles' \in [Parents -> Seq(Goals)]
    BY <1>3, <1>11, <1>13
  <2>2. awaits' \in [Parents -> Agents \union {NoAgent}] /\ current' \in Agents
    BY <1>11, <1>12, <1>13
  <2>3. /\ pc' \in [Parents -> {"idle", "layered", "collecting", "done", "failed"}]
        /\ left' \in [Parents -> SUBSET Goals]
    BY <1>11, <1>13
  <2>. QED
    BY <1>1, <1>4, <1>5, <1>14, <2>1, <2>2, <2>3 DEF TypeOK
<1>16. \A q \in Parents \ {p} : /\ pc'[q] = pc[q] /\ left'[q] = left[q]
                                /\ handles'[q] = handles[q] /\ awaits'[q] = awaits[q]
  BY <1>11, <1>13
<1>17. /\ left'[p] = left[p] \ layer
       /\ strategy[p] # "unknown" => pc'[p] = "collecting" /\ handles'[p] = order /\ awaits'[p] = <<p, order[1]>>
       /\ strategy[p] = "unknown" => pc'[p] = "failed" /\ handles'[p] = <<>> /\ awaits'[p] = NoAgent
  BY <1>11, <1>13
<1>18. Standing'
  <2>1. ASSUME NEW q \in Parents \ {p} PROVE Stands(q)'
    BY <1>1, <1>4, <1>8, <1>16 DEF Standing, Stands
  <2>2. Stands(p)'
    <3>1. /\ ~Cyclic(deps[p], left'[p]) /\ left'[p] \subseteq DOMAIN deps[p]
          /\ Spawned(p)' = DOMAIN deps[p] \ left'[p]
      BY <1>2, <1>2b, <1>6, <1>8, <1>17
    <3>2. ToSet(<<>>) = {} /\ Once(<<>>)
      BY DEF ToSet, Once
    <3>3. p \notin Tools => strategy[p] = "best_effort"
      BY <1>6 DEF Stands
    <3>4. CASE strategy[p] # "unknown"
      BY <1>2b, <1>4, <1>8, <1>17, <3>1, <3>3, <3>4 DEF Stands
    <3>5. CASE strategy[p] = "unknown"
      BY <1>4, <1>17, <3>1, <3>2, <3>3, <3>5 DEF Stands
    <3>. QED
      BY <3>4, <3>5
  <2>. QED
    BY <2>1, <2>2 DEF Standing
<1>19. Registered'
  <2>1. ASSUME NEW i \in AgentIds, tasks'[i] # NoAgent
        PROVE  \E q \in Parents : tasks'[i] = <<q, i[2]>> /\ worker[q] = i[1] /\ i[2] \in Spawned(q)'
    <3>1. CASE \E g \in layer : i = AgentId(p, g)
      BY <1>8, <1>14, <3>1
    <3>2. CASE ~ \E g \in layer : i = AgentId(p, g)
      BY <1>1, <1>8, <1>14, <2>1, <3>2 DEF Registered
    <3>. QED
      BY <3>1, <3>2
  <2>2. ASSUME NEW q \in Parents, awaits'[q] # NoAgent PROVE agent'[awaits'[q]] # "none"
    <3>1. CASE q = p
      BY <1>5, <1>12, <1>17, <2>2, <3>1
    <3>2. CASE q # p
      BY <1>1, <1>8, <1>13, <1>16, <2>2, <3>2 DEF Registered
    <3>. QED
      BY <3>1, <3>2
  <2>. QED
    BY <1>4, <2>1, <2>2 DEF Registered
<1>20. \A b \in Agents : b \in cancelled \/ agent[b] = "running" => agent[b] # "none"
  BY <1>1 DEF Gated
<1>21. Gated'
  <2>1. current' # NoAgent
    BY <1>3, <1>11, <1>12
  <2>2. cancelled \subseteq Agents
    BY <1>1 DEF TypeOK
  <2>. QED
    BY <1>1, <1>4, <1>5, <1>8, <1>20, <2>1, <2>2 DEF Gated
<1>22. PermitsCounted'
  <2>1. \A s \in Agents : RunningOn(s)' = RunningOn(s)
    BY <1>4, <1>5, <1>8 DEF RunningOn
  <2>. QED
    BY <1>1, <1>4, <2>1 DEF PermitsCounted, RunningOn
<1>23. \A b \in Agents : Over(b) => Over(b)' /\ agent'[b] = agent[b]
  BY <1>8 DEF Over, Outcomes
<1>24. ASSUME NEW q \in Parents \ {p}, Alone(q), NEW g \in Goals
       PROVE  tasks'[AgentId(q, g)] = tasks[AgentId(q, g)]
  <2>1. worker[p] # worker[q]
    BY <1>24 DEF Alone
  <2>2. ~ \E h \in layer : AgentId(q, g) = AgentId(p, h)
    <3>1. AgentId(q, g)[1] = worker[q] /\ \A h \in layer : AgentId(p, h)[1] = worker[p]
      BY <1>3, <1>10
    <3>. QED
      BY <2>1, <3>1
  <2>. QED
    BY <1>10, <1>14, <2>2
<1>25. \A q \in Parents : ToSet(handles[q]) \subseteq Spawned(q) /\ Spawned(q) \subseteq Goals
  BY <1>1 DEF Standing, Stands, Spawned
<1>26. Owned'
  <2>. SUFFICES ASSUME NEW q \in Parents, Alone(q)
                PROVE  /\ \A g \in ToSet(handles'[q]) : tasks'[AgentId(q, g)] = <<q, g>>
                       /\ pc'[q] = "collecting" => awaits'[q] = <<q, Head(handles'[q])>>
                       /\ \A g \in Spawned(q)' :
                            \/ Over(<<q, g>>)'
                            \/ g \in ToSet(handles'[q])
                            \/ <<q, g>> \in cancelled /\ Stopped(q)
                            \/ strategy[q] = "unknown" /\ pc'[q] = "failed"
    BY <1>4, <1>9 DEF Owned, ToSet
  <2>0. /\ \A g \in ToSet(handles[q]) : tasks[AgentId(q, g)] = <<q, g>>
        /\ pc[q] = "collecting" => awaits[q] = <<q, Head(handles[q])>>
        /\ \A g \in Spawned(q) :
             \/ Over(<<q, g>>)
             \/ g \in ToSet(handles[q])
             \/ <<q, g>> \in cancelled /\ Stopped(q)
             \/ strategy[q] = "unknown" /\ pc[q] = "failed"
    BY <1>1 DEF Owned
  <2>1. CASE q = p
    <3>1. ASSUME NEW g \in layer PROVE tasks'[AgentId(p, g)] = <<p, g>>
      <4>1. AgentId(p, g) \in AgentIds /\ AgentId(p, g)[2] = g
        BY <1>3, <1>10
      <4>2. tasks'[AgentId(p, g)] = <<p, AgentId(p, g)[2]>>
        BY <1>14, <4>1
      <4>. QED
        BY <4>1, <4>2
    <3>2. \A g \in Spawned(p) : Over(<<p, g>>)
      BY <2>0, <2>1, <1>2b, <1>6 DEF ToSet
    <3>3. \A g \in Spawned(p) : Over(<<p, g>>)'
      BY <1>10, <1>23, <1>25, <3>2
    <3>4. ToSet(<<>>) = {}
      BY DEF ToSet
    <3>5. CASE strategy[p] # "unknown"
      BY <1>2b, <1>8, <1>17, <2>1, <3>1, <3>3, <3>5
    <3>6. CASE strategy[p] = "unknown"
      BY <1>17, <2>1, <3>4, <3>6
    <3>. QED
      BY <3>5, <3>6
  <2>2. CASE q # p
    <3>1. \A g \in ToSet(handles[q]) : tasks'[AgentId(q, g)] = tasks[AgentId(q, g)]
      BY <1>24, <1>25, <2>2
    <3>2. \A g \in Spawned(q) : <<q, g>> \in Agents
      BY <1>10, <1>25
    <3>. QED
      BY <1>8, <1>16, <1>23, <2>0, <2>2, <3>1, <3>2
  <2>. QED
    BY <2>1, <2>2
<1>27. Counted'
  <2>. SUFFICES ASSUME NEW q \in Parents, strategy[q] # "unknown"
                PROVE  /\ Collected(q) \union ToSet(handles'[q]) = Spawned(q)'
                       /\ Len(results[q]) + Len(handles'[q]) = Cardinality(Spawned(q)')
    BY <1>4, <1>9 DEF Counted, ToSet
  <2>0. /\ Collected(q) \union ToSet(handles[q]) = Spawned(q)
        /\ Len(results[q]) + Len(handles[q]) = Cardinality(Spawned(q))
    BY <1>1 DEF Counted
  <2>1. CASE q = p
    <3>1. /\ IsFiniteSet(Spawned(p)) /\ IsFiniteSet(layer)
          /\ Cardinality(Spawned(p)) \in Nat /\ Cardinality(layer) \in Nat
      BY <1>3, <1>25, GoalsFinite
    <3>2. Spawned(p) \intersect layer = {}
      BY <1>2, <1>6
    <3>3. Cardinality(Spawned(p) \union layer) = Cardinality(Spawned(p)) + Cardinality(layer)
      <4>1. Cardinality(Spawned(p) \intersect layer) = 0
        BY <3>2, FS_EmptySet
      <4>2. Cardinality(Spawned(p) \union layer)
              = Cardinality(Spawned(p)) + Cardinality(layer) - Cardinality(Spawned(p) \intersect layer)
        BY <3>1, FS_Union
      <4>. QED
        BY <3>1, <4>1, <4>2
    <3>4. Len(handles[p]) = 0 /\ ToSet(handles[p]) = {}
      BY <1>6, EmptySeq DEF ToSet
    <3>5. Len(results[p]) = Cardinality(Spawned(p)) /\ Collected(p) = Spawned(p)
      <4>1. Len(results[p]) \in Nat
        BY <1>1, LenProperties DEF TypeOK
      <4>. QED
        BY <2>0, <2>1, <3>1, <3>4, <4>1
    <3>6. handles'[p] = order /\ ToSet(order) = layer /\ Len(order) = Cardinality(layer)
      BY <1>2b, <1>17, <2>1
    <3>. QED
      BY <1>8, <2>1, <3>1, <3>3, <3>5, <3>6
  <2>2. CASE q # p
    BY <1>8, <1>16, <2>0, <2>2
  <2>. QED
    BY <2>1, <2>2
<1>28. Awaited'
  <2>. SUFFICES ASSUME NEW i \in AgentIds, tasks'[i] # NoAgent, Alone(tasks'[i][1])
                PROVE  \/ strategy[tasks'[i][1]] \in {"fail_fast", "unknown"}
                       \/ i[2] \in ToSet(handles'[tasks'[i][1]])
    BY <1>4, <1>9 DEF Awaited, ToSet
  <2>1. CASE \E g \in layer : i = AgentId(p, g)
    <3>1. tasks'[i][1] = p /\ i[2] \in layer
      BY <1>14, <2>1
    <3>. QED
      BY <1>2b, <1>17, <3>1
  <2>2. CASE ~ \E g \in layer : i = AgentId(p, g)
    <3>1. tasks'[i] = tasks[i]
      BY <1>14, <2>2
    <3>2. PICK q \in Parents : tasks[i] = <<q, i[2]>>
      BY <1>1, <3>1 DEF Registered
    <3>3. tasks[i][1] = q
      BY <3>2
    <3>4. strategy[q] \in {"fail_fast", "unknown"} \/ i[2] \in ToSet(handles[q])
      BY <1>1, <3>1, <3>3 DEF Awaited
    <3>5. q = p => i[2] \notin ToSet(handles[q])
      BY <1>6 DEF ToSet
    <3>. QED
      BY <1>16, <3>1, <3>3, <3>4, <3>5
  <2>. QED
    BY <2>1, <2>2
<1>29. OwnResultsIfAlone'
  <2>. SUFFICES ASSUME NEW q \in Parents, Alone(q), NEW r \in ToSet(results[q])
                PROVE  \/ r.status = "cancelled"
                       \/ Over(<<q, r.goal>>)' /\ r.status = Reported(q, agent'[<<q, r.goal>>])
    BY <1>4, <1>9 DEF OwnResultsIfAlone, GetsOwnResults, Reported
  <2>1. \/ r.status = "cancelled"
        \/ Over(<<q, r.goal>>) /\ r.status = Reported(q, agent[<<q, r.goal>>])
    BY <1>1 DEF OwnResultsIfAlone, GetsOwnResults
  <2>2. <<q, r.goal>> \in Agents
    BY <1>1, <1>10, ResultTypes
  <2>. QED
    BY <1>23, <2>1, <2>2
<1>. QED
  BY <1>15, <1>18, <1>19, <1>21, <1>22, <1>26, <1>27, <1>28, <1>29 DEF IInv, Base

\* Before an agent of a layer is spawned the goals it depends on have ended.
LEMMA StartsLayerInOrder ==
    ASSUME IInv, NEW p \in Parents, StartsLayer(p), NEW q \in Parents, Alone(q), NEW g \in Goals,
           agent[<<q, g>>] = "none", agent'[<<q, g>>] # "none",
           NEW d \in deps[q][g] \intersect DOMAIN deps[q]
    PROVE  Over(<<q, d>>)
<1>1. TypeOK /\ Standing /\ Owned
  BY DEF IInv, Base
<1>2. PICK layer \in SUBSET left[p] : \E order \in Seq(layer) : SpawnedAs(p, layer, order)
  BY LayerSpawns
<1>3. /\ \E order \in Seq(layer) : Spawns(p, layer, order)
      /\ \A h \in layer : deps[p][h] \intersect left[p] = {}
      /\ pc[p] = "layered" /\ ~Stopped(p)
  BY <1>2 DEF SpawnedAs
<1>4. q = p /\ g \in layer
  BY <1>3 DEF Spawns, Agents
<1>5. d \in DOMAIN deps[p] \ left[p]
  BY <1>3, <1>4
<1>6. d \in Spawned(p) /\ handles[p] = <<>>
  BY <1>1, <1>3, <1>5 DEF Standing, Stands
<1>. QED
  BY <1>1, <1>3, <1>4, <1>6 DEF Owned, ToSet

-----------------------------------------------------------------------------
(* A result is collected.                                                  *)

LEMMA ResultParts ==
    \A g \in Goals, s \in Outcomes :
        /\ Result(g, s) \in [goal : Goals, status : Outcomes]
        /\ Result(g, s).goal = g /\ Result(g, s).status = s
BY DEF Result

LEMMA LostParts ==
    ASSUME NEW rest \in Seq(Goals)
    PROVE  /\ Lost(rest) \in Seq([goal : Goals, status : Outcomes])
           /\ Len(Lost(rest)) = Len(rest) /\ Len(rest) \in Nat
           /\ ToSet(Lost(rest)) = {Result(g, "cancelled") : g \in ToSet(rest)}
<1> DEFINE R == [goal : Goals, status : Outcomes]
           L == Lost(rest)
<1>1. Len(rest) \in Nat /\ DOMAIN rest = 1..Len(rest) /\ \A i \in 1..Len(rest) : rest[i] \in Goals
  BY LenProperties
<1>2. \A i \in 1..Len(rest) : Result(rest[i], "cancelled") \in R
  BY <1>1, ResultParts DEF Outcomes
<1>. HIDE DEF R
<1>3. L = [i \in 1..Len(rest) |-> Result(rest[i], "cancelled")]
  BY DEF Lost
<1>. HIDE DEF L
<1>4. L \in [1..Len(rest) -> R]
  BY <1>2, <1>3
<1>5. L \in Seq(R) /\ Len(L) = Len(rest)
  BY <1>1, <1>4
<1>6. ToSet(L) = {Result(g, "cancelled") : g \in ToSet(rest)}
  BY <1>1, <1>3 DEF ToSet
<1>. QED
  BY <1>1, <1>5, <1>6 DEF R, L

Fails(p, status) == strategy[p] = "fail_fast" /\ status \in {"failure", "timeout"}

\* What one collect leaves, with h its goal and rest the goals after it.
Collecting(p, status, registry) ==
    LET h == Head(handles[p])
        rest == Tail(handles[p])
        fail == Fails(p, status)
        ends == fail \/ rest = <<>>
    IN
    /\ h \in Goals /\ rest \in Seq(Goals) /\ Once(rest) /\ h \notin ToSet(rest)
    /\ ToSet(handles[p]) = {h} \union ToSet(rest)
    /\ Len(handles[p]) = Len(rest) + 1 /\ Len(rest) \in Nat
    /\ rest # <<>> => Head(rest) \in ToSet(rest)
    /\ results' \in [Parents -> Seq([goal : Goals, status : Outcomes])]
    /\ \A q \in Parents \ {p} : /\ results'[q] = results[q] /\ handles'[q] = handles[q]
                                /\ awaits'[q] = awaits[q] /\ pc'[q] = pc[q]
    /\ Len(results[p]) \in Nat
    /\ Len(results'[p]) = IF fail THEN Len(results[p]) + 1 + Len(rest) ELSE Len(results[p]) + 1
    /\ ToSet(results'[p]) = ToSet(results[p]) \union {Result(h, Reported(p, status))}
                              \union IF fail THEN {Result(g, "cancelled") : g \in ToSet(rest)} ELSE {}
    /\ cancelled' = IF fail THEN Cancel(p, rest) ELSE cancelled
    /\ handles'[p] = IF ends THEN <<>> ELSE rest
    /\ awaits'[p] = IF ends THEN NoAgent ELSE registry[AgentId(p, Head(rest))]
    /\ pc'[p] = IF ends THEN "layered" ELSE "collecting"
    /\ handles' \in [Parents -> Seq(Goals)]
    /\ awaits' \in [Parents -> Agents \union {NoAgent}]
    /\ pc' \in [Parents -> {"idle", "layered", "collecting", "done", "failed"}]
    /\ tasks' = registry
    /\ UNCHANGED <<worker, strategy, deps, left, round, agent, sem, permits, current>>

LEMMA CollectsParts ==
    ASSUME TypeOK, NEW p \in Parents, Stands(p), pc[p] = "collecting",
           NEW status \in Outcomes,
           NEW registry \in [AgentIds -> Agents \union {NoAgent}],
           Collects(p, status, registry)
    PROVE  Collecting(p, status, registry)
<1> DEFINE R == [goal : Goals, status : Outcomes]
           h == Head(handles[p])
           rest == Tail(handles[p])
           fail == Fails(p, status)
           res == Result(h, Reported(p, status))
           got == Append(results[p], res)
<1>1. /\ handles \in [Parents -> Seq(Goals)] /\ results \in [Parents -> Seq(R)]
      /\ awaits \in [Parents -> Agents \union {NoAgent}] /\ worker \in Workers
      /\ pc \in [Parents -> {"idle", "layered", "collecting", "done", "failed"}]
  BY DEF TypeOK
<1>2. /\ handles[p] \in Seq(Goals) /\ handles[p] # <<>> /\ Once(handles[p])
  BY <1>1 DEF Stands
<1>3. /\ h \in Goals /\ rest \in Seq(Goals) /\ Once(rest) /\ h \notin ToSet(rest)
      /\ ToSet(handles[p]) = {h} \union ToSet(rest)
      /\ Len(handles[p]) = Len(rest) + 1 /\ Len(rest) \in Nat
      /\ rest # <<>> => Head(rest) \in ToSet(rest)
  <2>1. /\ Len(rest) = Len(handles[p]) - 1 /\ Len(handles[p]) \in Nat \ {0}
    BY <1>2, Parts
  <2>2. /\ h \in Goals /\ rest \in Seq(Goals)
        /\ ToSet(handles[p]) = {h} \union ToSet(rest)
        /\ rest # <<>> => Head(rest) \in ToSet(rest)
    BY <1>2, Parts
  <2>3. Once(rest) /\ h \notin ToSet(rest)
    BY <1>2, PartsOnce
  <2>. QED
    BY <2>1, <2>2, <2>3
<1>4. /\ Len(results[p]) \in Nat /\ got \in Seq(R) /\ Len(got) = Len(results[p]) + 1
      /\ ToSet(got) = ToSet(results[p]) \union {res}
  <2>1. res \in R
    BY <1>3, ResultParts DEF Reported, Outcomes
  <2>. HIDE DEF R, res
  <2>2. results[p] \in Seq(R)
    BY <1>1
  <2>. QED
    BY <2>1, <2>2, AppendParts
<1>5. /\ Lost(rest) \in Seq(R) /\ Len(Lost(rest)) = Len(rest)
      /\ ToSet(Lost(rest)) = {Result(g, "cancelled") : g \in ToSet(rest)}
  BY <1>3, LostParts
<1>. HIDE DEF R, res, got
<1>6. /\ got \o Lost(rest) \in Seq(R) /\ Len(got \o Lost(rest)) = Len(got) + Len(rest)
      /\ ToSet(got \o Lost(rest)) = ToSet(got) \union {Result(g, "cancelled") : g \in ToSet(rest)}
  <2> DEFINE lost == Lost(rest)
  <2>1. lost \in Seq(R) /\ got \in Seq(R)
    BY <1>4, <1>5
  <2>. HIDE DEF lost
  <2>2. /\ got \o lost \in Seq(R) /\ Len(got \o lost) = Len(got) + Len(lost)
        /\ ToSet(got \o lost) = ToSet(got) \union ToSet(lost)
    BY <2>1, ConcatParts
  <2>. QED
    BY <1>5, <2>2 DEF lost
<1>7. /\ results' = [results EXCEPT ![p] = IF fail THEN got \o Lost(rest) ELSE got]
      /\ cancelled' = IF fail THEN Cancel(p, rest) ELSE cancelled
      /\ handles' = [handles EXCEPT ![p] = IF fail \/ rest = <<>> THEN <<>> ELSE rest]
      /\ awaits' = [awaits EXCEPT ![p] = IF fail \/ rest = <<>> THEN NoAgent
                                         ELSE registry[AgentId(p, Head(rest))]]
      /\ pc' = [pc EXCEPT ![p] = IF fail \/ rest = <<>> THEN "layered" ELSE "collecting"]
      /\ tasks' = registry
      /\ UNCHANGED <<worker, strategy, deps, left, round, agent, sem, permits, current>>
  BY DEF Collects, got, res, Fails
<1>. HIDE DEF fail, rest, h
<1>8. /\ results' \in [Parents -> Seq(R)]
      /\ results'[p] = IF fail THEN got \o Lost(rest) ELSE got
      /\ \A q \in Parents \ {p} : results'[q] = results[q]
  BY <1>1, <1>4, <1>6, <1>7
<1>9. ToSet(rest) \subseteq Goals
  BY <1>3, ElementTypes
<1>10. rest # <<>> => registry[AgentId(p, Head(rest))] \in Agents \union {NoAgent}
  BY <1>1, <1>3, <1>9, IdTypes
<1>11. /\ awaits' \in [Parents -> Agents \union {NoAgent}]
       /\ awaits'[p] = IF fail \/ rest = <<>> THEN NoAgent ELSE registry[AgentId(p, Head(rest))]
       /\ \A q \in Parents \ {p} : awaits'[q] = awaits[q]
  <2>1. CASE fail \/ rest = <<>>
    <3>1. awaits' = [awaits EXCEPT ![p] = NoAgent]
      BY <1>7, <2>1
    <3>. QED
      BY <1>1, <2>1, <3>1
  <2>2. CASE ~(fail \/ rest = <<>>)
    BY <1>1, <1>7, <1>10, <2>2
  <2>. QED
    BY <2>1, <2>2
<1>12. /\ handles' \in [Parents -> Seq(Goals)]
       /\ handles'[p] = IF fail \/ rest = <<>> THEN <<>> ELSE rest
       /\ \A q \in Parents \ {p} : handles'[q] = handles[q]
  <2>1. <<>> \in Seq(Goals)
    BY EmptySeq
  <2>. QED
    BY <1>1, <1>3, <1>7, <2>1
<1>13. /\ pc' \in [Parents -> {"idle", "layered", "collecting", "done", "failed"}]
       /\ pc'[p] = IF fail \/ rest = <<>> THEN "layered" ELSE "collecting"
       /\ \A q \in Parents \ {p} : pc'[q] = pc[q]
  BY <1>1, <1>7
<1>14. Len(results'[p]) = IF fail THEN Len(results[p]) + 1 + Len(rest) ELSE Len(results[p]) + 1
  <2>1. CASE fail
    <3>1. Len(results'[p]) = Len(got) + Len(rest)
      BY <1>6, <1>8, <2>1
    <3>. QED
      BY <1>4, <2>1, <3>1
  <2>2. CASE ~fail
    <3>1. Len(results'[p]) = Len(results[p]) + 1
      BY <1>4, <1>8, <2>2
    <3>. QED
      BY <1>4, <2>2, <3>1
  <2>. QED
    BY <2>1, <2>2
<1>15. ToSet(results'[p]) = ToSet(results[p]) \union {res}
                              \union IF fail THEN {Result(g, "cancelled") : g \in ToSet(rest)} ELSE {}
  <2>1. CASE fail
    BY <1>4, <1>6, <1>8, <2>1
  <2>2. CASE ~fail
    BY <1>4, <1>8, <2>2
  <2>. QED
    BY <2>1, <2>2
<1>. QED
  BY <1>3, <1>4, <1>7, <1>8, <1>11, <1>12, <1>13, <1>14, <1>15
  DEF Collecting, R, h, rest, fail, res

LEMMA CollectingKeeps ==
    ASSUME IInv, NEW p \in Parents, pc[p] = "collecting",
           NEW status \in Outcomes, NEW registry,
           Collecting(p, status, registry), faults' \in 0..MaxFaults[worker],
           registry = Cleaned(p) \/ (registry = tasks /\ ~Alone(p)),
           Alone(p) => /\ Over(<<p, Head(handles[p])>>)
                       /\ status = "cancelled" \/ status = agent[<<p, Head(handles[p])>>]
    PROVE  IInv'
<1> DEFINE h == Head(handles[p])
           rest == Tail(handles[p])
           fail == Fails(p, status)
           ends == fail \/ rest = <<>>
<1>1. /\ TypeOK /\ Standing /\ Registered /\ Gated
      /\ PermitsCounted /\ Owned /\ Counted /\ Awaited /\ OwnResultsIfAlone
  BY DEF IInv, Base
<1>2. /\ h \in Goals /\ rest \in Seq(Goals) /\ Once(rest) /\ h \notin ToSet(rest)
      /\ ToSet(handles[p]) = {h} \union ToSet(rest)
      /\ Len(handles[p]) = Len(rest) + 1 /\ Len(rest) \in Nat
      /\ rest # <<>> => Head(rest) \in ToSet(rest)
  BY DEF Collecting
<1>3. /\ results' \in [Parents -> Seq([goal : Goals, status : Outcomes])]
      /\ \A q \in Parents \ {p} : /\ results'[q] = results[q] /\ handles'[q] = handles[q]
                                  /\ awaits'[q] = awaits[q] /\ pc'[q] = pc[q]
      /\ Len(results[p]) \in Nat
      /\ Len(results'[p]) = IF fail THEN Len(results[p]) + 1 + Len(rest) ELSE Len(results[p]) + 1
      /\ ToSet(results'[p]) = ToSet(results[p]) \union {Result(h, Reported(p, status))}
                                \union IF fail THEN {Result(g, "cancelled") : g \in ToSet(rest)} ELSE {}
  BY DEF Collecting
<1>4. /\ cancelled' = IF fail THEN Cancel(p, rest) ELSE cancelled
      /\ handles'[p] = IF ends THEN <<>> ELSE rest
      /\ awaits'[p] = IF ends THEN NoAgent ELSE registry[AgentId(p, Head(rest))]
      /\ pc'[p] = IF ends THEN "layered" ELSE "collecting"
      /\ handles' \in [Parents -> Seq(Goals)]
      /\ awaits' \in [Parents -> Agents \union {NoAgent}]
      /\ pc' \in [Parents -> {"idle", "layered", "collecting", "done", "failed"}]
      /\ tasks' = registry
      /\ UNCHANGED <<worker, strategy, deps, left, round, agent, sem, permits, current>>
  BY DEF Collecting
<1>. HIDE DEF h, rest, fail, ends
<1>5. /\ ToSet(rest) \subseteq Goals /\ worker \in Workers /\ NoAgent \notin Agents
      /\ tasks \in [AgentIds -> Agents \union {NoAgent}] /\ cancelled \subseteq Agents
      /\ agent \in [Agents -> {"none", "created", "waiting", "running"} \union Outcomes]
  BY <1>1, <1>2, ElementTypes, SubAgentsConstants DEF TypeOK
<1>6. \A q \in Parents, g \in Goals : /\ AgentId(q, g) \in AgentIds /\ <<q, g>> \in Agents
                                      /\ AgentId(q, g)[1] = worker[q] /\ AgentId(q, g)[2] = g
  BY <1>5, IdTypes
<1>7. /\ tasks' \in [AgentIds -> Agents \union {NoAgent}]
      /\ \A i \in AgentIds : tasks'[i] = tasks[i] \/ (i = AgentId(p, h) /\ tasks'[i] = NoAgent)
      /\ Alone(p) => tasks'[AgentId(p, h)] = NoAgent
  <2>1. CASE registry = Cleaned(p)
    <3>1. tasks' = [tasks EXCEPT ![AgentId(p, h)] = NoAgent] /\ AgentId(p, h) \in AgentIds
      BY <1>2, <1>4, <1>6, <2>1 DEF Cleaned, h
    <3>. QED
      BY <1>5, <3>1
  <2>2. CASE registry = tasks /\ ~Alone(p)
    BY <1>4, <1>5, <2>2
  <2>. QED
    BY <2>1, <2>2
<1>8. /\ \A q : Spawned(q)' = Spawned(q) /\ Alone(q)' = Alone(q)
      /\ \A a : Over(a)' = Over(a)
      /\ \A q, g : AgentId(q, g)' = AgentId(q, g)
  BY <1>4 DEF Spawned, Alone, Over, AgentId
<1>9. cancelled \subseteq cancelled' /\ cancelled' \subseteq Agents
  BY <1>4, <1>5 DEF Cancel
<1>10. TypeOK'
  BY <1>1, <1>3, <1>4, <1>7, <1>9 DEF TypeOK
<1>11. ToSet(handles'[p]) = IF fail THEN {} ELSE ToSet(rest)
  <2>1. ToSet(<<>>) = {}
    BY DEF ToSet
  <2>. QED
    BY <1>4, <2>1 DEF ends
<1>12. Stands(p)
  BY <1>1 DEF Standing
<1>13. Standing'
  <2>1. ASSUME NEW q \in Parents \ {p} PROVE Stands(q)'
    BY <1>1, <1>3, <1>4, <1>8 DEF Standing, Stands
  <2>2. Stands(p)'
    <3>1. Once(<<>>)
      BY DEF Once
    <3>2. Once(handles'[p])
      BY <1>2, <1>4, <3>1
    <3>3. ToSet(handles'[p]) \subseteq Spawned(p)
      BY <1>2, <1>11, <1>12 DEF Stands
    <3>4. /\ pc'[p] = "collecting" <=> handles'[p] # <<>>
          /\ pc'[p] # "collecting" => awaits'[p] = NoAgent
          /\ pc'[p] \in {"layered", "collecting"}
      BY <1>4 DEF ends
    <3>. QED
      BY <1>4, <1>8, <1>12, <3>2, <3>3, <3>4 DEF Stands
  <2>. QED
    BY <2>1, <2>2 DEF Standing
<1>14. Registered'
  <2>1. ASSUME NEW i \in AgentIds, tasks'[i] # NoAgent
        PROVE  \E q \in Parents : tasks'[i] = <<q, i[2]>> /\ worker[q] = i[1] /\ i[2] \in Spawned(q)
    BY <1>1, <1>7, <2>1 DEF Registered
  <2>2. ASSUME NEW q \in Parents, awaits'[q] # NoAgent PROVE agent[awaits'[q]] # "none"
    <3>1. CASE q = p
      <4>1. /\ awaits'[p] = tasks'[AgentId(p, Head(rest))]
            /\ Head(rest) \in Goals /\ AgentId(p, Head(rest)) \in AgentIds
        BY <1>2, <1>4, <1>5, <1>6, <2>2, <3>1 DEF ends
      <4>2. PICK r \in Parents : /\ awaits'[p] = <<r, AgentId(p, Head(rest))[2]>>
                                 /\ AgentId(p, Head(rest))[2] \in Spawned(r)
        BY <2>1, <2>2, <3>1, <4>1
      <4>. QED
        BY <3>1, <4>2 DEF Spawned
    <3>2. CASE q # p
      BY <1>1, <1>3, <2>2, <3>2 DEF Registered
    <3>. QED
      BY <3>1, <3>2
  <2>. QED
    BY <1>4, <1>8, <2>1, <2>2 DEF Registered
<1>15. Gated'
  <2>1. ASSUME NEW a \in cancelled' PROVE agent[a] \in {"created", "waiting", "running"}
    <3>1. CASE a \in cancelled
      BY <1>1, <3>1 DEF Gated
    <3>2. CASE a \notin cancelled
      <4>1. PICK g \in ToSet(rest) : a \in Agents /\ ~Over(a) /\ tasks[AgentId(p, g)] = a
        BY <1>4, <2>1, <3>2 DEF Cancel
      <4>2. AgentId(p, g) \in AgentIds /\ a # NoAgent
        BY <1>5, <1>6, <4>1
      <4>3. PICK r \in Parents : a = <<r, AgentId(p, g)[2]>> /\ AgentId(p, g)[2] \in Spawned(r)
        BY <1>1, <4>1, <4>2 DEF Registered
      <4>4. agent[a] # "none"
        BY <4>3 DEF Spawned
      <4>. QED
        BY <1>5, <4>1, <4>4 DEF Over
    <3>. QED
      BY <3>1, <3>2
  <2>. QED
    BY <1>1, <1>4, <2>1 DEF Gated
<1>16. PermitsCounted'
  BY <1>1, <1>4 DEF PermitsCounted
<1>17. \A q \in Parents : Stopped(q) => Stopped(q)'
  <2>. SUFFICES ASSUME NEW q \in Parents, Stopped(q) PROVE Stopped(q)'
    OBVIOUS
  <2>1. ToSet(results[q]) \subseteq ToSet(results'[q])
    BY <1>3
  <2>2. \E r \in ToSet(results'[q]) : r.status # "success"
    BY <2>1 DEF Stopped
  <2>. QED
    BY <1>4, <2>2 DEF Stopped, ToSet
<1>18. fail => Stopped(p)'
  <2>. SUFFICES ASSUME fail PROVE Stopped(p)'
    OBVIOUS
  <2>1. strategy[p] = "fail_fast" /\ status \in {"failure", "timeout"}
    BY DEF fail, Fails
  <2>2. p \in Tools /\ Reported(p, status) = status
    BY <1>12, <2>1 DEF Stands, Reported
  <2>3. Result(h, status) \in ToSet(results'[p]) /\ Result(h, status).status = status
    BY <1>2, <1>3, <2>2, ResultParts
  <2>4. \E r \in ToSet(results'[p]) : r.status # "success"
    BY <2>1, <2>3
  <2>. QED
    BY <1>4, <2>1, <2>2, <2>4 DEF Stopped, ToSet
<1>19. ASSUME NEW q \in Parents, NEW g \in Goals, Alone(q), q # p \/ g # h
       PROVE  tasks'[AgentId(q, g)] = tasks[AgentId(q, g)]
  <2>0. /\ AgentId(q, g)[1] = worker[q] /\ AgentId(q, g)[2] = g
        /\ AgentId(p, h)[1] = worker[p] /\ AgentId(p, h)[2] = h
    BY <1>2, <1>6
  <2>1. AgentId(q, g) # AgentId(p, h)
    BY <1>19, <2>0 DEF Alone
  <2>. QED
    BY <1>6, <1>7, <2>1
<1>20. Owned'
  <2>. SUFFICES ASSUME NEW q \in Parents, Alone(q)
                PROVE  /\ \A g \in ToSet(handles'[q]) : tasks'[AgentId(q, g)] = <<q, g>>
                       /\ pc'[q] = "collecting" => awaits'[q] = <<q, Head(handles'[q])>>
                       /\ \A g \in Spawned(q) :
                            \/ Over(<<q, g>>)
                            \/ g \in ToSet(handles'[q])
                            \/ <<q, g>> \in cancelled' /\ Stopped(q)'
                            \/ strategy[q] = "unknown" /\ pc'[q] = "failed"
    BY <1>4, <1>8 DEF Owned, ToSet
  <2>0. /\ \A g \in ToSet(handles[q]) : tasks[AgentId(q, g)] = <<q, g>>
        /\ pc[q] = "collecting" => awaits[q] = <<q, Head(handles[q])>>
        /\ \A g \in Spawned(q) :
             \/ Over(<<q, g>>)
             \/ g \in ToSet(handles[q])
             \/ <<q, g>> \in cancelled /\ Stopped(q)
             \/ strategy[q] = "unknown" /\ pc[q] = "failed"
    BY <1>1 DEF Owned
  <2>1. CASE q # p
    <3>1. \A g \in ToSet(handles[q]) : tasks'[AgentId(q, g)] = <<q, g>>
      <4>1. ToSet(handles[q]) \subseteq Goals
        BY <1>1, ElementTypes DEF TypeOK
      <4>. QED
        BY <1>19, <2>0, <2>1, <4>1
    <3>. QED
      BY <1>3, <1>9, <1>17, <2>0, <2>1, <3>1
  <2>2. CASE q = p
    <3>1. \A g \in ToSet(rest) : tasks'[AgentId(p, g)] = <<p, g>> /\ tasks[AgentId(p, g)] = <<p, g>>
      BY <1>2, <1>5, <1>19, <2>0, <2>2
    <3>2. ~ends => awaits'[p] = <<p, Head(rest)>> /\ handles'[p] = rest
      BY <1>2, <1>4, <3>1 DEF ends
    <3>3. ends => pc'[p] # "collecting"
      BY <1>4
    <3>4. ASSUME NEW g \in Spawned(p)
          PROVE  \/ Over(<<p, g>>)
                 \/ g \in ToSet(handles'[p])
                 \/ <<p, g>> \in cancelled' /\ Stopped(p)'
                 \/ strategy[p] = "unknown" /\ pc'[p] = "failed"
      <4>1. CASE g = h
        BY <2>2, <4>1 DEF h
      <4>2. CASE g \in ToSet(rest) /\ fail
        <5>1. Over(<<p, g>>) \/ <<p, g>> \in cancelled'
          BY <1>4, <1>5, <1>6, <3>1, <4>2 DEF Cancel
        <5>. QED
          BY <1>18, <4>2, <5>1
      <4>3. CASE g \in ToSet(rest) /\ ~fail
        BY <1>11, <4>3
      <4>4. CASE g \notin ToSet(handles[p])
        <5>1. strategy[p] # "unknown"
          BY <1>12 DEF Stands
        <5>. QED
          BY <1>9, <1>17, <2>0, <2>2, <4>4, <5>1
      <4>. QED
        BY <1>2, <4>1, <4>2, <4>3, <4>4
    <3>. QED
      BY <1>11, <2>2, <3>1, <3>2, <3>3, <3>4
  <2>. QED
    BY <2>1, <2>2
<1>21. Collected(p)' = Collected(p) \union {h} \union IF fail THEN ToSet(rest) ELSE {}
  <2>1. Reported(p, status) \in Outcomes /\ "cancelled" \in Outcomes
    BY DEF Reported, Outcomes
  <2>2. Result(h, Reported(p, status)).goal = h /\ \A g \in ToSet(rest) : Result(g, "cancelled").goal = g
    BY <1>2, <1>5, <2>1, ResultParts
  <2>3. Collected(p)' = {r.goal : r \in ToSet(results'[p])}
    BY DEF Collected, ToSet
  <2>4. CASE fail
    BY <1>3, <2>2, <2>3, <2>4 DEF Collected
  <2>5. CASE ~fail
    BY <1>3, <2>2, <2>3, <2>5 DEF Collected
  <2>. QED
    BY <2>4, <2>5
<1>22. Counted'
  <2>. SUFFICES ASSUME NEW q \in Parents, strategy[q] # "unknown"
                PROVE  /\ Collected(q)' \union ToSet(handles'[q]) = Spawned(q)
                       /\ Len(results'[q]) + Len(handles'[q]) = Cardinality(Spawned(q))
    BY <1>4, <1>8 DEF Counted, ToSet
  <2>0. /\ Collected(q) \union ToSet(handles[q]) = Spawned(q)
        /\ Len(results[q]) + Len(handles[q]) = Cardinality(Spawned(q))
    BY <1>1 DEF Counted
  <2>1. CASE q # p
    <3>1. results'[q] = results[q] /\ handles'[q] = handles[q]
      BY <1>3, <2>1
    <3>2. Collected(q)' = Collected(q)
      BY <3>1 DEF Collected, ToSet
    <3>. QED
      BY <2>0, <3>1, <3>2
  <2>2. CASE q = p
    <3>1. Len(handles'[p]) = IF fail THEN 0 ELSE Len(rest)
      <4>1. Len(<<>>) = 0
        BY EmptySeq
      <4>. QED
        BY <1>4, <4>1 DEF ends
    <3>2. Len(results'[p]) + Len(handles'[p]) = Len(results[p]) + Len(handles[p])
      <4> DEFINE was == Len(results[p])
                 more == Len(rest)
                 held == Len(handles[p])
                 got == Len(results'[p])
                 holds == Len(handles'[p])
      <4>1. was \in Nat /\ more \in Nat /\ held = more + 1
        BY <1>2, <1>3
      <4>2. \/ got = was + 1 + more /\ holds = 0
            \/ got = was + 1 /\ holds = more
        BY <1>3, <3>1
      <4>. HIDE DEF was, more, held, got, holds
      <4>3. got + holds = was + held
        BY <4>1, <4>2
      <4>. QED
        BY <4>3 DEF was, held, got, holds
    <3>3. Collected(p)' \union ToSet(handles'[p]) = Collected(p) \union ToSet(handles[p])
      BY <1>2, <1>11, <1>21
    <3>. QED
      BY <2>0, <2>2, <3>2, <3>3
  <2>. QED
    BY <2>1, <2>2
<1>23. Awaited'
  <2>. SUFFICES ASSUME NEW i \in AgentIds, tasks'[i] # NoAgent, Alone(tasks'[i][1])
                PROVE  \/ strategy[tasks'[i][1]] \in {"fail_fast", "unknown"}
                       \/ i[2] \in ToSet(handles'[tasks'[i][1]])
    BY <1>4, <1>8 DEF Awaited, ToSet
  <2>1. tasks'[i] = tasks[i]
    BY <1>7
  <2>2. PICK q \in Parents : tasks[i] = <<q, i[2]>> /\ worker[q] = i[1] /\ i[2] \in Spawned(q)
    BY <1>1, <2>1 DEF Registered
  <2>3. tasks[i][1] = q /\ Alone(q)
    BY <2>1, <2>2
  <2>4. strategy[q] \in {"fail_fast", "unknown"} \/ i[2] \in ToSet(handles[q])
    BY <1>1, <2>1, <2>3 DEF Awaited
  <2>5. CASE q # p
    BY <1>3, <2>1, <2>3, <2>4, <2>5
  <2>6. CASE q = p /\ strategy[p] # "fail_fast"
    <3>1. ToSet(handles'[p]) = ToSet(rest)
      BY <1>11, <2>6 DEF fail, Fails
    <3>2. i[2] # h
      <4>. SUFFICES ASSUME i[2] = h PROVE FALSE
        OBVIOUS
      <4>1. i = AgentId(p, h)
        BY <2>2, <2>6 DEF AgentId, AgentIds
      <4>. QED
        BY <1>7, <2>3, <2>6, <4>1
    <3>. QED
      BY <1>2, <2>1, <2>3, <2>4, <2>6, <3>1, <3>2
  <2>7. CASE q = p /\ strategy[p] = "fail_fast"
    BY <2>1, <2>3, <2>7
  <2>. QED
    BY <2>5, <2>6, <2>7
<1>24. OwnResultsIfAlone'
  <2>. SUFFICES ASSUME NEW q \in Parents, Alone(q), NEW r \in ToSet(results'[q])
                PROVE  \/ r.status = "cancelled"
                       \/ Over(<<q, r.goal>>) /\ r.status = Reported(q, agent[<<q, r.goal>>])
    BY <1>4, <1>8 DEF OwnResultsIfAlone, GetsOwnResults, Reported, ToSet
  <2>1. CASE r \in ToSet(results[q])
    BY <1>1, <2>1 DEF OwnResultsIfAlone, GetsOwnResults
  <2>2. CASE r \notin ToSet(results[q])
    <3>1. q = p
      BY <1>3, <2>2
    <3>2. CASE r = Result(h, Reported(p, status))
      <4>1. Reported(p, status) \in Outcomes
        BY DEF Reported, Outcomes
      <4>2. r.goal = h /\ r.status = Reported(p, status)
        BY <1>2, <3>2, <4>1, ResultParts
      <4>3. Over(<<p, h>>) /\ (status = "cancelled" \/ status = agent[<<p, h>>])
        BY <3>1 DEF h
      <4>. QED
        BY <3>1, <4>2, <4>3 DEF Reported
    <3>3. CASE \E g \in ToSet(rest) : r = Result(g, "cancelled")
      BY <1>5, <3>3, ResultParts DEF Outcomes
    <3>. QED
      BY <1>3, <2>2, <3>1, <3>2, <3>3
  <2>. QED
    BY <2>1, <2>2
<1>. QED
  BY <1>10, <1>13, <1>14, <1>15, <1>16, <1>20, <1>22, <1>23, <1>24 DEF IInv, Base

\* A cancellation passed on to an agent that has not ended.
LEMMA CancelledKeeps ==
    ASSUME IInv, NEW a \in Agents, agent[a] # "none", ~Over(a),
           cancelled' = cancelled \union {a}, faults' \in 0..MaxFaults[worker],
           UNCHANGED <<parentVars, agent, sem, permits, tasks, current>>
    PROVE  IInv'
<1>1. /\ TypeOK /\ Standing /\ Registered /\ Gated
      /\ PermitsCounted /\ Owned /\ Counted /\ Awaited /\ OwnResultsIfAlone
  BY DEF IInv, Base
<1>2. UNCHANGED <<worker, pc, strategy, deps, left, handles, awaits, results, round, agent, sem, permits, tasks, current>>
  BY DEF parentVars
<1>3. /\ \A q : /\ Spawned(q)' = Spawned(q) /\ Alone(q)' = Alone(q)
                /\ Collected(q)' = Collected(q) /\ Stopped(q)' = Stopped(q)
      /\ \A b : Over(b)' = Over(b)
      /\ \A q, g : AgentId(q, g)' = AgentId(q, g)
  BY <1>2 DEF Spawned, Alone, Collected, Stopped, Over, AgentId
<1>4. TypeOK'
  BY <1>1, <1>2 DEF TypeOK
<1>5. Standing' /\ Registered' /\ PermitsCounted' /\ Counted' /\ Awaited'
  <2>1. Standing'
    BY <1>1, <1>2, <1>3 DEF Standing, Stands
  <2>2. Registered' /\ PermitsCounted'
    BY <1>1, <1>2, <1>3 DEF Registered, PermitsCounted
  <2>3. Counted' /\ Awaited'
    BY <1>1, <1>2, <1>3 DEF Counted, Awaited
  <2>. QED
    BY <2>1, <2>2, <2>3
<1>6. Gated'
  <2>1. agent[a] \in {"created", "waiting", "running"}
    BY <1>1 DEF TypeOK, Over
  <2>. QED
    BY <1>1, <1>2, <2>1 DEF Gated
<1>7. Owned'
  BY <1>1, <1>2, <1>3 DEF Owned
<1>8. OwnResultsIfAlone'
  BY <1>1, <1>2, <1>3 DEF OwnResultsIfAlone, GetsOwnResults, Reported
<1>. QED
  BY <1>4, <1>5, <1>6, <1>7, <1>8 DEF IInv, Base

LEMMA CollectSteps ==
    ASSUME IInv, NEW p \in Parents, CollectEnds(p) \/ CollectMissing(p) \/ ParentCancelled(p)
    PROVE  IInv'
<1>1. TypeOK /\ Stands(p) /\ Registered /\ Owned /\ pc[p] = "collecting"
  BY DEF IInv, Base, Standing, CollectEnds, CollectMissing, ParentCancelled
<1>2. /\ awaits[p] \in Agents \union {NoAgent} /\ tasks \in [AgentIds -> Agents \union {NoAgent}]
      /\ agent \in [Agents -> {"none", "created", "waiting", "running"} \union Outcomes]
      /\ faults \in 0..MaxFaults[worker] /\ MaxFaults[worker] \in Nat
      /\ NoAgent \notin Agents
  BY <1>1, SubAgentsConstants DEF TypeOK
<1>3. Cleaned(p) \in [AgentIds -> Agents \union {NoAgent}]
  BY <1>2 DEF Cleaned
<1>4. Alone(p) => awaits[p] = <<p, Head(handles[p])>> /\ awaits[p] # NoAgent
  <2>. SUFFICES ASSUME Alone(p) PROVE awaits[p] = <<p, Head(handles[p])>> /\ awaits[p] # NoAgent
    OBVIOUS
  <2>1. awaits[p] = <<p, Head(handles[p])>>
    BY <1>1 DEF Owned
  <2>2. Head(handles[p]) \in Goals
    <3>1. handles[p] \in Seq(Goals) /\ handles[p] # <<>>
      BY <1>1 DEF TypeOK, Stands
    <3>. QED
      BY <3>1, Parts
  <2>. QED
    BY <1>2, <2>1, <2>2 DEF Agents
<1>5. CASE CollectEnds(p)
  <2>1. /\ Over(awaits[p]) /\ Collects(p, agent[awaits[p]], Cleaned(p)) /\ faults' = faults
    BY <1>5 DEF CollectEnds
  <2>2. agent[awaits[p]] \in Outcomes
    BY <2>1 DEF Over
  <2>3. Collecting(p, agent[awaits[p]], Cleaned(p))
    BY <1>1, <1>3, <2>1, <2>2, CollectsParts
  <2>. QED
    BY <1>1, <1>2, <1>4, <2>1, <2>2, <2>3, CollectingKeeps
<1>6. CASE CollectMissing(p)
  <2>1. ~Alone(p) /\ Collects(p, "failure", tasks) /\ faults' = faults /\ "failure" \in Outcomes
    BY <1>4, <1>6 DEF CollectMissing, Outcomes
  <2>2. Collecting(p, "failure", tasks)
    BY <1>1, <1>2, <2>1, CollectsParts
  <2>. QED
    BY <1>1, <1>2, <2>1, <2>2, CollectingKeeps
<1>7. CASE ParentCancelled(p)
  <2>0. faults' \in 0..MaxFaults[worker] /\ awaits[p] \in Agents
    BY <1>2, <1>7 DEF ParentCancelled
  <2>1. CASE Over(awaits[p]) /\ Collects(p, "cancelled", Cleaned(p))
    <3>1. "cancelled" \in Outcomes
      BY DEF Outcomes
    <3>2. Collecting(p, "cancelled", Cleaned(p))
      BY <1>1, <1>3, <2>1, <3>1, CollectsParts
    <3>. QED
      BY <1>1, <1>4, <2>0, <2>1, <3>1, <3>2, CollectingKeeps
  <2>2. CASE /\ ~Over(awaits[p])
             /\ cancelled' = cancelled \union {awaits[p]}
             /\ UNCHANGED <<parentVars, agent, sem, permits, tasks, current>>
    <3>1. agent[awaits[p]] # "none"
      BY <1>1, <1>2, <2>0 DEF Registered
    <3>. QED
      BY <2>0, <2>2, <3>1, CancelledKeeps
  <2>. QED
    BY <1>7, <2>1, <2>2 DEF ParentCancelled
<1>. QED
  BY <1>5, <1>6, <1>7

-----------------------------------------------------------------------------
(* The theorems.                                                           *)

LEMMA IInvStep == IInv /\ [Next]_vars => IInv'
<1>. SUFFICES ASSUME IInv, [Next]_vars PROVE IInv'
  OBVIOUS
<1>1. ASSUME NEW p \in Parents, Parent(p) \/ ParentCancelled(p) PROVE IInv'
  <2>1. CASE Plans(p) \/ PlanFails(p) \/ Returns(p) \/ PlanEnds(p) \/ Reflects(p)
    BY <2>1, RearrangedSteps, RearrangedKeeps
  <2>2. CASE StartsLayer(p)
    BY <2>2, StartsLayerKeeps
  <2>3. CASE CollectEnds(p) \/ CollectMissing(p) \/ ParentCancelled(p)
    BY <2>3, CollectSteps
  <2>. QED
    BY <1>1, <2>1, <2>2, <2>3 DEF Parent
<1>2. ASSUME NEW a \in Agents, Agent(a) \/ FailsOrTimesOut(a) PROVE IInv'
  BY <1>2, MovedSteps, MovedKeeps
<1>3. CASE UNCHANGED vars
  <2>1. UNCHANGED <<worker, pc, strategy, deps, left, handles, awaits, results, round,
                    agent, sem, cancelled, permits, tasks, current, faults>>
    BY <1>3 DEF vars, parentVars, agentVars
  <2>2. /\ \A q : /\ Spawned(q)' = Spawned(q) /\ Alone(q)' = Alone(q)
                  /\ Collected(q)' = Collected(q) /\ Stopped(q)' = Stopped(q)
        /\ \A b : Over(b)' = Over(b)
        /\ \A q, g : AgentId(q, g)' = AgentId(q, g)
    BY <2>1 DEF Spawned, Alone, Collected, Stopped, Over, AgentId
  <2>3. TypeOK' /\ PermitsCounted' /\ Gated' /\ OwnResultsIfAlone'
    BY <2>1, <2>2 DEF IInv, Base, TypeOK, PermitsCounted, Gated, OwnResultsIfAlone, GetsOwnResults, Reported
  <2>4. Standing' /\ Registered'
    BY <2>1, <2>2 DEF IInv, Base, Standing, Stands, Registered
  <2>5. Owned' /\ Counted' /\ Awaited'
    BY <2>1, <2>2 DEF IInv, Owned, Counted, Awaited
  <2>. QED
    BY <2>3, <2>4, <2>5 DEF IInv, Base
<1>. QED
  BY <1>1, <1>2, <1>3 DEF Next

LEMMA IInvHolds == Spec => []IInv
<1>. QED
  BY InitIInv, IInvStep, PTL DEF Spec

\* Every variable keeps its type: permits stay between none and all, whoever
\* is cancelled where.
THEOREM TypeCorrect == Spec => []TypeOK
<1>1. IInv => TypeOK
  BY DEF IInv, Base
<1>. QED
  BY <1>1, IInvHolds, PTL

\* _run_subagent acquires and releases in pairs: no semaphore ever admits
\* more than max_concurrent_subagents agents, and none loses a permit to an
\* agent that is cancelled before it starts, while it waits or while it runs.
THEOREM PermitsBalance == Spec => []PermitsCounted
<1>1. IInv => PermitsCounted
  BY DEF IInv
<1>. QED
  BY <1>1, IInvHolds, PTL

\* topological_sort_to_layers and collect_all together: if no other parent
\* uses its agent_ids, an agent is spawned only when all its goal depends on
\* have ended, whatever graph the model answers and whatever is cancelled.
THEOREM LayersInOrder == Spec => DependenciesFirst
<1>1. IInv /\ [Next]_vars =>
        [\A p \in Parents : Alone(p) =>
           \A g \in Goals : agent[<<p, g>>] = "none" /\ agent[<<p, g>>]' # "none" =>
             \A d \in deps[p][g] \intersect DOMAIN deps[p] : Over(<<p, d>>)]_vars
  <2>. SUFFICES ASSUME IInv, Next, NEW q \in Parents, Alone(q), NEW g \in Goals,
                       agent[<<q, g>>] = "none", agent'[<<q, g>>] # "none",
                       NEW d \in deps[q][g] \intersect DOMAIN deps[q]
                PROVE  Over(<<q, d>>)
    OBVIOUS
  <2>1. <<q, g>> \in Agents
    BY DEF Agents
  <2>2. ASSUME NEW p \in Parents, Parent(p) \/ ParentCancelled(p) PROVE Over(<<q, d>>)
    <3>1. CASE StartsLayer(p)
      BY <3>1, StartsLayerInOrder
    <3>2. CASE ~StartsLayer(p)
      <4>1. agent' = agent
        BY <2>2, <3>2 DEF Parent, ParentCancelled, Plans, PlanFails, Returns, PlanEnds, Reflects,
                          CollectEnds, CollectMissing, Collects, agentVars
      <4>. QED
        BY <4>1
    <3>. QED
      BY <3>1, <3>2
  <2>3. ASSUME NEW a \in Agents, Agent(a) \/ FailsOrTimesOut(a) PROVE Over(<<q, d>>)
    <3>1. Moved(a)
      BY <2>3, MovedSteps
    <3>2. a # <<q, g>>
      BY <3>1 DEF Moved
    <3>. QED
      BY <2>1, <3>1, <3>2 DEF Moved
  <2>. QED
    BY <2>2, <2>3 DEF Next
<1>. QED
  BY <1>1, IInvHolds, PTL DEF Spec, DependenciesFirst

\* A parent that ends has one result of each agent it spawned under
\* fail_fast, best_effort and retry_once; whose agent_ids are its own leaves
\* no agent behind, and nothing registered that it would have waited for.
THEOREM AllAreAccountedFor == Spec => []AllAccountedFor
<1>1. IInv => AllAccountedFor
  <2>. SUFFICES ASSUME IInv PROVE AllAccountedFor
    OBVIOUS
  <2>1. Standing /\ Owned /\ Counted /\ Awaited /\ TypeOK
    BY DEF IInv, Base
  <2>2. ASSUME NEW p \in Parents, Ended(p), strategy[p] # "unknown"
        PROVE  /\ Collected(p) = Spawned(p) /\ Len(results[p]) = Cardinality(Spawned(p))
               /\ Alone(p) => \A g \in Spawned(p) : Over(<<p, g>>) \/ <<p, g>> \in cancelled
    <3>1. handles[p] = <<>>
      BY <2>1, <2>2 DEF Standing, Stands, Ended
    <3>2. ToSet(handles[p]) = {} /\ Len(handles[p]) = 0
      BY <3>1, EmptySeq DEF ToSet
    <3>3. Len(results[p]) \in Nat
      BY <2>1, LenProperties DEF TypeOK
    <3>4. /\ Collected(p) \union ToSet(handles[p]) = Spawned(p)
          /\ Len(results[p]) + Len(handles[p]) = Cardinality(Spawned(p))
      BY <2>1, <2>2 DEF Counted
    <3>5. Collected(p) = Spawned(p) /\ Len(results[p]) = Cardinality(Spawned(p))
      BY <3>2, <3>3, <3>4
    <3>6. Alone(p) => \A g \in Spawned(p) : Over(<<p, g>>) \/ <<p, g>> \in cancelled
      BY <2>1, <2>2, <3>2 DEF Owned
    <3>. QED
      BY <3>5, <3>6
  <2>3. \A i \in AgentIds : tasks[i] # NoAgent =>
          LET p == tasks[i][1] IN
          Alone(p) => strategy[p] \in {"fail_fast", "unknown"} \/ i[2] \in ToSet(handles[p])
    BY <2>1 DEF Awaited
  <2>. QED
    BY <2>2, <2>3 DEF AllAccountedFor, Spawned
<1>. QED
  BY <1>1, IInvHolds, PTL

\* "Each subtask runs independently": what collect reports of a goal is what
\* its own agent came to, as long as no other parent of the worker shares the
\* registry with it.
THEOREM ResultsAreOwn == Spec => []OwnResultsIfAlone
<1>1. IInv => OwnResultsIfAlone
  BY DEF IInv
<1>. QED
  BY <1>1, IInvHolds, PTL
=============================================================================
