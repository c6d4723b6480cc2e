----------------------------- MODULE SubAgents -----------------------------
(***************************************************************************)
(* Planning runs and spawn_subagents calls (src/worker/planning,           *)
(* src/engine/tools/subagent_tool.py) over the one SubAgentExecutor of the *)
(* process.                                                                *)
(*                                                                         *)
(* A parent splits its task into goals that depend on each other and runs  *)
(* them in topological layers: it spawns the agents of a layer, which is   *)
(* done without giving up the event loop, and then awaits them one after   *)
(* the other.  The executor keeps one registry of asyncio tasks, by        *)
(* agent_id, and one current semaphore: spawning a layer replaces it, and  *)
(* an agent takes whichever is current when it first runs.  The task that  *)
(* a parent awaits is looked up when its collect begins.                   *)
(*                                                                         *)
(* An agent is a pair <<parent, goal>>; its agent_id is made of the worker *)
(* of the parent and the goal, so parents of one worker share agent_ids.   *)
(* An agent may itself run a plan: that parent has the agent as its host.  *)
(* A semaphore is named after the first agent of the layer it was made     *)
(* for.  What an agent does, and what the model answers, is left open.     *)
(***************************************************************************)
EXTENDS Integers, Sequences, FiniteSets, SequencesExt

CONSTANTS
    Parents,        \* plans and spawn_subagents calls
    Tools,          \* those that are spawn_subagents calls
    Workers,        \* which worker each parent may be of: functions on Parents
    Host,           \* the agent in which a plan runs, or NoAgent
    NoAgent,
    Goals,          \* sub-goal ids, numbers for their sort order
    Graphs,         \* what a decomposition of a parent may be: [goals -> SUBSET goals]
    Extras,         \* what a reflection of it may add, the same
    MaxConcurrent,  \* max_concurrent_subagents
    MaxIterations,  \* max_iterations of a plan
    MaxFaults       \* bound, for each of Workers: runs that fail or time out
                    \* and calls cancelled

Agents == Parents \X Goals
AgentIds == (UNION {{w[p] : p \in Parents} : w \in Workers}) \X Goals
Dependencies == UNION {[S -> SUBSET Goals] : S \in SUBSET Goals}

ASSUME SubAgentsConstants ==
    /\ Goals \subseteq Nat /\ IsFiniteSet(Goals)
    /\ Tools \subseteq Parents /\ IsFiniteSet(Parents)
    /\ NoAgent \notin Agents
    /\ Workers # {} /\ \A w \in Workers : DOMAIN w = Parents
    /\ Host \in [Parents -> Agents \union {NoAgent}]
    /\ \A p \in Tools : Host[p] = NoAgent
    /\ Graphs \in [Parents -> SUBSET Dependencies] /\ Extras \in [Parents -> SUBSET Dependencies]
    /\ MaxConcurrent \in Nat \ {0} /\ MaxIterations \in Nat \ {0}
    /\ MaxFaults \in [Workers -> Nat]

VARIABLES
    worker,     \* the worker of a parent, which does not change
    pc,         \* where a parent is
    strategy,   \* its collection strategy
    deps,       \* its goals so far and what each depends on
    left,       \* the goals of this iteration in no layer yet
    handles,    \* the goals of the layer not collected, in order
    awaits,     \* the agent whose task it awaits, NoAgent if none was found
    results,    \* what it collected
    round,      \* iterations begun
    agent,      \* where the asyncio task of an agent is
    sem,        \* the semaphore an agent took, NoAgent before
    cancelled,  \* agents with a cancellation to come
    tasks,      \* _tasks: the agent registered under an agent_id
    current,    \* _semaphore
    permits,    \* free permits of a semaphore
    faults

parentVars == <<worker, pc, strategy, deps, left, handles, awaits, results, round>>
agentVars == <<agent, sem, cancelled, permits>>
vars == <<parentVars, agentVars, tasks, current, faults>>

\* What the model may ask for; the executor does not know "unknown".
Strategies == {"best_effort", "fail_fast", "retry_once", "unknown"}
Outcomes == {"success", "failure", "timeout", "cancelled"}
Ended(p) == pc[p] \in {"done", "failed"}
Over(a) == agent[a] \in Outcomes


\* Faulty variant: the agent_id leaves the worker out.
AgentIdOfGoal(p, g) == <<worker[CHOOSE q \in Parents : TRUE], g>>

\* The agent_id of the agent of p for g.
AgentId(p, g) == <<worker[p], g>>

Result(g, s) == [goal |-> g, status |-> s]
Collected(p) == {r.goal : r \in ToSet(results[p])}

Init ==
    /\ worker \in Workers
    /\ pc = [p \in Parents |-> "idle"]
    /\ strategy = [p \in Parents |-> "best_effort"]
    /\ deps = [p \in Parents |-> <<>>]
    /\ left = [p \in Parents |-> {}]
    /\ handles = [p \in Parents |-> <<>>]
    /\ awaits = [p \in Parents |-> NoAgent]
    /\ results = [p \in Parents |-> <<>>]
    /\ round = [p \in Parents |-> 0]
    /\ agent = [a \in Agents |-> "none"]
    /\ sem = [a \in Agents |-> NoAgent]
    /\ cancelled = {}
    /\ permits = [a \in Agents |-> MaxConcurrent]
    /\ tasks = [i \in AgentIds |-> NoAgent]
    /\ current = NoAgent
    /\ faults = 0

-----------------------------------------------------------------------------
(* Layers.                                                                 *)

\* Kahn's algorithm leaves goals over: some of them wait for each other.
Cyclic(d, S) == \E C \in SUBSET S : C # {} /\ \A g \in C : d[g] \intersect C # {}

\* Faulty variant: off by one in the in-degree.
LayerEarly(d, S) == {g \in S : Cardinality(d[g] \intersect S) <= 1}

\* The next layer: the goals that wait for none of those left.
Layer(d, S) == {g \in S : d[g] \intersect S = {}}

\* A layer in the order its agents are spawned: the one sequence that is
\* sorted.
Sorted(layer) ==
    {s \in SetToSeqs(layer) : \A i, j \in DOMAIN s : i < j => s[i] < s[j]}

\* A decomposition or a reflection is accepted, or its cycle is an error.
Arrange(p, d, S) ==
    /\ deps' = [deps EXCEPT ![p] = d]
    /\ IF Cyclic(d, S)
       THEN pc' = [pc EXCEPT ![p] = "failed"] /\ UNCHANGED left
       ELSE pc' = [pc EXCEPT ![p] = "layered"] /\ left' = [left EXCEPT ![p] = S]

MayBegin(p) == Host[p] # NoAgent => agent[Host[p]] = "running" /\ Host[p] \notin cancelled

\* The model splits the task, or names the subtasks of the call.
Plans(p) ==
    /\ pc[p] = "idle" /\ MayBegin(p)
    /\ \E G \in Graphs[p] : Arrange(p, G, DOMAIN G)
    /\ strategy' \in {[strategy EXCEPT ![p] = s] :
                        s \in IF p \in Tools THEN Strategies ELSE {"best_effort"}}
    /\ round' = [round EXCEPT ![p] = 1]
    /\ UNCHANGED <<worker, handles, awaits, results, agentVars, tasks, current, faults>>

\* A decomposition that does not parse.
PlanFails(p) ==
    /\ pc[p] = "idle" /\ p \notin Tools /\ MayBegin(p)
    /\ pc' = [pc EXCEPT ![p] = "failed"]
    /\ UNCHANGED <<worker, strategy, deps, left, handles, awaits, results, round, agentVars, tasks, current, faults>>

\* spawn_subagents goes on to the next layer unless fail_fast met a failure.
Stopped(p) ==
    /\ p \in Tools /\ strategy[p] = "fail_fast"
    /\ \E r \in ToSet(results[p]) : r.status # "success"

\* Faulty variant: the semaphore is made once.
SemaphoreOnce(first) == IF current = NoAgent THEN first ELSE current

\* spawn_parallel makes a semaphore for the layer.
SemaphoreFor(first) == first

\* spawn_parallel and the beginning of the first collect; collect_all
\* refuses an unknown strategy when the agents are spawned.
StartsLayer(p) ==
    LET layer == Layer(deps[p], left[p])
        known == strategy[p] # "unknown"
    IN
    /\ pc[p] = "layered" /\ left[p] # {} /\ ~Stopped(p)
    /\ pc' = [pc EXCEPT ![p] = IF known THEN "collecting" ELSE "failed"]
    /\ left' = [left EXCEPT ![p] = @ \ layer]
    /\ \E order \in Sorted(layer) :
         /\ handles' = [handles EXCEPT ![p] = IF known THEN order ELSE <<>>]
         /\ awaits' = [awaits EXCEPT ![p] = IF known THEN <<p, order[1]>> ELSE NoAgent]
         /\ current' = SemaphoreFor(<<p, order[1]>>)
    /\ agent' = [a \in Agents |-> IF a \in {p} \X layer THEN "created" ELSE agent[a]]
    /\ tasks' = [i \in AgentIds |->
                   IF \E g \in layer : i = AgentId(p, g) THEN <<p, i[2]>> ELSE tasks[i]]
    /\ UNCHANGED <<worker, strategy, deps, results, round, sem, cancelled, permits, faults>>

-----------------------------------------------------------------------------
(* Collecting.                                                             *)

\* Faulty variant: while the list is walked its elements are removed.
LostSkipping(rest) == [i \in 1..(Len(rest) \div 2) |-> Result(rest[2 * i], "cancelled")]

\* What fail_fast reports of the agents it cancels.
Lost(rest) == [i \in 1..Len(rest) |-> Result(rest[i], "cancelled")]

\* cancel: the tasks registered for the handles that are left.
Cancel(p, rest) ==
    cancelled \union {a \in Agents :
        ~Over(a) /\ \E g \in ToSet(rest) : tasks[AgentId(p, g)] = a}

\* retry_once has no context to spawn the agent with and reports a failure.
Reported(p, status) ==
    IF strategy[p] = "retry_once" /\ status = "timeout" THEN "failure" ELSE status

\* One collect ended with status; registry is what it left in _tasks, where
\* the next one looks its task up.
Collects(p, status, registry) ==
    LET rest == Tail(handles[p])
        got  == Append(results[p], Result(Head(handles[p]), Reported(p, status)))
        fail == strategy[p] = "fail_fast" /\ status \in {"failure", "timeout"}
        ends == fail \/ rest = <<>>
    IN
    /\ results' = [results EXCEPT ![p] = IF fail THEN got \o Lost(rest) ELSE got]
    /\ cancelled' = IF fail THEN Cancel(p, rest) ELSE cancelled
    /\ handles' = [handles EXCEPT ![p] = IF ends THEN <<>> ELSE rest]
    /\ awaits' = [awaits EXCEPT ![p] = IF ends THEN NoAgent ELSE registry[AgentId(p, Head(rest))]]
    /\ pc' = [pc EXCEPT ![p] = IF ends THEN "layered" ELSE "collecting"]
    /\ tasks' = registry
    /\ UNCHANGED <<worker, strategy, deps, left, round, agent, sem, permits, current>>

\* Faulty variant: the task is left registered.
CleanedNot(p) == tasks

\* _cleanup pops whatever is registered under the agent_id of the handle.
Cleaned(p) == [tasks EXCEPT ![AgentId(p, Head(handles[p]))] = NoAgent]

CollectEnds(p) ==
    /\ pc[p] = "collecting" /\ awaits[p] # NoAgent /\ Over(awaits[p])
    /\ Collects(p, agent[awaits[p]], Cleaned(p))
    /\ UNCHANGED faults

\* "No task found for agent"
CollectMissing(p) ==
    /\ pc[p] = "collecting" /\ awaits[p] = NoAgent
    /\ Collects(p, "failure", tasks)
    /\ UNCHANGED faults

\* The call is cancelled: collect takes the cancellation for one of the
\* agent it awaits, which gets it too unless it has ended.
ParentCancelled(p) ==
    /\ p \in Tools /\ pc[p] = "collecting" /\ awaits[p] # NoAgent
    /\ faults < MaxFaults[worker]
    /\ faults' = faults + 1
    /\ \/ Over(awaits[p]) /\ Collects(p, "cancelled", Cleaned(p))
       \/ /\ ~Over(awaits[p])
          /\ cancelled' = cancelled \union {awaits[p]}
          /\ UNCHANGED <<parentVars, agent, sem, permits, tasks, current>>

\* The call has its answer.
Returns(p) ==
    /\ p \in Tools /\ pc[p] = "layered"
    /\ left[p] = {} \/ Stopped(p)
    /\ pc' = [pc EXCEPT ![p] = "done"]
    /\ UNCHANGED <<worker, strategy, deps, left, handles, awaits, results, round, agentVars, tasks, current, faults>>

\* A plan is complete, or incomplete without anything to add, or the
\* reflection does not parse.
PlanEnds(p) ==
    /\ p \notin Tools /\ pc[p] = "layered" /\ left[p] = {}
    /\ \E end \in {"done", "failed"} : pc' = [pc EXCEPT ![p] = end]
    /\ UNCHANGED <<worker, strategy, deps, left, handles, awaits, results, round, agentVars, tasks, current, faults>>

\* A reflection adds goals; after the last iteration they are not run.
Reflects(p) ==
    /\ p \notin Tools /\ pc[p] = "layered" /\ left[p] = {}
    /\ \E E \in Extras[p] :
         LET new == DOMAIN E
             all == [g \in DOMAIN deps[p] \union new |-> IF g \in new THEN E[g] ELSE deps[p][g]]
         IN
         /\ new # {} /\ new \intersect DOMAIN deps[p] = {}
         /\ IF round[p] < MaxIterations
            THEN round' = [round EXCEPT ![p] = @ + 1] /\ Arrange(p, all, new)
            ELSE /\ deps' = [deps EXCEPT ![p] = all]
                 /\ pc' = [pc EXCEPT ![p] = "done"]
                 /\ UNCHANGED <<left, round>>
    /\ UNCHANGED <<worker, strategy, handles, awaits, results, agentVars, tasks, current, faults>>

-----------------------------------------------------------------------------
(* Agents.                                                                 *)

otherVars == <<parentVars, tasks, current>>

Takes(a, s) ==
    /\ permits[s] > 0
    /\ agent' = [agent EXCEPT ![a] = "running"]
    /\ permits' = [permits EXCEPT ![s] = @ - 1]

\* The first step of _run_subagent, up to where it waits for a permit.
Starts(a) ==
    /\ agent[a] = "created" /\ a \notin cancelled
    /\ sem' = [sem EXCEPT ![a] = current]
    /\ IF permits[current] > 0
       THEN Takes(a, current)
       ELSE agent' = [agent EXCEPT ![a] = "waiting"] /\ UNCHANGED permits
    /\ UNCHANGED <<otherVars, cancelled, faults>>

Acquires(a) ==
    /\ agent[a] = "waiting" /\ a \notin cancelled
    /\ Takes(a, sem[a])
    /\ UNCHANGED <<otherVars, sem, cancelled, faults>>

\* Faulty variant: an agent that never got a permit gives one back.
ReleasedAlways(a) ==
    [s \in Agents |-> IF s = sem[a] THEN permits[s] + 1 ELSE permits[s]]

\* The finally of _run_subagent, entered once the permit is acquired.
Released(a) ==
    [s \in Agents |-> IF s = sem[a] /\ agent[a] = "running" THEN permits[s] + 1 ELSE permits[s]]

Ends(a, outcome) ==
    /\ agent' = [agent EXCEPT ![a] = outcome]
    /\ permits' = Released(a)
    /\ sem' = [sem EXCEPT ![a] = NoAgent]
    /\ cancelled' = cancelled \ {a}
    /\ UNCHANGED otherVars

Hosts(a) == {p \in Parents : Host[p] = a /\ pc[p] # "idle" /\ ~Ended(p)}

\* A run that hosts a plan succeeds or fails after it.
Succeeds(a) ==
    /\ agent[a] = "running" /\ a \notin cancelled /\ Hosts(a) = {}
    /\ Ends(a, "success")
    /\ UNCHANGED faults

\* It times out whatever it does; a plan it hosts has a task of its own and
\* goes on.
FailsOrTimesOut(a) ==
    /\ agent[a] = "running" /\ a \notin cancelled
    /\ faults < MaxFaults[worker]
    /\ faults' = faults + 1
    /\ Ends(a, "timeout") \/ (Hosts(a) = {} /\ Ends(a, "failure"))

\* A cancellation arrives wherever the agent is.
CancelLands(a) == a \in cancelled /\ Ends(a, "cancelled") /\ UNCHANGED faults

-----------------------------------------------------------------------------
Parent(p) ==
    \/ Plans(p) \/ PlanFails(p) \/ StartsLayer(p)
    \/ CollectEnds(p) \/ CollectMissing(p)
    \/ Returns(p) \/ PlanEnds(p) \/ Reflects(p)

Agent(a) == Starts(a) \/ Acquires(a) \/ Succeeds(a) \/ CancelLands(a)

Next ==
    \/ \E p \in Parents : Parent(p) \/ ParentCancelled(p)
    \/ \E a \in Agents : Agent(a) \/ FailsOrTimesOut(a)

Spec == Init /\ [][Next]_vars

\* The event loop runs what is ready and a run ends by itself; no timeout
\* is asked for, nor has a parent to begin.
Fairness ==
    WF_vars(\/ \E p \in Parents : pc[p] # "idle" /\ Parent(p)
            \/ \E a \in Agents : Agent(a))

FairSpec == Spec /\ Fairness

-----------------------------------------------------------------------------
(* Properties.                                                             *)

\* Every variable has its type.
TypeOK ==
    /\ worker \in Workers
    /\ pc \in [Parents -> {"idle", "layered", "collecting", "done", "failed"}]
    /\ strategy \in [Parents -> Strategies]
    /\ deps \in [Parents -> Dependencies]
    /\ left \in [Parents -> SUBSET Goals]
    /\ handles \in [Parents -> Seq(Goals)]
    /\ results \in [Parents -> Seq([goal : Goals, status : Outcomes])]
    /\ awaits \in [Parents -> Agents \union {NoAgent}]
    /\ round \in [Parents -> 0..MaxIterations]
    /\ agent \in [Agents -> {"none", "created", "waiting", "running"} \union Outcomes]
    /\ sem \in [Agents -> Agents \union {NoAgent}]
    /\ cancelled \subseteq Agents
    /\ permits \in [Agents -> 0..MaxConcurrent]
    /\ tasks \in [AgentIds -> Agents \union {NoAgent}]
    /\ current \in Agents \union {NoAgent}
    /\ faults \in 0..MaxFaults[worker]

\* No permit is lost or made up, with agents cancelled before they start,
\* while they wait and while they run: max_concurrent_subagents holds for
\* every semaphore.
PermitsCounted ==
    \A s \in Agents :
        permits[s] + Cardinality({a \in Agents : agent[a] = "running" /\ sem[a] = s}) = MaxConcurrent

\* The worker of p runs no other parent; agent_ids are p's own then.
Alone(p) == \A q \in Parents \ {p} : worker[q] # worker[p]

\* An agent is spawned only when those its goal depends on have ended, as far
\* as the graph knows of them: a goal may depend on one that a reflection
\* adds later.
DependenciesFirst ==
    [][\A p \in Parents : Alone(p) =>
         \A g \in Goals : agent[<<p, g>>] = "none" /\ agent[<<p, g>>]' # "none" =>
           \A d \in deps[p][g] \intersect DOMAIN deps[p] : Over(<<p, d>>)]_vars

\* A parent that ends has one result of each agent it spawned, whatever the
\* strategy it was given among those known.  If no other shares its
\* agent_ids, no agent is left behind either: each has ended or is about to
\* be cancelled, and nothing stays registered but what fail_fast or an
\* unknown strategy did not wait for.
AllAccountedFor ==
    /\ \A p \in Parents : Ended(p) /\ strategy[p] # "unknown" =>
         LET spawned == {g \in Goals : agent[<<p, g>>] # "none"} IN
         /\ Collected(p) = spawned /\ Len(results[p]) = Cardinality(spawned)
         /\ Alone(p) => \A g \in spawned : Over(<<p, g>>) \/ <<p, g>> \in cancelled
    /\ \A i \in AgentIds : tasks[i] # NoAgent =>
         LET p == tasks[i][1] IN
         Alone(p) => strategy[p] \in {"fail_fast", "unknown"} \/ i[2] \in ToSet(handles[p])

GetsOwnResults(p) ==
    \A r \in ToSet(results[p]) :
        \/ r.status = "cancelled"
        \/ Over(<<p, r.goal>>) /\ r.status = Reported(p, agent[<<p, r.goal>>])

\* spawn_subagents: "Each subtask runs independently with its own context."
\* A result reported of a goal is what its own agent came to; the others are
\* reported as cancelled.
OwnResults == \A p \in Parents : GetsOwnResults(p)

\* The same of the parents whose worker runs no other at the time.
OwnResultsIfAlone == \A p \in Parents : Alone(p) => GetsOwnResults(p)

\* Who began ends, also when a plan runs inside an agent that holds a
\* permit of its own layer, and no timeout is needed for it.
ParentsEnd == <>[](\A p \in Parents : pc[p] = "idle" \/ Ended(p))
=============================================================================
