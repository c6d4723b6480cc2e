------------------------------ MODULE Bootstrap ------------------------------
(* Start-up and shutdown of the server: the initializers, the order Kahn's  *)
(* algorithm gives them, the state they hand to each other, what each holds  *)
(* afterwards, and the cleanup in reverse order.                             *)
EXTENDS Naturals, Sequences, FiniteSets

CONSTANTS MaxFaults     \* initializers and cleanups that fail, together

VARIABLES phase,        \* "sort", "start", "serve", "stop", "stopped"
          degree,       \* _topological_sort: dependencies not yet placed
          order,        \* the initializers in the order they will run
          at,           \* how many of them were run
          initialized,  \* those that succeeded, in order
          failed,       \* those in context.errors
          state,        \* the keys of context.state
          early,        \* <<initializer, key>>: read before any initializer set it
          held,         \* those whose connections, jobs or subscriptions are open
          faults

vars == <<phase, degree, order, at, initialized, failed, state, early, held, faults>>

Given == {"tenant_id", "workspace_root"}    \* set_initial_state

Logging == [priority |-> 1, needs |-> {}, required |-> TRUE, opens |-> FALSE,
            reads |-> {}, sets |-> {}]
LLM == [priority |-> 40, needs |-> {"logging"}, required |-> FALSE, opens |-> TRUE,
        reads |-> {}, sets |-> {"litellm_router"}]
Memory == [priority |-> 50, needs |-> {"logging"}, required |-> FALSE, opens |-> TRUE,
           reads |-> {}, sets |-> {"openviking_client"}]
MCP == [priority |-> 10, needs |-> {}, required |-> TRUE, opens |-> TRUE,
        reads |-> {"workspace_root"}, sets |-> {"mcp_server"}]
ToolDiscovery == [priority |-> 20, needs |-> {"mcp"}, required |-> FALSE, opens |-> FALSE,
                  reads |-> {"mcp_server"}, sets |-> {"tool_discovery"}]
Skills == [priority |-> 50, needs |-> {"logging"}, required |-> FALSE, opens |-> FALSE,
           reads |-> Given, sets |-> {"skill_registry", "skill_loader"}]
Workers == [priority |-> 60, needs |-> {"skills"}, required |-> FALSE, opens |-> FALSE,
            reads |-> Given, sets |-> {"worker_registry", "tenant_loader", "trust_gates"}]
Lifecycle == [priority |-> 95, needs |-> {"workers"}, required |-> FALSE, opens |-> FALSE,
              reads |-> {"workspace_root"}, sets |-> {"suggestion_store", "lifecycle_services"}]
ApiWiring == [priority |-> 100, needs |-> {"workers"}, required |-> FALSE, opens |-> FALSE,
              reads |-> {"tenant_loader", "worker_registry", "mcp_server", "openviking_client",
                         "event_bus", "litellm_router", "suggestion_store",
                         "session_inbox_store"},
              sets |-> {"worker_router", "llm_client", "task_store", "tool_executor",
                        "memory_orchestrator"}]
Events == [priority |-> 25, needs |-> {"logging"}, required |-> FALSE, opens |-> TRUE,
           reads |-> {}, sets |-> {"event_bus"}]
Scheduler == [priority |-> 110, needs |-> {"events", "workers", "api_wiring"},
              required |-> FALSE, opens |-> TRUE,
              reads |-> {"event_bus", "worker_router", "worker_registry", "mcp_server",
                         "llm_client", "redis_client", "memory_orchestrator",
                         "suggestion_store"},
              sets |-> {"apscheduler", "trigger_managers", "worker_schedulers",
                        "goal_inbox_store"}]
Platforms == [priority |-> 125, needs |-> {}, required |-> FALSE, opens |-> FALSE,
              reads |-> {"workspace_root"},
              sets |-> {"redis_client", "platform_client_factory"}]
\* The faulty form: each of two initializers waits for the other.
ContactsAfterChannels ==
    [priority |-> 128, needs |-> {"workers", "channels"}, required |-> FALSE, opens |-> FALSE,
     reads |-> {"worker_registry", "event_bus"}, sets |-> {"contact_registries"}]
Contacts == [priority |-> 128, needs |-> {"workers"}, required |-> FALSE, opens |-> FALSE,
             reads |-> {"worker_registry", "event_bus"}, sets |-> {"contact_registries"}]
Integrations == [priority |-> 130, needs |-> {"scheduler", "events", "platforms", "channels"},
                 required |-> FALSE, opens |-> TRUE,
                 reads |-> {"event_bus", "apscheduler", "llm_client", "tool_executor",
                            "platform_client_factory", "im_channel_registry", "redis_client"},
                 sets |-> {"sync_manager", "integration_inbox_store"}]
Conversation == [priority |-> 120, needs |-> {"api_wiring", "events", "scheduler"},
                 required |-> FALSE, opens |-> FALSE,
                 reads |-> {"redis_client", "memory_orchestrator", "worker_router",
                            "task_store", "worker_schedulers", "event_bus"},
                 sets |-> {"session_manager", "task_spawner"}]
Sensors == [priority |-> 132, needs |-> {"scheduler", "events", "platforms", "integrations"},
            required |-> FALSE, opens |-> TRUE,
            reads |-> {"worker_registry", "session_inbox_store", "integration_inbox_store",
                       "platform_client_factory", "redis_client", "message_deduplicator",
                       "apscheduler", "channel_router"},
            sets |-> {"sensor_registries"}]
Channels == [priority |-> 129,
             needs |-> {"workers", "api_wiring", "scheduler", "conversation", "platforms",
                        "events", "contacts"},
             required |-> FALSE, opens |-> TRUE,
             reads |-> {"worker_registry", "redis_client", "contact_registries",
                        "session_manager", "worker_router", "trigger_managers",
                        "sensor_registries", "goal_inbox_store"},
             sets |-> {"im_channel_registry", "channel_router", "channel_manager",
                       "message_deduplicator"}]
Heartbeat == [priority |-> 135, needs |-> {"scheduler", "conversation", "integrations"},
              required |-> FALSE, opens |-> TRUE,
              reads |-> {"apscheduler", "worker_router", "session_manager", "redis_client",
                         "goal_inbox_store", "integration_inbox_store"},
              sets |-> {"session_inbox_store", "heartbeat_runners"}]

\* create_orchestrator registers them in this order.
Registered == <<"logging", "llm", "memory", "mcp", "tool_discovery", "skills", "workers",
                "lifecycle", "api_wiring", "events", "scheduler", "platforms", "contacts",
                "integrations", "conversation", "sensors", "channels", "heartbeat">>
Initializers == {Registered[i] : i \in DOMAIN Registered}

Of == [logging |-> Logging, llm |-> LLM, memory |-> Memory, mcp |-> MCP,
       tool_discovery |-> ToolDiscovery, skills |-> Skills, workers |-> Workers,
       lifecycle |-> Lifecycle, api_wiring |-> ApiWiring, events |-> Events,
       scheduler |-> Scheduler, platforms |-> Platforms, contacts |-> Contacts,
       integrations |-> Integrations, conversation |-> Conversation, sensors |-> Sensors,
       channels |-> Channels, heartbeat |-> Heartbeat]

\* Cleanups whose awaits may raise or outlast the ten seconds they get.
Suspends == {"llm", "memory", "channels", "sensors", "heartbeat"}

SetBy(key) == {i \in Initializers : key \in Of[i].sets}
Elements(s) == {s[k] : k \in DOMAIN s}

Init ==
    /\ phase = "sort"
    /\ degree = [i \in Initializers |-> Cardinality(Of[i].needs)]
    /\ order = <<>> /\ at = 0 /\ initialized = <<>>
    /\ failed = {} /\ state = Given /\ early = {} /\ held = {} /\ faults = 0

\* queue.sort(key=priority) is stable, so ties keep the order of registration.
Before(i, j) ==
    \/ Of[i].priority < Of[j].priority
    \/ /\ Of[i].priority = Of[j].priority
       /\ \E m, n \in DOMAIN Registered : Registered[m] = i /\ Registered[n] = j /\ m < n

Queue == {i \in Initializers : degree[i] = 0 /\ i \notin Elements(order)}

\* One turn of the loop of _topological_sort.
Place ==
    /\ phase = "sort"
    /\ \E i \in Queue :
        /\ \A j \in Queue \ {i} : Before(i, j)
        /\ order' = Append(order, i)
        /\ degree' = [j \in Initializers |->
                        IF i \in Of[j].needs THEN degree[j] - 1 ELSE degree[j]]
    /\ UNCHANGED <<phase, at, initialized, failed, state, early, held, faults>>

\* The queue is empty; initializers left over would be a circular dependency.
Sorted ==
    /\ phase = "sort" /\ Queue = {}
    /\ phase' = IF Len(order) = Len(Registered) THEN "start" ELSE "serve"
    /\ failed' = IF Len(order) = Len(Registered) THEN failed ELSE {"orchestrator"}
    /\ UNCHANGED <<degree, order, at, initialized, state, early, held, faults>>

ReadsEarly(i) ==
    {<<i, key>> : key \in {k \in Of[i].reads \ state :
                             SetBy(k) \cap {order[n] : n \in 1 .. at} = {}}}

Initialize ==
    /\ phase = "start" /\ at < Len(order)
    /\ LET i == order[at + 1] IN
        /\ at' = at + 1
        /\ early' = early \cup ReadsEarly(i)
        /\ \/ /\ initialized' = Append(initialized, i)
              /\ state' = state \cup Of[i].sets
              /\ held' = IF Of[i].opens THEN held \cup {i} ELSE held
              /\ UNCHANGED <<phase, failed, faults>>
           \/ \* False or an exception, whatever was opened by then stays open
              /\ faults < MaxFaults /\ faults' = faults + 1
              /\ failed' = failed \cup {i}
              /\ held' \in {held} \cup (IF Of[i].opens THEN {held \cup {i}} ELSE {})
              /\ phase' = IF Of[i].required THEN "serve" ELSE phase
              /\ UNCHANGED <<initialized, state>>
    /\ UNCHANGED <<degree, order>>

\* startup returns its context, errors or not, and the application serves.
Serve ==
    /\ phase = "start" /\ at = Len(order)
    /\ phase' = "serve"
    /\ UNCHANGED <<degree, order, at, initialized, failed, state, early, held, faults>>

\* The lifespan ends; the reload watcher is stopped first.
BeginShutdown ==
    /\ phase = "serve"
    /\ phase' = "stop"
    /\ UNCHANGED <<degree, order, at, initialized, failed, state, early, held, faults>>

\* The faulty form: cleanup in the order of initialisation.
CleanUpForwards ==
    /\ phase = "stop" /\ initialized # <<>>
    /\ LET i == Head(initialized) IN
        /\ initialized' = Tail(initialized)
        /\ held' = held \ {i}
        /\ UNCHANGED <<failed, faults>>
    /\ UNCHANGED <<phase, degree, order, at, state, early>>

CleanUp ==
    /\ phase = "stop" /\ initialized # <<>>
    /\ LET i == initialized[Len(initialized)] IN
        /\ initialized' = SubSeq(initialized, 1, Len(initialized) - 1)
        /\ \/ held' = held \ {i} /\ UNCHANGED <<failed, faults>>
           \/ /\ i \in Suspends /\ faults < MaxFaults
              /\ faults' = faults + 1
              /\ failed' = failed \cup {i}
              /\ UNCHANGED held
    /\ UNCHANGED <<phase, degree, order, at, state, early>>

Stopped ==
    /\ phase = "stop" /\ initialized = <<>>
    /\ phase' = "stopped"
    /\ UNCHANGED <<degree, order, at, initialized, failed, state, early, held, faults>>

Next == Place \/ Sorted \/ Initialize \/ Serve \/ BeginShutdown \/ CleanUp \/ Stopped

Spec == Init /\ [][Next]_vars

(***************************************************************************)
(* Properties                                                              *)
(***************************************************************************)
TypeOK ==
    /\ phase \in {"sort", "start", "serve", "stop", "stopped"}
    /\ degree \in [Initializers -> Nat]
    /\ Elements(order) \subseteq Initializers /\ at \in 0 .. Len(order)
    /\ Elements(initialized) \cup held \subseteq Initializers
    /\ failed \subseteq Initializers \cup {"orchestrator"}
    /\ faults \in 0 .. MaxFaults

\* Whatever opened something is cleaned up while all it depends on is still
\* there, and after the shutdown only what failed can still be open.
HeldOverNeeds ==
    /\ \A i \in held \ failed : \A j \in Of[i].needs :
          j \in failed \/ j \in Elements(initialized)
    /\ phase = "stopped" => held \subseteq failed

\* Of the keys an initializer reads, the ones another sets were set by then,
\* or their initializer was tried and failed. Three readers are told of the
\* value afterwards, or have another store to fall back on; two are not.
ToldLater == {<<"api_wiring", "session_inbox_store">>, <<"sensors", "session_inbox_store">>,
              <<"channels", "sensor_registries">>}
NeverTold == {<<"scheduler", "redis_client">>, <<"conversation", "redis_client">>}
ReadAfterSet == early \subseteq ToldLater \cup NeverTold

\* Every initializer runs after those it names, and the sort always ends.
NeedsFirst ==
    /\ \A n \in DOMAIN order : Of[order[n]].needs \subseteq {order[m] : m \in 1 .. n - 1}
    /\ phase # "sort" => Elements(order) = Initializers
=============================================================================
