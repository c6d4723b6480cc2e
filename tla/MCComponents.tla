---------------------------- MODULE MCComponents ----------------------------
(* The components that have no run of their own, side by side: a behaviour *)
(* is one of one of them.  The parts share no state, so this checks each   *)
(* of them as a run of its own would; what a property says of a part is    *)
(* stated, and explained, in the part's module.                            *)
EXTENDS Naturals, Sequences, FiniteSets, TLC

VARIABLES
    part,   \* the module a behaviour is one of
    v1, v2, v3, v4, v5, v6, v7, v8, v9, v10, v11, v12, v13   \* its variables, in their order

pool == <<v1, v2, v3, v4, v5, v6, v7, v8, v9, v10, v11, v12, v13>>
vars == <<part, pool>>

(* Constants that need more than a value *)
HeartbeatKey == [i \in {"i1", "i2"} |-> "k"]
HeartbeatKind == [i1 |-> "summary", i2 |-> "task"]
EventsOfJob == [j1 |-> 2, j2 |-> 1]
MilestoneOfTask == [t1 |-> "m1", t2 |-> "m1", t3 |-> "m2"]
FileOrder(d, e) == d = "d1" /\ e = "d2"
KindsOfMessages == {[m1 |-> "talk", m2 |-> k] : k \in {"yes", "command"}}
EventOfCaller(c) == CASE c \in {"c1", "c2"} -> "k1" [] c = "c3" -> "k2" [] OTHER -> "k3"
KindOfEvent(k) == CASE k = "k1" -> "fact" [] k = "k2" -> "episode" [] OTHER -> "unsafe"
DecisionOfRun(r) == IF r = "r2" THEN "y" ELSE "x"
\* Two tiers on two deployments, all on one, no tiers, tiers of no group.
Tiers(g, h) == [fast |-> g, standard |-> g, strong |-> h, reasoning |-> h]
Config(aliased, aliases, uses) ==
    [kind |-> "json", aliased |-> aliased, aliases |-> aliases, uses |-> uses,
     default |-> "standard", falls |-> [g1 |-> {"g2"}]]
SomeConfigs ==
    {Config(TRUE, Tiers("g1", "g2"), [g1 |-> "d1", g2 |-> "d2"]),
     Config(TRUE, Tiers("g1", "g2"), [g1 |-> "d1", g2 |-> "d1"]),
     Config(FALSE, Tiers("g1", "g1"), [g1 |-> "d1", g2 |-> "d2"]),
     Config(TRUE, Tiers("g1", "g3"), [g1 |-> "d1", g2 |-> "d2"])}

-----------------------------------------------------------------------------
TaskRuns == INSTANCE Tasks WITH
    Tasks <- {"t1", "t2"}, MaxRuns <- 2, MaxFaults <- 1, MaxCrashes <- 1,
    Previews <- {"t2"}, EpisodesAge <- BOOLEAN,
    manifest <- v1, at <- v2, runs <- v3, verdict <- v4, answer <- v5,
    learned <- v6, reason <- v7, faults <- v8, crashes <- v9
DeadLetters == INSTANCE DeadLetters WITH
    Entries <- {"e1", "e2"}, Callers <- {"c1", "c2", "c3"}, MaxFaults <- 2,
    redis <- v1, file <- v2, call <- v3, fate <- v4, excused <- v5,
    faults <- v6
Heartbeat == INSTANCE Heartbeat WITH
    Items <- {"i1", "i2"}, Key <- HeartbeatKey, Kind <- HeartbeatKind,
    MaxFaults <- 2, MaxCrashes <- 1,
    item <- v1, beat <- v2, redis <- v3, file <- v4, sent <- v5, refs <- v6,
    shown <- v7, back <- v8, faults <- v9, crashes <- v10
MainSession == INSTANCE MainSession WITH
    Jobs <- {"j1", "j2"}, Events <- EventsOfJob, MaxBeats <- 2, MaxFaults <- 1,
    subscribed <- v1, published <- v2, messages <- v3, redis <- v4,
    file <- v5, proc <- v6, overlapped <- v7, faults <- v8
InboxMirror == INSTANCE InboxMirror WITH
    Items <- {"i1", "i2"}, InUse <- {{"hybrid"}, {"file"}, {"hybrid", "file"}},
    MaxChanges <- 2, MaxFaults <- 2, MaxCrashes <- 1,
    stores <- v1, redis <- v2, file <- v3, held <- v4, at <- v5, made <- v6,
    stale <- v7, faults <- v8, crashes <- v9
Goals == INSTANCE Goals WITH
    Tasks <- {"t1", "t2", "t3"}, MilestoneOf <- MilestoneOfTask,
    Deliveries <- {"d1", "d2", "d3"}, Followed <- "d1", RequireApproval <- BOOLEAN, MaxCrashes <- 1,
    goal <- v1, goals <- v2, delivery <- v3, job <- v4, approving <- v5,
    excused <- v6, projected <- v7, crashes <- v8
Triggers == INSTANCE Triggers WITH
    Duties <- {"d1", "d2"}, Before <- FileOrder, MaxRuns <- 2, MaxEdits <- 2,
    file <- v1, phase <- v2, jobs <- v3, subs <- v4, reg <- v5, window <- v6,
    running <- v7, records <- v8, edited <- v9, leaked <- v10, edits <- v11
Sensing == INSTANCE Sensing WITH
    Facts <- {"f1", "f2"}, MaxFaults <- 1, MaxCrashes <- 1, MaxReloads <- 1,
    kind <- v1, world <- v2, sensor <- v3, old <- v4, saved <- v5,
    marked <- v6, told <- v7, slipped <- v8, unsure <- v9, count <- v10
Reload == INSTANCE Reload WITH
    Workers <- {"w1", "w2"}, MaxEdits <- 2, MaxReloads <- 3, MaxFaults <- 1,
    disk <- v1, seen <- v2, hot <- v3, todo <- v4, core <- v5, routed <- v6,
    bindings <- v7, registry <- v8, running <- v9, op <- v10, skipped <- v11,
    odd <- v12, count <- v13
Bootstrap == INSTANCE Bootstrap WITH
    MaxFaults <- 2,
    phase <- v1, degree <- v2, order <- v3, at <- v4, initialized <- v5,
    failed <- v6, state <- v7, early <- v8, held <- v9, faults <- v10
AgentRun == INSTANCE AgentRun WITH
    Answers <- {<<"read", "path a", "path a">>, <<"path a", "exclusive">>},
    MaxRounds <- 3, Budget <- 3, MaxFaults <- 1, MaxCrashes <- 2,
    at <- v1, round <- v2, talk <- v3, used <- v4, running <- v5, file <- v6,
    once <- v7, excuses <- v8, spent <- v9, count <- v10
Workflow == INSTANCE Workflow WITH
    Flows <- {<<"a", "b", "c">>, <<"a", "b", "a">>}, Autonomous <- {"b"},
    MaxAttempts <- 2, MaxCrashes <- 2,
    engine <- v1, flow <- v2, at <- v3, index <- v4, attempt <- v5,
    results <- v6, file <- v7, told <- v8, runs <- v9, verdict <- v10,
    crashes <- v11
GraphThread == INSTANCE GraphThread WITH
    Resumes <- {"r1", "r2"}, MaxFaults <- 1, MaxCrashes <- 1,
    tracked <- v1, next <- v2, stamp <- v3, decision <- v4, item <- v5,
    run <- v6, acted <- v7, excuses <- v8, count <- v9
Connection == INSTANCE Connection WITH
    Styles <- {"socket", "runner"}, Threshold <- 2, MaxFaults <- 4,
    style <- v1, started <- v2, at <- v3, link <- v4, breaker <- v5,
    failures <- v6, state <- v7, stopping <- v8, event <- v9, row <- v10,
    excuses <- v11, faults <- v12
Inbound == INSTANCE Inbound WITH
    Messages <- {"m1", "m2"}, Kinds <- KindsOfMessages,
    Vias <- {"ack first", "answer after", "poll"}, MaxCopies <- 2, MaxFaults <- 1, MaxCrashes <- 1,
    via <- v1, kind <- v2, durable <- v3, owed <- v4, copies <- v5,
    polled <- v6, at <- v7, mine <- v8, saved <- v9, seen <- v10,
    told <- v11, excuses <- v12, count <- v13
StreamReply == INSTANCE StreamReply WITH
    Styles <- {"slack", "url", "feishu", "dingtalk", "plain card", "wecom", "complete"},
    Chunks <- 4, MaxFaults <- 2,
    style <- v1, at <- v2, came <- v3, live <- v4, sent <- v5, reply <- v6,
    kept <- v7, faults <- v8
Outbound == INSTANCE Outbound WITH
    Last <- 3, Retries <- 1, MaxFaults <- 6,
    mode <- v1, channel <- v2, tries <- v3, got <- v4, outcome <- v5,
    events <- v6, excuses <- v7, faults <- v8
Memory == INSTANCE Memory WITH
    Callers <- {"c1", "c2", "c3", "c4"}, Key <- EventOfCaller, Kind <- KindOfEvent,
    Limit <- 1, MaxFaults <- 2,
    client <- v1, at <- v2, inflight <- v3, seen <- v4, indexed <- v5,
    told <- v6, forgot <- v7, faults <- v8
Episodes == INSTANCE Episodes WITH
    Runs <- {"r1", "r2", "r3"}, Text <- DecisionOfRun, Old <- {"o1"},
    MaxFaults <- 1, MaxCrashes <- 1,
    route <- v1, at <- v2, lock <- v3, here <- v4, away <- v5, indexed <- v6,
    faded <- v7, decay <- v8, linked <- v9, decided <- v10, faults <- v11,
    crashes <- v12
Chat == INSTANCE Chat WITH
    Modes <- {"react", "planning", "graph", "graph or react"}, Layers <- 3,
    MaxTexts <- 2, MaxFaults <- 2,
    mode <- v1, at <- v2, listed <- v3, plan <- v4, made <- v5, shown <- v6,
    texts <- v7, spawned <- v8, ends <- v9, kept <- v10, broke <- v11,
    faults <- v12
Rules == INSTANCE Rules WITH
    Runs <- {"r1", "r2"}, Flushed <- {"r2"}, Learned <- {"l1", "l2"}, Shared <- {"s1"},
    Capacity <- 2, MaxFeedback <- 1,
    status <- v1, sure <- v2, at <- v3, loaded <- v4, overtaken <- v5,
    offered <- v6, feedback <- v7
CodeCalls == INSTANCE CodeCalls WITH
    Calls <- {"c1", "c2"}, Limit <- 2, MaxFaults <- 1,
    way <- v1, phase <- v2, at <- v3, request <- v4, answer <- v5,
    heard <- v6, handling <- v7, ran <- v8, made <- v9, pending <- v10,
    current <- v11, told <- v12, again <- v13
ContextWindow == INSTANCE ContextWindow WITH
    Runs <- {"r1", "r2"}, MaxRounds <- 5, Result <- 3, Fixed <- 2, PruneAt <- 6,
    SumUpAt <- 6, Age <- 1, MaxFaults <- 1,
    encoder <- v1, at <- v2, rounds <- v3, cleared <- v4, summed <- v5,
    legacy <- v6, loaded <- v7, file <- v8, faults <- v9
ModelCalls == INSTANCE ModelCalls WITH
    Configs <- SomeConfigs, MaxEdits <- 1, MaxFaults <- 1,
    local <- v1, file <- v2, injected <- v3, at <- v4, router <- v5,
    probes <- v6, probed <- v7, client <- v8, call <- v9, excuses <- v10,
    edits <- v11, faults <- v12

-----------------------------------------------------------------------------
\* The variables a part of fewer than thirteen does not use.
rest6 == <<v7, v8, v9, v10, v11, v12, v13>>
rest7 == <<v8, v9, v10, v11, v12, v13>>
rest8 == <<v9, v10, v11, v12, v13>>
rest9 == <<v10, v11, v12, v13>>
rest10 == <<v11, v12, v13>>
rest11 == <<v12, v13>>
rest12 == <<v13>>

Init ==
    \/ part = "tasks" /\ TaskRuns!Init
         /\ v10 = 0 /\ v11 = 0 /\ v12 = 0 /\ v13 = 0
    \/ part = "dead letters" /\ DeadLetters!Init
         /\ v7 = 0 /\ v8 = 0 /\ v9 = 0 /\ v10 = 0 /\ v11 = 0 /\ v12 = 0
         /\ v13 = 0
    \/ part = "heartbeat" /\ Heartbeat!Init
         /\ v11 = 0 /\ v12 = 0 /\ v13 = 0
    \/ part = "main session" /\ MainSession!Init
         /\ v9 = 0 /\ v10 = 0 /\ v11 = 0 /\ v12 = 0 /\ v13 = 0
    \/ part = "inbox" /\ InboxMirror!Init
         /\ v10 = 0 /\ v11 = 0 /\ v12 = 0 /\ v13 = 0
    \/ part = "goals" /\ Goals!Init
         /\ v9 = 0 /\ v10 = 0 /\ v11 = 0 /\ v12 = 0 /\ v13 = 0
    \/ part = "triggers" /\ Triggers!Init
         /\ v12 = 0 /\ v13 = 0
    \/ part = "sensing" /\ Sensing!Init
         /\ v11 = 0 /\ v12 = 0 /\ v13 = 0
    \/ part = "reload" /\ Reload!Init
    \/ part = "bootstrap" /\ Bootstrap!Init
         /\ v11 = 0 /\ v12 = 0 /\ v13 = 0
    \/ part = "agent run" /\ AgentRun!Init
         /\ v11 = 0 /\ v12 = 0 /\ v13 = 0
    \/ part = "workflow" /\ Workflow!Init
         /\ v12 = 0 /\ v13 = 0
    \/ part = "graph" /\ GraphThread!Init
         /\ v10 = 0 /\ v11 = 0 /\ v12 = 0 /\ v13 = 0
    \/ part = "connection" /\ Connection!Init
         /\ v13 = 0
    \/ part = "inbound" /\ Inbound!Init
    \/ part = "stream" /\ StreamReply!Init
         /\ v9 = 0 /\ v10 = 0 /\ v11 = 0 /\ v12 = 0 /\ v13 = 0
    \/ part = "outbound" /\ Outbound!Init
         /\ v9 = 0 /\ v10 = 0 /\ v11 = 0 /\ v12 = 0 /\ v13 = 0
    \/ part = "memory" /\ Memory!Init
         /\ v9 = 0 /\ v10 = 0 /\ v11 = 0 /\ v12 = 0 /\ v13 = 0
    \/ part = "episodes" /\ Episodes!Init
         /\ v13 = 0
    \/ part = "chat" /\ Chat!Init
         /\ v13 = 0
    \/ part = "rules" /\ Rules!Init
         /\ v8 = 0 /\ v9 = 0 /\ v10 = 0 /\ v11 = 0 /\ v12 = 0 /\ v13 = 0
    \/ part = "code calls" /\ CodeCalls!Init
    \/ part = "context" /\ ContextWindow!Init
         /\ v10 = 0 /\ v11 = 0 /\ v12 = 0 /\ v13 = 0
    \/ part = "model calls" /\ ModelCalls!Init
         /\ v13 = 0

Next ==
    /\ UNCHANGED part
    /\ \/ part = "tasks" /\ TaskRuns!Next /\ UNCHANGED rest9
       \/ part = "dead letters" /\ DeadLetters!Next /\ UNCHANGED rest6
       \/ part = "heartbeat" /\ Heartbeat!Next /\ UNCHANGED rest10
       \/ part = "main session" /\ MainSession!Next /\ UNCHANGED rest8
       \/ part = "inbox" /\ InboxMirror!Next /\ UNCHANGED rest9
       \/ part = "goals" /\ Goals!Next /\ UNCHANGED rest8
       \/ part = "triggers" /\ Triggers!Next /\ UNCHANGED rest11
       \/ part = "sensing" /\ Sensing!Next /\ UNCHANGED rest10
       \/ part = "reload" /\ Reload!Next
       \/ part = "bootstrap" /\ Bootstrap!Next /\ UNCHANGED rest10
       \/ part = "agent run" /\ AgentRun!Next /\ UNCHANGED rest10
       \/ part = "workflow" /\ Workflow!Next /\ UNCHANGED rest11
       \/ part = "graph" /\ GraphThread!Next /\ UNCHANGED rest9
       \/ part = "connection" /\ Connection!Next /\ UNCHANGED rest12
       \/ part = "inbound" /\ Inbound!Next
       \/ part = "stream" /\ StreamReply!Next /\ UNCHANGED rest8
       \/ part = "outbound" /\ Outbound!Next /\ UNCHANGED rest8
       \/ part = "memory" /\ Memory!Next /\ UNCHANGED rest8
       \/ part = "episodes" /\ Episodes!Next /\ UNCHANGED rest12
       \/ part = "chat" /\ Chat!Next /\ UNCHANGED rest12
       \/ part = "rules" /\ Rules!Next /\ UNCHANGED rest7
       \/ part = "code calls" /\ CodeCalls!Next
       \/ part = "context" /\ ContextWindow!Next /\ UNCHANGED rest9
       \/ part = "model calls" /\ ModelCalls!Next /\ UNCHANGED rest12

Spec == Init /\ [][Next]_vars

\* What goes on without anything coming from outside: the work of one process,
\* and of several each on its own.  Crashes, faults, late and repeated messages
\* need not happen.
Work ==
    /\ UNCHANGED part
    /\ \/ part = "heartbeat" /\ Heartbeat!RunOnce /\ UNCHANGED rest10
       \/ part = "sensing" /\ Sensing!Poll /\ UNCHANGED rest10
       \/ part = "agent run" /\ AgentRun!Step /\ UNCHANGED rest10
       \/ part = "workflow" /\ Workflow!Step /\ UNCHANGED rest11
       \/ part = "graph" /\ GraphThread!Step /\ UNCHANGED rest9
       \/ part = "connection" /\ Connection!Step /\ UNCHANGED rest12
       \/ part = "stream" /\ StreamReply!Step /\ UNCHANGED rest8
       \/ part = "outbound" /\ Outbound!Step /\ UNCHANGED rest8
       \/ part = "chat" /\ Chat!Step /\ UNCHANGED rest12
       \/ part = "model calls" /\ ModelCalls!Step /\ UNCHANGED rest12

Actor(n) ==
    /\ UNCHANGED part
    /\ \/ n \in 1..2 /\ part = "tasks"
          /\ TaskRuns!Step(<<"t1", "t2">>[n]) /\ UNCHANGED rest9
       \/ n = 1 /\ part = "reload" /\ Reload!Scan
       \/ n \in 2..3 /\ part = "reload" /\ Reload!Step(<<"watcher", "api">>[n - 1])
       \/ n \in 1..4 /\ part = "inbound"
          /\ Inbound!Step(<<<<"m1", 1>>, <<"m1", 2>>, <<"m2", 1>>, <<"m2", 2>>>>[n])
       \/ n \in 1..4 /\ part = "memory"
          /\ Memory!Step(<<"c1", "c2", "c3", "c4">>[n]) /\ UNCHANGED rest8
       \/ n \in 1..3 /\ part = "episodes"
          /\ Episodes!Hook(<<"r1", "r2", "r3">>[n]) /\ UNCHANGED rest12
       \/ n \in 1..2 /\ part = "rules"
          /\ Rules!Hook(<<"r1", "r2">>[n]) /\ UNCHANGED rest7
       \/ n \in 1..2 /\ part = "context"
          /\ ContextWindow!Step(<<"r1", "r2">>[n]) /\ UNCHANGED rest9
       \/ n = 1 /\ part = "code calls" /\ CodeCalls!Work
       \/ n = 2 /\ part = "code calls" /\ CodeCalls!ScriptEnds

FairSpec == Spec /\ WF_vars(Work) /\ \A n \in 1..4 : WF_vars(Actor(n))

-----------------------------------------------------------------------------
(* Every part keeps to its types and bounds.                               *)
ComponentTypes ==
    /\ part = "tasks" => TaskRuns!TypeOK
    /\ part = "dead letters" => DeadLetters!TypeOK
    /\ part = "heartbeat" => Heartbeat!TypeOK
    /\ part = "main session" => MainSession!TypeOK
    /\ part = "inbox" => InboxMirror!TypeOK
    /\ part = "goals" => Goals!TypeOK
    /\ part = "triggers" => Triggers!TypeOK
    /\ part = "sensing" => Sensing!TypeOK
    /\ part = "reload" => Reload!TypeOK
    /\ part = "bootstrap" => Bootstrap!TypeOK
    /\ part = "agent run" => AgentRun!TypeOK
    /\ part = "workflow" => Workflow!TypeOK
    /\ part = "graph" => GraphThread!TypeOK
    /\ part = "connection" => Connection!TypeOK
    /\ part = "inbound" => Inbound!TypeOK
    /\ part = "stream" => StreamReply!TypeOK
    /\ part = "outbound" => Outbound!TypeOK
    /\ part = "memory" => Memory!TypeOK
    /\ part = "episodes" => Episodes!TypeOK
    /\ part = "chat" => Chat!TypeOK
    /\ part = "rules" => Rules!TypeOK
    /\ part = "code calls" => CodeCalls!TypeOK
    /\ part = "context" => ContextWindow!TypeOK
    /\ part = "model calls" => ModelCalls!TypeOK

(* Nothing a component took on is lost, and what it says of it is true:    *)
(* tasks, dead letters, inbox items, notes, facts, goals, duties, episodes,*)
(* messages, replies and checkpoints survive faults, crashes and each      *)
(* other, except for the causes their modules name.                        *)
NothingLost ==
    /\ part = "tasks" => TaskRuns!OpenHasJob /\ TaskRuns!ManifestTellsVerdict
    /\ part = "dead letters" => DeadLetters!NoneVanishes /\ DeadLetters!DiscardedIsGone
    /\ part = "heartbeat" => Heartbeat!ConsumedWasSeen
    /\ part = "main session" => MainSession!NotesKept /\ MainSession!MetaOfLastBeat
    /\ part = "inbox" => InboxMirror!ChangesKept
    /\ part = "goals" => Goals!ProjectionKept /\ Goals!ActiveIsWatched
    /\ part = "triggers" => Triggers!DutiesServed
    /\ part = "sensing" => Sensing!SavedWasTold
    /\ part = "bootstrap" => Bootstrap!HeldOverNeeds /\ Bootstrap!ReadAfterSet
    /\ part = "agent run" => AgentRun!CallsAnswered /\ AgentRun!SavedIsResumed
    /\ part = "workflow" => Workflow!ResultsInOrder /\ Workflow!ToldIsSaved
    /\ part = "graph" => GraphThread!WaitsWithItem
    /\ part = "connection" => Connection!NoLinkLeft
    /\ part = "inbound" => Inbound!NoneSilent
    /\ part = "stream" => StreamReply!ShownWhole
    /\ part = "outbound" => Outbound!OutcomeIsTrue
    /\ part = "memory" => Memory!AnnouncedIsIndexed /\ Memory!RetriedByWaiter
    /\ part = "episodes" => Episodes!EpisodesKept /\ Episodes!IndexFits
    /\ part = "chat" => Chat!TurnStored /\ Chat!AllLayersShown
    /\ part = "code calls" => CodeCalls!HeardIsTrue /\ CodeCalls!NothingAfterwards
    /\ part = "model calls" => ModelCalls!ServedByItsTier /\ ModelCalls!WishesHonoured

(* Nothing is done twice, too early or beyond its bound: dispatches,       *)
(* answers, acts of a graph, announcements, tools, reloads and starts.     *)
NothingDoubled ==
    /\ part = "tasks" => TaskRuns!LearnsWhatHappened
    /\ part = "dead letters" => DeadLetters!GivenOnce
    /\ part = "heartbeat" => Heartbeat!DispatchedOnce
    /\ part = "goals" => Goals!OneGoalPerSource
    /\ part = "sensing" => Sensing!ToldOnce
    /\ part = "reload" => Reload!OneOfEach
    /\ part = "bootstrap" => Bootstrap!NeedsFirst
    /\ part = "agent run" => AgentRun!ApartKept /\ AgentRun!BudgetKept
    /\ part = "graph" => GraphThread!ActedOnce
    /\ part = "connection" => Connection!BreakerOpens
    /\ part = "inbound" => Inbound!AnsweredOnce /\ Inbound!YesMeansTheQuestion
    /\ part = "outbound" => Outbound!FallbackDeliversOnce
    /\ part = "memory" => Memory!AnnouncedOnce
    /\ part = "episodes" => Episodes!OneDecision
    /\ part = "chat" => Chat!OneEnd
    /\ part = "rules" => Rules!CapacityKept /\ Rules!SureOfActive
    /\ part = "code calls" => CodeCalls!LimitKept /\ CodeCalls!RanOnce
    /\ part = "model calls" => ModelCalls!ProbedOnce

(* No step undoes what was settled: the work of a saved step is not done   *)
(* again, no rule revived that was put away, and the summary of a          *)
(* conversation does not shrink.                                           *)
UndoesNone ==
    /\ part = "workflow" => Workflow!RedoesNone
    /\ part = "rules" => Rules!RevivesNone
    /\ part = "context" => ContextWindow!DropsNone
NothingUndone == [][UndoesNone]_vars

(* Every task, beat, poll, run, message, reply, hook, turn and start comes *)
(* to its end under the fairness above.                                    *)
WorkDone ==
    /\ part = "tasks" => TaskRuns!Settled
    /\ part = "heartbeat" => Heartbeat!Settled
    /\ part = "sensing" => Sensing!Settled
    /\ part = "reload" => Reload!Settled
    /\ part = "agent run" => AgentRun!Ended
    /\ part = "workflow" => Workflow!Ended
    /\ part = "graph" => GraphThread!Settled
    /\ part = "connection" => Connection!Settled
    /\ part = "inbound" => Inbound!Settled
    /\ part = "stream" => StreamReply!Settled
    /\ part = "outbound" => Outbound!Settled
    /\ part = "memory" => Memory!Settled
    /\ part = "episodes" => Episodes!Settled
    /\ part = "chat" => Chat!Settled
    /\ part = "rules" => Rules!Settled
    /\ part = "code calls" => CodeCalls!Settled
    /\ part = "context" => ContextWindow!Settled
    /\ part = "model calls" => ModelCalls!Settled
WorkEnds == <>[]WorkDone
=============================================================================
