-------------------------------- MODULE Chat --------------------------------
(* One turn on /chat/stream, from the request to the saved session: the    *)
(* session is taken, EngineDispatcher runs the skill in its mode, every    *)
(* event goes to a client that may leave, and the turn is saved at the     *)
(* end.  A planning run works beside the stream and hands its progress     *)
(* over in a queue.                                                        *)
EXTENDS Naturals, FiniteSets

CONSTANTS
    Modes,          \* "react", "planning", "graph", "graph or react"
    Layers,         \* of a plan
    MaxTexts,       \* texts and tasks of a run
    MaxFaults

VARIABLES
    mode, at,
    listed,         \* is the session of no tenant
    plan,           \* of the planning run: "none", "works", "done", "raised"
    made, shown,    \* layers put in the queue, and taken out of it
    texts, spawned, \* collected by the turn
    ends,           \* ends the client was sent
    kept,           \* texts and tasks of the stored turn, if it is stored
    broke,          \* the stream raised after its end
    faults

vars == <<mode, at, listed, plan, made, shown, texts, spawned, ends, kept, broke, faults>>

Nothing == {}
Stages == {"new", "opened", "runs", "falls back", "raised", "hooks", "save",
           "done", "refused", "unsaved", "gone"}

Init ==
    /\ mode \in Modes /\ at = "new" /\ listed = FALSE
    /\ plan = "none" /\ made = 0 /\ shown = 0
    /\ texts = 0 /\ spawned = 0 /\ ends = 0 /\ kept = Nothing
    /\ broke = FALSE /\ faults = 0

Fails == faults < MaxFaults /\ faults' = faults + 1
Ends == ends' = ends + 1

\* No router, tenant, session manager or room for the service: one error.
Refused ==
    /\ at = "new" /\ at' = "refused" /\ Ends
    /\ UNCHANGED <<mode, listed, plan, made, shown, texts, spawned, kept, broke, faults>>

\* GET /chat/{thread}/tasks takes the session as a chat does, and makes one
\* that is nobody's when the thread has none.
ListTasks ==
    /\ at = "new" /\ ~listed /\ listed' = TRUE
    /\ UNCHANGED <<mode, at, plan, made, shown, texts, spawned, ends, kept, broke, faults>>

\* The user's message is added to the copy of the session in hand only.
Opens ==
    /\ at = "new" /\ at' = "opened"
    /\ UNCHANGED <<mode, listed, plan, made, shown, texts, spawned, ends, kept, broke, faults>>
\* The router finds the worker and builds its context, the manifest is saved,
\* and the engine starts.
Dispatches ==
    /\ at = "opened" /\ at' = "runs"
    /\ plan' = IF mode = "planning" THEN "works" ELSE "none"
    /\ UNCHANGED <<mode, listed, made, shown, texts, spawned, ends, kept, broke, faults>>
\* One of these raises, or the manifest is not saved after the engine ended:
\* CHAT_STREAM_ERROR, and what was collected is saved.
StreamRaises ==
    /\ at \in {"opened", "hooks"} /\ Fails
    /\ at' = "save" /\ Ends /\ broke' = (at = "hooks")
    /\ UNCHANGED <<mode, listed, plan, made, shown, texts, spawned, kept>>

Engine == at = "runs" /\ mode # "planning"
Text ==
    /\ Engine /\ texts < MaxTexts /\ texts' = texts + 1
    /\ UNCHANGED <<mode, at, listed, plan, made, shown, spawned, ends, kept, broke, faults>>
Spawn ==
    /\ Engine /\ spawned < MaxTexts /\ spawned' = spawned + 1
    /\ UNCHANGED <<mode, at, listed, plan, made, shown, texts, ends, kept, broke, faults>>
\* Finished, well or not: an engine's failure is an event.
EngineEnds ==
    /\ Engine /\ at' = "hooks" /\ Ends
    /\ UNCHANGED <<mode, listed, plan, made, shown, texts, spawned, kept, broke, faults>>

\* An engine raises: a graph falls back, or says that there is none.
GraphRaises ==
    /\ Engine /\ mode \in {"graph", "graph or react"} /\ Fails
    /\ at' = IF mode = "graph" THEN "hooks" ELSE "falls back"
    /\ ends' = IF mode = "graph" THEN ends + 1 ELSE ends
    /\ UNCHANGED <<mode, listed, plan, made, shown, texts, spawned, kept, broke>>
\* Faulty variant: the error is sent although another engine takes over.
FallBackTelling ==
    /\ at = "falls back" /\ at' = "runs" /\ mode' = "react" /\ Ends
    /\ UNCHANGED <<listed, plan, made, shown, texts, spawned, kept, broke, faults>>
\* From the beginning, whatever the graph had done.
FallBack ==
    /\ at = "falls back" /\ at' = "runs" /\ mode' = "react"
    /\ UNCHANGED <<listed, plan, made, shown, texts, spawned, ends, kept, broke, faults>>
EngineRaises ==
    /\ Engine /\ mode = "react" /\ Fails /\ at' = "raised"
    /\ UNCHANGED <<mode, listed, plan, made, shown, texts, spawned, ends, kept, broke>>
\* TaskRunner turns it into an error event.
Told ==
    /\ at = "raised" /\ at' = "hooks" /\ Ends
    /\ UNCHANGED <<mode, listed, plan, made, shown, texts, spawned, kept, broke, faults>>
\* After the end TaskRunner saves the manifest and awaits the hooks of the run,
\* whose failures it logs.
HooksEnd ==
    /\ at = "hooks" /\ at' = "save"
    /\ UNCHANGED <<mode, listed, plan, made, shown, texts, spawned, ends, kept, broke, faults>>

-----------------------------------------------------------------------------
(* _dispatch_planning                                                      *)

LayerDone ==
    /\ plan = "works" /\ made < Layers /\ made' = made + 1
    /\ UNCHANGED <<mode, at, listed, plan, shown, texts, spawned, ends, kept, broke, faults>>
PlanEnds ==
    /\ plan = "works"
    /\ \/ made = Layers /\ plan' = "done" /\ UNCHANGED faults
       \/ plan' = "raised" /\ Fails
    /\ UNCHANGED <<mode, at, listed, made, shown, texts, spawned, ends, kept, broke>>
ShowLayer ==
    /\ at = "runs" /\ shown < made /\ shown' = shown + 1
    /\ UNCHANGED <<mode, at, listed, plan, made, texts, spawned, ends, kept, broke, faults>>
\* Faulty variant: it does not wait for the queue.
PlanOver == plan \in {"done", "raised"}
PlanAndQueueOver == PlanOver /\ shown = made
\* The task is done and the queue is empty; an exception becomes events.
PlanShown ==
    /\ at = "runs" /\ mode = "planning" /\ PlanAndQueueOver
    /\ at' = "hooks" /\ Ends /\ texts' = IF plan = "done" THEN texts + 1 ELSE texts
    /\ UNCHANGED <<mode, listed, plan, made, shown, spawned, kept, broke, faults>>

-----------------------------------------------------------------------------
\* Starlette cancels the response at whatever it awaits, which no except
\* clause takes: what is not saved stays so, also when the end was sent and
\* only the hooks were still running.  A planning run goes on by itself.
ClientLeaves ==
    /\ at \notin {"new", "done", "refused", "unsaved", "gone"} /\ at' = "gone"
    /\ kept' \in {Nothing} \union (IF at = "save" THEN {{<<texts, spawned>>}} ELSE {})
    /\ UNCHANGED <<mode, listed, plan, made, shown, texts, spawned, ends, broke, faults>>

\* Faulty variant: a turn without an answer is not saved.
SaveAnswered ==
    /\ at = "save" /\ at' = "done"
    /\ kept' = IF texts = 0 THEN Nothing ELSE {<<texts, spawned>>}
    /\ UNCHANGED <<mode, listed, plan, made, shown, texts, spawned, ends, broke, faults>>
Save ==
    /\ at = "save"
    /\ \/ at' = "done" /\ kept' = {<<texts, spawned>>} /\ UNCHANGED faults
       \/ at' = "unsaved" /\ Fails /\ UNCHANGED kept
    /\ UNCHANGED <<mode, listed, plan, made, shown, texts, spawned, ends, broke>>

Step ==
    \/ Refused \/ Opens \/ Dispatches \/ EngineEnds \/ FallBack \/ Told \/ HooksEnd
    \/ PlanEnds \/ LayerDone \/ ShowLayer \/ PlanShown \/ Save
Next ==
    \/ Step \/ ListTasks \/ Text \/ Spawn \/ GraphRaises \/ EngineRaises
    \/ StreamRaises \/ ClientLeaves
Spec == Init /\ [][Next]_vars

-----------------------------------------------------------------------------
TypeOK ==
    /\ at \in Stages /\ plan \in {"none", "works", "done", "raised"}
    /\ shown <= made /\ made <= Layers /\ broke \in BOOLEAN
    /\ texts <= MaxTexts + 1 /\ spawned <= MaxTexts /\ ends <= 2 /\ faults \in 0..MaxFaults

(* A turn the client stayed for is stored, with its texts and tasks, also  *)
(* when an engine raised or had to fall back, unless the save itself fails. *)
TurnStored == at = "done" => kept = {<<texts, spawned>>}

(* Every client that stayed is sent one end, and none is sent a second one; *)
(* only a manifest that cannot be saved after the end makes it two.        *)
OneEnd == ~broke => ends <= 1 /\ (at \in {"hooks", "save", "done"} => ends = 1)

(* When a plan ends the client has seen all its layers.                    *)
AllLayersShown == mode = "planning" /\ at \in {"hooks", "save", "done"} => shown = made

(* Every turn ends. *)
Settled == at \in {"done", "refused", "unsaved", "gone"} /\ plan # "works"
=============================================================================
