----------------------------- MODULE Approvals -----------------------------
(***************************************************************************)
(* The inbox of one worker and everybody who decides over its items:       *)
(*  - HeartbeatRunner.run_once fetches the pending items, dispatches tasks *)
(*    for them, runs a cognitive turn and marks them consumed;             *)
(*  - InterruptBridge.create_inbox writes an item when a graph pauses;     *)
(*  - enqueue_task_confirmation writes one for a gated task;               *)
(*  - /approve_confirmation and /reject_confirmation claim an item, submit *)
(*    the task or the resume of the graph, and mark the item consumed;     *)
(*  - the runner of submit_langgraph_resume, a job of the WorkerScheduler, *)
(*    checks the state digest, delivers the decision to the graph and      *)
(*    marks the item.                                                      *)
(* Between two steps of any of them another may run, a claim may age       *)
(* beyond the processing timeout, or the process may be killed: the items  *)
(* and the graph checkpoints survive, the rest does not.  With Redis, the  *)
(* sensors write through a store object of their own, which loads the copy *)
(* in Redis and writes it over the file (InboxMirror has its steps).       *)
(***************************************************************************)
EXTENDS Inbox

CONSTANTS
    Kind,              \* "fact", "confirmation" or "interrupt"
    Commands,          \* invocations of the two commands
    HeartbeatEnabled,  \* APScheduler is there to run heartbeats
    Modes,             \* the deployments and faults considered, see mode
    MaxOpenings        \* bound: openings are counted up to here

ASSUME ApprovalConstants ==
    /\ Kind \in [Items -> {"fact", "confirmation", "interrupt"}]
    /\ IsFiniteSet(Commands)
    /\ HeartbeatEnabled \in BOOLEAN
    /\ Modes \subseteq [raises : BOOLEAN, redis : BOOLEAN, retries : Nat,
                     calls : Nat, kills : Nat]
    /\ MaxOpenings \in Nat /\ MaxOpenings >= Cardinality(Commands) + 2

VARIABLES
    written,   \* by its writer: "no", "once", "done", or "broken" off
    mirror,    \* the copy the sensors' store would write over the file
    moved,     \* the graph went on and its whitelisted state changed
    cmd,       \* a command: its step and its item
    job,       \* the resume job a command submitted
    tries,     \* its retry_count
    hb,        \* run_once: "idle", "fetched" or "dispatched"
    hbItems,   \* the items it fetched
    crashes,
    mode,      \* raises: a write of the inbox or a publication may raise;
               \* redis: it is configured; retries: of the scheduler;
               \* calls and kills: bounds on the calls made and on crashes
    decided,   \* history: the items approved or rejected
    acted,     \* history: those, and the items the heartbeat dispatched
    lost,      \* history: items dropped by a torn or overwritten file
    openings,  \* history: how often the item may yet be acted on
    again      \* history: the items that may be acted on once more; see Again

jobVars == <<job, tries>>
hbVars == <<hb, hbItems>>
faults == <<crashes, mode>>
acts == <<decided, acted, openings, again>>
history == <<acts, lost>>
vars == <<inboxVars, written, mirror, moved, cmd, jobVars, hbVars, faults, history>>

Opened(S) ==
    [i \in Items |-> IF i \in S /\ openings[i] < MaxOpenings
                     THEN openings[i] + 1 ELSE openings[i]]

\* The items of S may be acted on once more, for one of these causes: a claim
\* expired under its holder; the bridge wrote an item again that somebody had
\* taken; who acted on it failed after acting; the scheduler retries a resume;
\* the sensors' store made it pending again.
Again(S) ==
    /\ openings' = Opened(S)
    /\ again' = again \union S
    /\ UNCHANGED <<decided, acted>>

\* Acting on the items of S uses up an opening of each.
Used(S) == [i \in Items |-> IF i \in S THEN openings[i] - 1 ELSE openings[i]]

ActOn(S) == openings' = Used(S) /\ acted' = acted \union S /\ UNCHANGED again

Decide(i) == ActOn({i}) /\ decided' = decided \union {i}

InFile == {i \in Items : status[i] # "absent"}

\* An operation of the inbox that writes, and raises: before the file is
\* opened, or when it has been truncated.
TornFile == Torn /\ lost' = lost \union InFile
Raised == mode.raises /\ (TornFile \/ UNCHANGED <<inboxVars, lost>>)

OfKind(k) == {i \in Items : Kind[i] = k}

Init ==
    /\ InboxInit
    /\ written = [i \in Items |-> "no"]
    /\ mirror = [status |-> status, stale |-> stale]
    /\ moved = [i \in Items |-> FALSE]
    /\ cmd = [c \in Commands |-> [pc |-> "idle", item |-> NoItem]]
    /\ job = [c \in Commands |-> "none"]
    /\ tries = [c \in Commands |-> 0]
    /\ hb = "idle"
    /\ hbItems = {}
    /\ crashes = 0
    /\ mode \in Modes
    /\ decided = {} /\ acted = {} /\ lost = {}
    /\ openings = [i \in Items |-> 0]
    /\ again = {}

-----------------------------------------------------------------------------
(* Writers and listers.                                                    *)

FirstWrite(i) ==
    /\ written[i] = "no"
    /\ Write(i)
    /\ openings' = Opened({i})
    /\ UNCHANGED <<decided, acted, again>>

\* A fact found by a goal check, or the confirmation of a gated task, is
\* written once.
WriteItem(i) ==
    /\ Kind[i] # "interrupt"
    /\ FirstWrite(i)
    /\ written' = [written EXCEPT ![i] = "done"]
    /\ UNCHANGED <<mirror, moved, cmd, jobVars, hbVars, faults, lost>>

\* A graph pauses: the item is written without its prompt, inbox.item_written
\* is published, and the item is written again with the prompt, as PENDING
\* whatever became of it since.  An exception ends the pause there.
BridgeWrites(i) ==
    /\ Kind[i] = "interrupt"
    /\ \/ /\ FirstWrite(i)
          /\ \E w \in {"once"} \union (IF mode.raises THEN {"broken"} ELSE {}) :
                written' = [written EXCEPT ![i] = w]
          /\ UNCHANGED lost
       \/ /\ written[i] = "once"
          /\ Write(i)
          /\ Again({i} \ {k \in Items : status[k] = "PENDING"})
          /\ written' = [written EXCEPT ![i] = "done"]
          /\ UNCHANGED lost
       \/ /\ written[i] = "once"
          /\ Raised
          /\ written' = [written EXCEPT ![i] = "broken"]
          /\ UNCHANGED acts
    /\ UNCHANGED <<mirror, moved, cmd, jobVars, hbVars, faults>>

\* Pending confirmations are listed, by a command or before one is enqueued.
ListItems ==
    /\ Expired # {}
    /\ ListPending
    /\ Again(Expired)
    /\ UNCHANGED <<written, mirror, moved, cmd, jobVars, hbVars, faults, lost>>

\* A write, list or fetch tears the file, and its caller is none of those below.
CallerTears ==
    /\ mode.raises
    /\ InFile # {}
    /\ TornFile
    /\ UNCHANGED <<written, mirror, moved, cmd, jobVars, hbVars, faults, acts>>

\* The store of the sensors finds none of Items in Redis and loads the file;
\* it does so as well when Redis raises or has lost its memory.
SensorLoads ==
    /\ mode.redis
    /\ mode.raises \/ \A i \in Items : mirror.status[i] = "absent"
    /\ mirror' = [status |-> status, stale |-> stale]
    /\ UNCHANGED <<inboxVars, written, moved, cmd, jobVars, hbVars, faults, history>>

\* It adds a fact, none of Items, to what it loaded and, after the await of
\* Redis, writes all of it over the file.
SensorWrites ==
    /\ mode.redis
    /\ WriteCopy(mirror)
    /\ lost' = lost \union {i \in InFile : mirror.status[i] = "absent"}
    /\ Again({i \in Items : mirror.status[i] = "PENDING" /\ status[i] # "PENDING"})
    /\ UNCHANGED <<written, mirror, moved, cmd, jobVars, hbVars, faults>>

-----------------------------------------------------------------------------
(* HeartbeatRunner.run_once.                                               *)

\* Faulty variant: confirmations are fetched with the rest.
NotForHeartbeatNothing == {}

NotForHeartbeat == OfKind("confirmation")

HeartbeatFetch ==
    /\ HeartbeatEnabled
    /\ hb = "idle"
    /\ \E S \in SUBSET Items :
          /\ FetchPending(NotForHeartbeat, S)
          /\ hbItems' = S
          /\ hb' = IF S = {} THEN "idle" ELSE "fetched"
    /\ Again(Expired)
    /\ UNCHANGED <<written, mirror, moved, cmd, jobVars, faults, lost>>

\* Tasks are submitted for the items that call for one and were not
\* notified before, in a turn that may stop half way: an item with a prompt,
\* as an interrupt has, calls for one.
HeartbeatDispatch ==
    /\ hb = "fetched"
    /\ hb' = "dispatched"
    /\ \E S \in SUBSET hbItems : ActOn(S)
    /\ UNCHANGED <<inboxVars, written, mirror, moved, cmd, jobVars, hbItems, faults, decided, lost>>

HeartbeatEnds ==
    /\ hb = "dispatched"
    /\ hb' = "idle"
    /\ hbItems' = {}
    /\ MarkConsumed(hbItems)
    /\ UNCHANGED <<written, mirror, moved, cmd, jobVars, faults, history>>

\* The dispatch, the cognitive turn or the mark raises: all the items go
\* back, those acted on included.
HeartbeatFails ==
    /\ hb \in {"fetched", "dispatched"}
    /\ hb' = "idle"
    /\ hbItems' = {}
    /\ Raised \/ (RequeueProcessing(hbItems) /\ UNCHANGED lost)
    /\ Again(IF hb = "dispatched" THEN hbItems ELSE {})
    /\ UNCHANGED <<written, mirror, moved, cmd, jobVars, faults>>

-----------------------------------------------------------------------------
(* The two commands.                                                       *)

\* The user names any identifier; an interrupt's is in the file and in
\* inbox.item_written from its first write on.
CommandClaims(c, i) ==
    /\ cmd[c].pc = "idle"
    /\ Cardinality({d \in Commands : cmd[d].pc # "idle"}) < mode.calls
    /\ \/ /\ ClaimPending(i)
          /\ cmd' = [cmd EXCEPT ![c] = [pc |-> "claimed", item |-> i]]
       \/ /\ ClaimFails(i)
          /\ cmd' = [cmd EXCEPT ![c].pc = "done"]
    /\ Again(Expired)
    /\ UNCHANGED <<written, mirror, moved, jobVars, hbVars, faults, lost>>

\* Not an approval item, an invalid payload, or the scheduler did not take
\* the job: the claim is given back, if that write succeeds.
CommandGivesBack(c) ==
    /\ cmd[c].pc = "claimed"
    /\ Raised \/ (RequeueProcessing({cmd[c].item}) /\ UNCHANGED lost)
    /\ cmd' = [cmd EXCEPT ![c].pc = "done"]
    /\ UNCHANGED <<written, mirror, moved, jobVars, hbVars, faults, acts>>

\* The task of an approved confirmation is submitted; a rejected one is
\* saved as failed.
CommandDecides(c) ==
    /\ cmd[c].pc = "claimed"
    /\ Kind[cmd[c].item] = "confirmation"
    /\ Decide(cmd[c].item)
    /\ cmd' = [cmd EXCEPT ![c].pc = "decided"]
    /\ UNCHANGED <<inboxVars, written, mirror, moved, jobVars, hbVars, faults, lost>>

\* Whether or not the mark is written, the decision stands.
CommandMarks(c) ==
    /\ cmd[c].pc = "decided"
    /\ Raised \/ (MarkConsumed({cmd[c].item}) /\ UNCHANGED lost)
    /\ cmd' = [cmd EXCEPT ![c].pc = "done"]
    /\ UNCHANGED <<written, mirror, moved, jobVars, hbVars, faults, acts>>

\* The resume of a graph becomes a job of the scheduler.
CommandSubmitsResume(c) ==
    /\ cmd[c].pc = "claimed"
    /\ Kind[cmd[c].item] = "interrupt"
    /\ job' = [job EXCEPT ![c] = "waiting"]
    /\ cmd' = [cmd EXCEPT ![c].pc = "done"]
    /\ UNCHANGED <<inboxVars, written, mirror, moved, tries, hbVars, faults, history>>

-----------------------------------------------------------------------------
(* The runner of submit_langgraph_resume.                                  *)

\* Faulty variant: one retry too many.
RetriesLeftOffByOne(c) == tries[c] <= mode.retries

RetriesLeft(c) == tries[c] < mode.retries

\* An exception leaves the runner, or the publication after it: the
\* scheduler tries the job again, and the item may be acted on again.
Retry(c) ==
    /\ job' = [job EXCEPT ![c] = IF RetriesLeft(c) THEN "waiting" ELSE "done"]
    /\ tries' = [tries EXCEPT ![c] = IF RetriesLeft(c) THEN @ + 1 ELSE @]

RetryOpens(c) == Retry(c) /\ Again(IF RetriesLeft(c) THEN {cmd[c].item} ELSE {})

\* The runner returns success; its completion is still to be published.
Returns(c) == job' = [job EXCEPT ![c] = "returned"] /\ UNCHANGED tries

\* The digest of the checkpoint is the one the item was written with.
ResumeChecks(c) ==
    /\ job[c] = "waiting"
    /\ ~moved[cmd[c].item]
    /\ job' = [job EXCEPT ![c] = "checked"]
    /\ UNCHANGED <<inboxVars, written, mirror, moved, cmd, tries, hbVars, faults, history>>

\* Thread or skill not found, or the state has drifted: an ERROR event, the
\* item is pending again and the runner returns success.
ResumeRefused(c) ==
    /\ job[c] = "waiting"
    /\ MarkError(cmd[c].item)
    /\ Returns(c)
    /\ UNCHANGED <<written, mirror, moved, cmd, hbVars, faults, history>>

\* Loading the checkpoint or building the graph raises: the item is pending
\* again and the job is retried as well.  Without an engine, or when marking
\* raises, the item is not made pending.
ResumeRaises(c) ==
    /\ job[c] = "waiting"
    /\ \/ MarkError(cmd[c].item) /\ RetryOpens(c) /\ UNCHANGED lost
       \/ (Raised \/ UNCHANGED <<inboxVars, lost>>) /\ Retry(c) /\ UNCHANGED acts
    /\ UNCHANGED <<written, mirror, moved, cmd, hbVars, faults>>

ResumeDelivers(c) ==
    /\ job[c] = "checked"
    /\ job' = [job EXCEPT ![c] = "streaming"]
    /\ Decide(cmd[c].item)
    /\ UNCHANGED <<inboxVars, written, mirror, moved, cmd, tries, hbVars, faults, lost>>

\* The graph runs to its end or to the next pause, and the item is consumed;
\* or it fails on the way, and the item is pending again although the
\* decision was delivered.  Marking is outside the runner's try: when it
\* raises, the scheduler retries a decision already delivered.
ResumeEnds(c) ==
    LET i == cmd[c].item IN
    /\ job[c] = "streaming"
    /\ moved' \in {moved, [moved EXCEPT ![i] = TRUE]}
    /\ \/ MarkConsumed({i}) /\ Returns(c) /\ UNCHANGED history
       \/ MarkError(i) /\ Returns(c) /\ Again({i}) /\ UNCHANGED lost
       \/ Raised /\ RetryOpens(c)
    /\ UNCHANGED <<written, mirror, cmd, hbVars, faults>>

\* The completion is published: a filter of a subscriber that raises has the
\* whole job retried, whatever became of the item.
ResumeCompletes(c) ==
    /\ job[c] = "returned"
    /\ \/ /\ job' = [job EXCEPT ![c] = "done"]
          /\ UNCHANGED <<tries, acts>>
       \/ mode.raises /\ RetryOpens(c)
    /\ UNCHANGED <<inboxVars, written, mirror, moved, cmd, hbVars, faults, lost>>

-----------------------------------------------------------------------------
\* The claim in the copy is the same or an older one.
Age(i) ==
    /\ ClaimAges(i)
    /\ mirror' = [mirror EXCEPT !.stale[i] = mirror.status[i] = "PROCESSING"]
    /\ UNCHANGED <<written, moved, cmd, jobVars, hbVars, faults, history>>

\* The process is killed, in the middle of a write or elsewhere, and started
\* again.
Crash ==
    /\ crashes < mode.kills
    /\ crashes' = crashes + 1
    /\ cmd' = [c \in Commands |-> IF cmd[c].pc = "idle" THEN cmd[c]
                                  ELSE [cmd[c] EXCEPT !.pc = "done"]]
    /\ job' = [c \in Commands |-> IF job[c] = "none" THEN "none" ELSE "done"]
    /\ hb' = "idle"
    /\ hbItems' = {}
    /\ written' = [i \in Items |-> IF written[i] = "once" THEN "broken" ELSE written[i]]
    /\ TornFile \/ UNCHANGED <<inboxVars, lost>>
    /\ UNCHANGED <<mirror, moved, tries, mode, acts>>

Heartbeat == HeartbeatFetch \/ HeartbeatDispatch \/ HeartbeatEnds \/ HeartbeatFails

Command(c) ==
    \/ \E i \in Items : CommandClaims(c, i)
    \/ CommandGivesBack(c) \/ CommandDecides(c) \/ CommandMarks(c)
    \/ CommandSubmitsResume(c)

Resume(c) ==
    \/ ResumeChecks(c) \/ ResumeRefused(c) \/ ResumeRaises(c)
    \/ ResumeDelivers(c) \/ ResumeEnds(c) \/ ResumeCompletes(c)

Next ==
    \/ \E i \in Items : WriteItem(i) \/ BridgeWrites(i) \/ Age(i)
    \/ ListItems \/ CallerTears \/ SensorLoads \/ SensorWrites
    \/ Heartbeat
    \/ \E c \in Commands : Command(c) \/ Resume(c)
    \/ Crash

Spec == Init /\ [][Next]_vars

\* Heartbeats run at an interval, their turns end, and clocks run.
Fairness ==
    /\ WF_vars(HeartbeatFetch)
    /\ WF_vars(HeartbeatDispatch \/ HeartbeatEnds \/ HeartbeatFails)
    /\ \A i \in Items : WF_vars(Age(i))

FairSpec == Spec /\ Fairness

-----------------------------------------------------------------------------
(* Properties.                                                             *)

\* Every variable has its type.
TypeOK ==
    /\ InboxTypeOK
    /\ written \in [Items -> {"no", "once", "done", "broken"}]
    /\ mirror \in [status : [Items -> ItemStatus], stale : [Items -> BOOLEAN]]
    /\ moved \in [Items -> BOOLEAN]
    /\ cmd \in [Commands -> [pc : {"idle", "claimed", "decided", "done"},
                             item : Items \union {NoItem}]]
    /\ job \in [Commands -> {"none", "waiting", "checked", "streaming", "returned", "done"}]
    /\ tries \in [Commands -> 0..mode.retries]
    /\ hb \in {"idle", "fetched", "dispatched"}
    /\ hbItems \subseteq Items
    /\ mode \in Modes
    /\ crashes \in 0..mode.kills
    /\ decided \subseteq acted /\ acted \subseteq Items
    /\ lost \subseteq Items /\ again \subseteq Items
    /\ openings \in [Items -> 0..MaxOpenings]

\* A confirmation that was written is there for the user until somebody
\* approved or rejected it: heartbeats, failed writes, expired claims and
\* crashes never consume it.  It vanishes undecided in two ways: a write tore
\* the file it was in, or the sensors' store wrote over it a copy without it.
ConfirmationsDecided ==
    \A i \in OfKind("confirmation") :
        /\ status[i] = "CONSUMED" => i \in decided
        /\ status[i] = "absent" /\ written[i] = "done" => i \in lost

\* The same for the interrupt of a graph: docs/ARCHITECTURE.md:248 has it
\* resolved by /approve_confirmation and /reject_confirmation.
InterruptsDecided ==
    \A i \in OfKind("interrupt") : status[i] = "CONSUMED" => i \in decided

\* Who is about to act on an item: anybody if it is pending, the commands
\* that hold a claim, the resume jobs not yet delivered, the heartbeat.
Holders(i) == {c \in Commands : cmd[c].item = i /\ (cmd[c].pc = "claimed" \/ job[c] \in {"waiting", "checked"})}

Outstanding(i) ==
    Cardinality(Holders(i))
  + (IF hb = "fetched" /\ i \in hbItems THEN 1 ELSE 0)
  + (IF status[i] = "PENDING" THEN 1 ELSE 0)

\* Nobody acts on an item without an opening of his own, and the openings
\* beyond the first have one of the named causes: without them an item, once
\* acted on, is not pending again, nor is anybody about to act on it, and of
\* several who may act only one is ever there.
ActsBacked ==
    \A i \in Items :
        /\ Outstanding(i) <= openings[i]
        /\ i \notin again => Outstanding(i) + (IF i \in acted THEN 1 ELSE 0) <= 1

\* No claim on a confirmation is for ever: its command or the timeout ends
\* it, also when the process died, and a user can decide again.
ClaimsEnd ==
    \A i \in OfKind("confirmation") :
        (status[i] = "PROCESSING") ~> (status[i] # "PROCESSING")
=============================================================================
