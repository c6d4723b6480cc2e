----------------------------- MODULE Connection -----------------------------
(* The connection of a chat adapter that listens (Slack's socket mode,     *)
(* Feishu's websocket, DingTalk's stream): the supervisor task that        *)
(* connects, waits and connects again behind a circuit breaker, the link   *)
(* of the SDK, events that come late, and stopping the adapter meanwhile.  *)
EXTENDS Integers

CONSTANTS
    Styles,         \* "socket" (Slack), "runner" (Feishu, DingTalk)
    Threshold,      \* failures in a row that open the breaker
    MaxFaults

VARIABLES
    style,
    started,
    at,             \* supervisor: "none", "loop", "wait", "probe", "up", "failed", "over", "dead"
    link,           \* of the SDK: "none", "made", "refused", "open", "closed"
    breaker, failures,
    state,          \* _connection_state
    stopping,       \* stop is between closing the client and the cancellation
    event,          \* an event the SDK handed over waits for the loop
    row,            \* history: failures since a connection last held
    excuses,        \* history: "late event", "slow", "not closed", "orphan"
    faults

vars == <<style, started, at, link, breaker, failures, state, stopping, event,
          row, excuses, faults>>

Runner == style = "runner"
Fails == faults < MaxFaults /\ faults' = faults + 1

Init ==
    /\ style \in Styles
    /\ started = FALSE /\ at = "none" /\ link = "none"
    /\ breaker = "closed" /\ failures = 0
    /\ state = "stopped" /\ stopping = FALSE /\ event = FALSE
    /\ row = 0 /\ excuses = {} /\ faults = 0

\* start, once: the manager makes a new adapter where it starts one again.
\* The breaker is reset; without the SDK or its token there is no supervisor.
Start ==
    /\ at = "none" /\ ~started /\ ~stopping
    /\ started' = TRUE /\ breaker' = "closed" /\ failures' = 0
    /\ \/ at' = "loop" /\ state' = "starting"
       \/ at' = "none" /\ state' = "degraded"
    /\ UNCHANGED <<style, link, stopping, event, row, excuses, faults>>

-----------------------------------------------------------------------------
Over == /\ at' = "over" /\ state' = "stopped"
        /\ UNCHANGED <<link, breaker, failures, row>>
\* A client of its own for each attempt.
Attempt == at' = "probe" /\ link' = "made" /\ state' = "connecting"

\* before_attempt: an open breaker lets one attempt through when its time is
\* over; a timer that came early is waited for.
BeforeAttempt ==
    /\ at = "loop"
    /\ \/ ~started /\ Over
       \/ /\ started /\ breaker = "open" /\ at' = "wait" /\ state' = "reconnecting"
          /\ UNCHANGED <<link, breaker, failures, row>>
       \/ /\ started /\ Attempt /\ UNCHANGED <<failures, row>>
          /\ breaker' = IF breaker = "open" THEN "half_open" ELSE breaker
    /\ UNCHANGED <<style, started, stopping, event, excuses, faults>>
WaitEnds ==
    /\ at = "wait"
    /\ \/ ~started /\ Over
       \/ started /\ Attempt /\ UNCHANGED <<breaker, failures, row>>
    /\ UNCHANGED <<style, started, stopping, event, excuses, faults>>

LinkOpens ==
    /\ link = "made" /\ link' = "open"
    /\ UNCHANGED <<style, started, at, breaker, failures, state, stopping, event,
                   row, excuses, faults>>
\* The platform closes the link, or it cannot be opened.
LinkCloses ==
    /\ link \in {"made", "open"} /\ Fails
    /\ link' = IF link = "made" THEN "refused" ELSE "closed"
    /\ UNCHANGED <<style, started, at, breaker, failures, state, stopping, event,
                   row, excuses>>

-----------------------------------------------------------------------------
\* register_failure.  Faulty variant: off by one.
FailureLate ==
    /\ failures' = failures + 1
    /\ breaker' = IF breaker = "half_open" \/ failures' > Threshold THEN "open" ELSE "closed"
RegisterFailure ==
    /\ failures' = failures + 1
    /\ breaker' = IF breaker = "half_open" \/ failures' >= Threshold THEN "open" ELSE "closed"
RegisterSuccess == breaker' = "closed" /\ failures' = 0

\* Slack's state keeps saying connected when a socket was closed.
Failed(closedSocket) ==
    /\ RegisterFailure /\ at' = "failed" /\ row' = row + 1
    /\ state' = IF closedSocket THEN state
                ELSE IF ~Runner \/ breaker' # "open" THEN "reconnecting" ELSE "degraded"

\* After the probe, however far the SDK is.  Slack awaits connect() first and
\* takes its return for success; the runners look whether the SDK's task is
\* over, and a slow refusal is a success until it comes.
ProbeEnds ==
    /\ at = "probe" /\ (link = "made" => Runner) /\ UNCHANGED link
    /\ IF ~started THEN at' = "over" /\ state' = "stopped" /\ UNCHANGED <<breaker, failures, row>>
       ELSE IF link = "refused" \/ (Runner /\ link = "closed") THEN Failed(FALSE)
       ELSE /\ RegisterSuccess /\ at' = "up" /\ state' = "connected"
            /\ row' = IF link = "made" THEN row ELSE 0
    /\ excuses' = IF link = "made" THEN excuses \union {"slow"} ELSE excuses
    /\ UNCHANGED <<style, started, stopping, event, faults>>

\* The link closed under it.
UpEnds ==
    /\ at = "up" /\ link \in {"refused", "closed"}
    /\ IF ~started THEN Over ELSE Failed(~Runner) /\ UNCHANGED link
    /\ UNCHANGED <<style, started, stopping, event, excuses, faults>>

\* _sleep_after_failure, and the finally of the attempt: Slack closes its
\* client there, and a close that raises ends the supervisor.
SleepEnds ==
    /\ at = "failed" /\ link' = "none"
    /\ \/ at' = "loop" /\ UNCHANGED <<excuses, faults>>
       \/ /\ ~Runner /\ Fails /\ at' = "dead"
          /\ excuses' = excuses \union {"not closed"}
    /\ UNCHANGED <<style, started, breaker, failures, state, stopping, event, row>>

-----------------------------------------------------------------------------
\* The SDK's thread hands an event to the loop; the loop takes it for a sign
\* that the link is up.
EventComes ==
    /\ Runner /\ link = "open" /\ ~event /\ event' = TRUE
    /\ UNCHANGED <<style, started, at, link, breaker, failures, state, stopping,
                   row, excuses, faults>>
EventHandled ==
    /\ event /\ event' = FALSE
    /\ IF state = "connected" THEN UNCHANGED <<breaker, failures, state>>
       ELSE RegisterSuccess /\ state' = "connected"
    /\ row' = IF link = "open" THEN 0 ELSE row
    /\ excuses' = IF link = "open" /\ started THEN excuses ELSE excuses \union {"late event"}
    /\ UNCHANGED <<style, started, at, link, stopping, faults>>

\* stop.  Slack's supervisor is cancelled at once and its finally closes the
\* client.  The runners first close the client, if it lets itself be closed; a
\* link the SDK is still opening is not.  Faulty variant: they only cancel.
Stops == started /\ ~stopping /\ started' = FALSE /\ state' = "stopped"
StopCancelOnly ==
    /\ Stops /\ stopping' = TRUE
    /\ UNCHANGED <<style, at, link, breaker, failures, event, row, excuses, faults>>
Stop ==
    /\ Stops
    /\ IF Runner THEN stopping' = TRUE /\ UNCHANGED at ELSE at' = "over" /\ UNCHANGED stopping
    /\ \/ /\ link = "made" /\ Runner /\ UNCHANGED <<link, faults>>
          /\ excuses' = excuses \union {"orphan"}
       \/ /\ link = "open" /\ Fails /\ UNCHANGED link
          /\ excuses' = excuses \union {"not closed"}
       \/ /\ ~(link = "made" /\ Runner)
          /\ link' = IF link = "none" THEN "none" ELSE "closed"
          /\ UNCHANGED <<excuses, faults>>
    /\ UNCHANGED <<style, breaker, failures, event, row>>

\* The runners' cancellation, after the client was closed: their SDK runs in a
\* thread that does not notice.
Cancel ==
    /\ stopping /\ stopping' = FALSE /\ at' = "over"
    /\ UNCHANGED <<style, started, link, breaker, failures, state, event, row, excuses, faults>>

Step == \/ BeforeAttempt \/ WaitEnds \/ LinkOpens \/ ProbeEnds \/ UpEnds \/ SleepEnds \/ Cancel
Next == Start \/ Step \/ LinkCloses \/ EventComes \/ EventHandled \/ Stop
Spec == Init /\ [][Next]_vars

-----------------------------------------------------------------------------
TypeOK ==
    /\ at \in {"none", "loop", "wait", "probe", "up", "failed", "over", "dead"}
    /\ link \in {"none", "made", "refused", "open", "closed"}
    /\ breaker \in {"closed", "open", "half_open"}
    /\ state \in {"stopped", "starting", "connecting", "connected", "reconnecting", "degraded"}
    /\ failures \in 0..MaxFaults /\ faults \in 0..MaxFaults

(* As many connections in a row as the threshold says do not hold, and the *)
(* breaker is open before the next attempt is made, unless an event that   *)
(* came late, or a probe shorter than the refusal, counted as a success.   *)
BreakerOpens ==
    excuses \intersect {"late event", "slow"} = {} /\ row >= Threshold /\ at \in {"failed", "loop"}
        => breaker = "open"

(* A stopped adapter has no link left open, unless closing it raised or    *)
(* the SDK was still opening it when the adapter stopped.                  *)
NoLinkLeft ==
    ~started /\ ~stopping /\ excuses \intersect {"not closed", "orphan"} = {}
        => link # "open"

(* A supervisor that runs gets its link in the end, once the platform      *)
(* accepts it; only a client whose close raises ends it for good.          *)
Settled == IF started THEN at \in {"up", "none", "dead"} ELSE at \in {"none", "over"}
=============================================================================
