------------------------------ MODULE CodeCalls ------------------------------
(* The tool calls of a script that execute_code runs in a process of its   *)
(* own: over a socket, each connection handled at once, or, where sockets  *)
(* are forbidden, as request and response files that one poller reads.     *)
EXTENDS Integers, FiniteSets

CONSTANTS Calls, Limit, MaxFaults

VARIABLES
    way,        \* "socket", "old socket" (Python before 3.12.1) or "files"
    phase,      \* "runs", and once the script is over "over", "draining", "last", "closed"
    at,         \* of a call, in the script: "new", "writes", "waits", "done"
    request,    \* its file or line: "none", "torn", "whole"
    answer,     \* "none", "torn", "error", "result"
    heard,      \* what the call returned in the script
    handling,   \* calls whose tool runs now
    ran,        \* history: how often the tool of a call was run
    made,       \* calls_made
    pending,    \* files: the poller's list
    current,    \* files: the request it is on
    told,       \* calls_made as the outcome tells it, -1 before
    again       \* history: requests whose file could not be removed

vars == <<way, phase, at, request, answer, heard, handling, ran, made, pending, current, told, again>>

Init ==
    /\ way \in {"socket", "old socket", "files"} /\ phase = "runs"
    /\ at = [c \in Calls |-> "new"] /\ request = [c \in Calls |-> "none"]
    /\ answer = [c \in Calls |-> "none"] /\ heard = [c \in Calls |-> "none"]
    /\ handling = {} /\ ran = [c \in Calls |-> 0] /\ made = 0
    /\ pending = {} /\ current = {} /\ told = -1 /\ again = {}

\* _rpc in the script: a file is seen before it is written to its end, a
\* line of the socket is read whole.
Writes(c) ==
    /\ at[c] = "new" /\ at' = [at EXCEPT ![c] = "writes"]
    /\ request' = [request EXCEPT ![c] = IF way = "files" THEN "torn" ELSE "none"]
    /\ UNCHANGED <<answer, heard>>
\* A file that was answered and removed is completed unseen.
Sent(c) ==
    /\ at[c] = "writes" /\ at' = [at EXCEPT ![c] = "waits"]
    /\ request' = [request EXCEPT ![c] = IF way = "files" /\ @ = "none" THEN @ ELSE "whole"]
    /\ UNCHANGED <<answer, heard>>
\* A response file read before it is written to its end raises; one read
\* whole is removed.
Reads(c) ==
    /\ at[c] = "waits" /\ answer[c] # "none" /\ at' = [at EXCEPT ![c] = "done"]
    /\ heard' = [heard EXCEPT ![c] = IF answer[c] = "torn" THEN "error" ELSE answer[c]]
    /\ answer' = [answer EXCEPT ![c] = IF way = "files" /\ @ # "torn" THEN "none" ELSE @]
    /\ UNCHANGED request
\* Files only: the deadline of _rpc.
GivesUp(c) ==
    /\ way = "files" /\ at[c] = "waits" /\ answer[c] = "none"
    /\ heard' = [heard EXCEPT ![c] = "error"] /\ at' = [at EXCEPT ![c] = "done"]
    /\ UNCHANGED <<request, answer>>
Script(c) ==
    /\ phase = "runs" /\ (Writes(c) \/ Sent(c) \/ Reads(c) \/ GivesUp(c))
    /\ UNCHANGED <<way, phase, handling, ran, made, pending, current, told, again>>
\* It ends, or ProcessSandbox kills it at its timeout.
ScriptEnds ==
    /\ phase = "runs" /\ phase' = "over"
    /\ UNCHANGED <<way, at, request, answer, heard, handling, ran, made, pending, current, told, again>>

\* What the bridge turns to: any line, or the files of its list one by one.
Turn(c) ==
    /\ request[c] # "none"
    /\ IF way = "files"
       THEN /\ current = {} /\ c \in pending
            /\ current' = {c} /\ pending' = pending \ {c} /\ UNCHANGED request
       ELSE /\ phase \in {"runs", "over"} /\ request' = [request EXCEPT ![c] = "none"]
            /\ UNCHANGED <<current, pending>>

\* Faulty variant: the call that reaches the limit is let through.
HandleOneMore(c) ==
    /\ Turn(c) /\ request[c] = "whole" /\ made' = made + 1
    /\ \/ made <= Limit /\ handling' = handling \union {c} /\ ran' = [ran EXCEPT ![c] = @ + 1]
          /\ UNCHANGED answer
       \/ answer' = [answer EXCEPT ![c] = "error"] /\ UNCHANGED <<handling, ran>>
    /\ UNCHANGED <<way, phase, at, heard, told, again>>
\* handle_request: beyond the limit, not enabled or denied by the pipeline,
\* or the tool starts.
Handle(c) ==
    /\ Turn(c) /\ request[c] = "whole" /\ made' = made + 1
    /\ \/ made' <= Limit /\ handling' = handling \union {c} /\ ran' = [ran EXCEPT ![c] = @ + 1]
          /\ UNCHANGED answer
       \/ answer' = [answer EXCEPT ![c] = "error"] /\ UNCHANGED <<handling, ran>>
    /\ UNCHANGED <<way, phase, at, heard, told, again>>
\* A file that is not whole is no JSON.
Invalid(c) ==
    /\ way = "files" /\ Turn(c) /\ request[c] = "torn"
    /\ answer' = [answer EXCEPT ![c] = "error"]
    /\ UNCHANGED <<way, phase, at, heard, handling, ran, made, told, again>>
\* The executor returns a result or its error; a response file is there
\* before it is whole.
ToolEnds(c) ==
    /\ c \in handling
    /\ \/ way = "files" /\ answer[c] # "torn" /\ answer' = [answer EXCEPT ![c] = "torn"] /\ UNCHANGED handling
       \/ /\ way = "files" => answer[c] = "torn"
          /\ \E r \in {"result", "error"} : answer' = [answer EXCEPT ![c] = r]
          /\ handling' = handling \ {c}
    /\ UNCHANGED <<way, phase, at, request, heard, ran, made, pending, current, told, again>>

\* Faulty variant: the answered request stays where it is.
RemoveNever(c) ==
    /\ current = {c} /\ c \notin handling /\ current' = {}
    /\ UNCHANGED <<way, phase, at, request, answer, heard, handling, ran, made, pending, told, again>>
\* The answered request is removed; where that fails it is found again.
Remove(c) ==
    /\ current = {c} /\ c \notin handling /\ current' = {}
    /\ \/ request' = [request EXCEPT ![c] = "none"] /\ UNCHANGED again
       \/ /\ Cardinality(again) < MaxFaults /\ again' = again \union {c} /\ UNCHANGED request
    /\ UNCHANGED <<way, phase, at, answer, heard, handling, ran, made, pending, told>>

\* _drain_rpc_requests: what is there is listed, and once more after the
\* stop was seen.
List ==
    /\ way = "files" /\ pending = {} /\ current = {}
    /\ pending' = {c \in Calls : request[c] # "none"}
    /\ \/ phase = "runs" /\ pending' # {} /\ UNCHANGED phase
       \/ phase = "over" /\ phase' = "draining"
       \/ phase = "draining" /\ phase' = "last"
    /\ UNCHANGED <<way, at, request, answer, heard, handling, ran, made, current, told, again>>

\* Faulty variant: nothing is waited for.
CloseAtOnce ==
    /\ phase \notin {"runs", "closed"} /\ phase' = "closed" /\ told' = made
    /\ UNCHANGED <<way, at, request, answer, heard, handling, ran, made, pending, current, again>>
\* The finally of run_code_in_sandbox: it waits for the poller, or for the
\* server, an older one of which does not wait for its handlers.
Close ==
    /\ IF way = "files" THEN phase = "last" /\ pending = {} /\ current = {}
       ELSE phase = "over" /\ (handling = {} \/ way = "old socket")
    /\ phase' = "closed" /\ told' = made
    /\ UNCHANGED <<way, at, request, answer, heard, handling, ran, made, pending, current, again>>

Bridge(c) == Handle(c) \/ Invalid(c) \/ ToolEnds(c) \/ Remove(c)
Work == List \/ Close \/ \E c \in Calls : Bridge(c)
Next == ScriptEnds \/ Work \/ \E c \in Calls : Script(c)
Spec == Init /\ [][Next]_vars

-----------------------------------------------------------------------------
TypeOK ==
    /\ at \in [Calls -> {"new", "writes", "waits", "done"}]
    /\ request \in [Calls -> {"none", "torn", "whole"}]
    /\ answer \in [Calls -> {"none", "torn", "error", "result"}] /\ heard \in [Calls -> {"none", "error", "result"}]
    /\ handling \union pending \union current \union again \subseteq Calls
    /\ phase \in {"runs", "over", "draining", "last", "closed"} /\ told \in -1..made

Runs == {<<c, i>> \in Calls \X (1..(Limit + 1)) : i <= ran[c]}

(* No more tools run than the limit, however many calls are handled at     *)
(* once or found again.                                                    *)
LimitKept == Cardinality(Runs) <= Limit

(* The tool of a call runs once, unless its request could not be removed.  *)
RanOnce == \A c \in Calls : ran[c] > 1 => c \in again

(* A call that returns a result in the script ran its tool.                *)
HeardIsTrue == \A c \in Calls : heard[c] = "result" => ran[c] > 0

(* After the outcome was told no tool runs, and it told every call.        *)
NothingAfterwards == phase = "closed" /\ way # "old socket" => handling = {} /\ told = made

Settled == phase = "closed" /\ handling = {}
=============================================================================
