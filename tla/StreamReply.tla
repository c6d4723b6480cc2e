---------------------------- MODULE StreamReply ----------------------------
(* One reply of the router on a chat: the chunks of the run as they come,  *)
(* what each adapter shows of them, and what the session keeps.            *)
EXTENDS Integers, Sequences, SequencesExt

CONSTANTS
    Styles,         \* "slack", "url" (a slash command's), "feishu", "dingtalk",
                    \* "plain card" (DingTalk without updates), "wecom", "complete"
    Chunks,         \* of the run
    MaxFaults

VARIABLES
    style, at,      \* at: "opens", "streams", "last", "raised", "save", "done"
    came,           \* chunks so far: collector.parts, and the adapter's text
    live,           \* chunks the message that is edited shows, or Absent
    sent,           \* messages sent besides: how much each holds, or Error
    reply,          \* reply_content: chunks, or Error
    kept,           \* what of it the stored session has
    faults

vars == <<style, at, came, live, sent, reply, kept, faults>>

Absent == -1
Error == -2
Edits == style \in {"slack", "feishu", "dingtalk"}
Fails == faults < MaxFaults /\ faults' = faults + 1
Raises == Fails /\ at' = "raised"

Init ==
    /\ style \in Styles /\ at = "opens"
    /\ came = 0 /\ live = Absent /\ sent = <<>> /\ reply = 0 /\ kept = 0 /\ faults = 0

\* The message that is edited later on, or a card that never is.
Opens ==
    /\ at = "opens"
    /\ \/ /\ at' = "streams" /\ live' = IF Edits THEN 0 ELSE Absent
          /\ UNCHANGED faults
       \/ (Edits \/ style = "plain card") /\ Raises /\ UNCHANGED live
    /\ UNCHANGED <<style, came, sent, reply, kept>>

LastSent == IF sent = <<>> THEN 0 ELSE Last(sent)
\* What an adapter does with a chunk: Slack and WeCom no more often than their
\* interval allows.
Shows(n) ==
    \/ Edits /\ live' = n /\ UNCHANGED sent
    \/ style = "wecom" /\ sent' = Append(sent, n) /\ UNCHANGED live
    \/ (style \in {"slack", "url", "plain card", "complete"} \/ (style = "wecom" /\ sent # <<>>))
        /\ UNCHANGED <<live, sent>>

Chunk ==
    /\ at = "streams" /\ came < Chunks /\ came' = came + 1
    /\ \/ Shows(came') /\ UNCHANGED <<at, faults>>
       \/ (Edits \/ style = "wecom") /\ Raises /\ UNCHANGED <<live, sent>>
    /\ UNCHANGED <<style, reply, kept>>

RunRaises ==
    /\ at = "streams" /\ Raises
    /\ UNCHANGED <<style, came, live, sent, reply, kept>>

RunEnds ==
    /\ at = "streams" /\ came = Chunks /\ at' = "last"
    /\ UNCHANGED <<style, came, live, sent, reply, kept, faults>>

\* The last chunk says finished: whatever the interval held back is shown.
\* Faulty variant: the message stays as it was.
NothingMore == UNCHANGED <<live, sent>>
ShowRest ==
    IF style \in {"slack", "dingtalk"} THEN live' = came /\ UNCHANGED sent
    ELSE IF style = "feishu" \/ (style = "wecom" /\ came > 0 /\ LastSent = came)
         THEN UNCHANGED <<live, sent>>
    ELSE sent' = Append(sent, came) /\ UNCHANGED live

\* collect_reply builds the reply before it is sent.  The reply of a stream is
\* built when the stream is read to its end, and the adapters leave it at
\* the chunk that says finished.
Collected == IF style = "complete" THEN came ELSE 0

LastOfReply ==
    /\ at = "last"
    /\ \/ ShowRest /\ at' = "save" /\ reply' = Collected /\ UNCHANGED faults
       \/ Raises /\ UNCHANGED <<live, sent, reply>>
    /\ UNCHANGED <<style, came, kept>>

\* The error is told on top of what is shown already, if it can be.
\* Faulty variant: the session gets what came instead of the error.
TellErrorKeepParts ==
    /\ at = "raised" /\ at' = "save" /\ reply' = came /\ sent' = Append(sent, Error)
    /\ UNCHANGED <<style, came, live, kept, faults>>
TellError ==
    /\ at = "raised" /\ at' = "save" /\ reply' = Error
    /\ \/ sent' = Append(sent, Error) /\ UNCHANGED faults
       \/ Fails /\ UNCHANGED sent
    /\ UNCHANGED <<style, came, live, kept>>

\* append_reply_to_session: an empty reply is no message.
Save ==
    /\ at = "save" /\ at' = "done" /\ kept' = reply
    /\ UNCHANGED <<style, came, live, sent, reply, faults>>

Step == Opens \/ Chunk \/ RunEnds \/ LastOfReply \/ TellError \/ Save
Next == Step \/ RunRaises
Spec == Init /\ [][Next]_vars

-----------------------------------------------------------------------------
TypeOK ==
    /\ at \in {"opens", "streams", "last", "raised", "save", "done"}
    /\ came \in 0..Chunks /\ live \in {Absent} \union 0..Chunks
    /\ Len(sent) <= Chunks + 2 /\ faults \in 0..MaxFaults

Sent(x) == x \in {sent[i] : i \in DOMAIN sent}
(* A reply that raised nothing is shown whole, whatever the interval held  *)
(* back, and no error with it; one that raised says so where it can.       *)
ShownWhole ==
    at = "done" =>
        \/ reply # Error /\ (live = Chunks \/ Sent(Chunks))
        \/ reply = Error /\ kept = Error /\ (Sent(Error) \/ faults > 1)

(* The session ends with the reply the user was shown.                     *)
SessionHasTheReply == at = "done" /\ faults = 0 => kept = Chunks

Settled == at = "done"
=============================================================================
