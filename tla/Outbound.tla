------------------------------ MODULE Outbound ------------------------------
(* A message or a document of an integration on its way out:               *)
(* MultiChannelFallback over channels that ReliableChannelAdapter retries. *)
EXTENDS Integers, FiniteSets

CONSTANTS
    Last,           \* channels 1..Last, by priority
    Retries,        \* max_retries
    MaxFaults

VARIABLES
    mode,           \* "fallback", "broadcast" (high priority), "document"
    channel,        \* of each channel: "idle", "trying", "ok", "failed", "no"
    tries,
    got,            \* times each channel delivered it
    outcome,        \* "none", "sent", "raised", "no"
    events,         \* published: the channels that failed, All
    excuses,        \* history: "late", "nobody", "publish"
    faults

vars == <<mode, channel, tries, got, outcome, events, excuses, faults>>

Channels == 1..Last
All == 0
Fails == faults < MaxFaults /\ faults' = faults + 1
Running == {c \in Channels : channel[c] = "trying"}
Init ==
    /\ mode \in {"fallback", "broadcast", "document"}
    /\ channel = [c \in Channels |-> IF mode = "broadcast" \/ c = 1 THEN "trying" ELSE "idle"]
    /\ tries = [c \in Channels |-> 0] /\ got = [c \in Channels |-> 0]
    /\ outcome = "none" /\ events = {} /\ excuses = {} /\ faults = 0

\* _retry_operation: an exception is tried again after a pause, also one that
\* came after the message was out.  Faulty variant: one try fewer.
AgainShort(c) == tries'[c] < Retries
Again(c) == tries'[c] <= Retries
\* What is over for one channel: the others go on in a broadcast, the next
\* one starts in a fallback.
Over(c, how) ==
    channel' = [x \in Channels |->
        IF x = c THEN how
        ELSE IF x = c + 1 /\ mode # "broadcast" /\ how # "ok" THEN "trying"
        ELSE channel[x]]

Delivers(c) ==
    /\ c \in Running /\ outcome = "none" /\ Over(c, "ok")
    /\ tries' = [tries EXCEPT ![c] = @ + 1]
    /\ \/ got' = [got EXCEPT ![c] = @ + 1] /\ UNCHANGED excuses
       \/ mode # "document" /\ UNCHANGED got /\ excuses' = excuses \union {"nobody"}
    /\ UNCHANGED <<mode, outcome, events, faults>>

\* A channel without documents, or one whose mount raised, says no.
SaysNo(c) ==
    /\ c \in Running /\ outcome = "none" /\ mode = "document" /\ Over(c, "no")
    /\ UNCHANGED <<mode, tries, got, outcome, events, excuses, faults>>

Raises(c) ==
    /\ c \in Running /\ outcome = "none" /\ Fails
    /\ tries' = [tries EXCEPT ![c] = @ + 1]
    /\ \/ UNCHANGED <<got, excuses>>
       \/ got' = [got EXCEPT ![c] = @ + 1] /\ excuses' = excuses \union {"late"}
    /\ IF Again(c) THEN UNCHANGED <<channel, events>>
       ELSE Over(c, "failed") /\ events' = events \union {c}
    /\ UNCHANGED <<mode, outcome>>

\* send: the first success ends a fallback, all results a broadcast; when
\* every channel failed an event says so, and the exception of a subscriber
\* replaces the ChannelSendError.
Sent == {c \in Channels : channel[c] = "ok"} # {}
\* Faulty variant: a broadcast ends with the first result.
EndsEarly ==
    /\ outcome = "none" /\ outcome' = IF Sent THEN "sent" ELSE "raised"
    /\ \E c \in Channels : channel[c] \in {"ok", "failed"}
    /\ UNCHANGED <<mode, channel, tries, got, events, excuses, faults>>
Ends ==
    /\ outcome = "none" /\ Running = {}
    /\ \/ Sent /\ outcome' = "sent" /\ UNCHANGED <<events, excuses, faults>>
       \/ /\ ~Sent /\ mode = "document" /\ outcome' = "no" /\ UNCHANGED <<events, excuses, faults>>
       \/ /\ ~Sent /\ mode # "document" /\ outcome' = "raised"
          /\ events' = events \union {All} /\ UNCHANGED <<excuses, faults>>
       \/ /\ ~Sent /\ mode # "document" /\ outcome' = "raised" /\ Fails
          /\ excuses' = excuses \union {"publish"} /\ UNCHANGED events
    /\ UNCHANGED <<mode, channel, tries, got>>

Step == Ends \/ \E c \in Channels : Delivers(c) \/ SaysNo(c) \/ Raises(c)
Next == Step
Spec == Init /\ [][Next]_vars

-----------------------------------------------------------------------------
TypeOK ==
    /\ channel \in [Channels -> {"idle", "trying", "ok", "failed", "no"}]
    /\ tries \in [Channels -> 0..(Retries + 1)] /\ got \in [Channels -> 0..(Retries + 1)]
    /\ events \subseteq Channels \union {All}

Copies == {<<c, n>> \in Channels \X (1..(Retries + 1)) : n <= got[c]}
(* An exception means every channel was tried as often as configured and   *)
(* every failure was published; success, that somebody got it, unless the  *)
(* adapter had nobody to send it to.                                       *)
OutcomeIsTrue ==
    /\ outcome = "raised" =>
        /\ \A c \in Channels : tries[c] = Retries + 1 /\ c \in events
        /\ All \in events \/ "publish" \in excuses
    /\ outcome = "sent" => Copies # {} \/ "nobody" \in excuses

(* A fallback delivers once, unless an exception came after the delivery.  *)
FallbackDeliversOnce ==
    mode # "broadcast" /\ "late" \notin excuses => Cardinality(Copies) <= 1

Settled == outcome # "none"
=============================================================================
