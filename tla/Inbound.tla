------------------------------ MODULE Inbound ------------------------------
(* A chat message from the platform to the reply: the adapter that takes   *)
(* it, the router's choice between a command and a dialog, the check for   *)
(* duplicates, and the offer to look other channels up, which the next     *)
(* message of the thread accepts.                                          *)
EXTENDS Integers, Sequences, FiniteSets

CONSTANTS
    Messages,       \* of one thread
    Kinds,          \* what they may be: functions to "talk", "command", "yes"
    Vias,           \* "ack first", "answer after", "poll": how adapters take them
    MaxCopies,      \* times the platform delivers one
    MaxFaults, MaxCrashes

VARIABLES
    via, kind,
    durable,        \* does the deduplicator have Redis
    owed,           \* messages the platform still wants to deliver
    copies,         \* times each was delivered
    polled,         \* _seen_message_ids of the polling adapter
    at,             \* where the handling of each copy is
    mine,           \* the copy's session: messages, the message asked about
    saved,          \* the stored session
    seen,           \* the deduplicator: marks in Redis and in its own memory
    told,           \* history: what went to the user: <<kind of reply, message, about>>
    excuses,        \* history: <<reason, message>>
    count

vars == <<via, kind, durable, owed, copies, polled, at, mine, saved, seen,
          told, excuses, count>>

Nobody == "nobody"
Empty == [talk |-> <<>>, asked |-> Nobody]
Handlings == Messages \X (1..MaxCopies)
Busy == {h \in Handlings : at[h] \notin {"none", "done"}}
Excuse(why, m) == excuses' = excuses \union {<<why, m>>}
Fails == count.faults < MaxFaults /\ count' = [count EXCEPT !.faults = @ + 1]

Init ==
    /\ via \in Vias /\ kind \in Kinds
    /\ durable \in BOOLEAN
    /\ owed = Messages /\ copies = [m \in Messages |-> 0] /\ polled = {}
    /\ at = [h \in Handlings |-> "none"] /\ mine = [h \in Handlings |-> Empty]
    /\ saved = Empty /\ seen = [redis |-> {}, memory |-> {}] /\ told = {} /\ excuses = {}
    /\ count = [faults |-> 0, crashes |-> 0]

-----------------------------------------------------------------------------
\* A user says yes to a question that was put.
MaySay(m) == kind[m] = "yes" => \E t \in told : t[1] = "prompt"

Starts(m) ==
    /\ copies[m] < MaxCopies /\ MaySay(m)
    /\ copies' = [copies EXCEPT ![m] = @ + 1]
    /\ at' = [at EXCEPT ![<<m, copies[m] + 1>>] = "dispatch"]
    /\ UNCHANGED <<via, kind, durable, mine, saved, seen, told>>

\* Slack: answered at once, handled in a task of its own; the answer may get
\* lost.
AckFirst(m) ==
    /\ via = "ack first" /\ m \in owed /\ Starts(m)
    /\ \/ owed' = owed \ {m} /\ UNCHANGED count
       \/ Fails /\ UNCHANGED owed
    /\ UNCHANGED <<polled, excuses>>

\* Feishu, DingTalk, WeCom: answered when the router is through; until then
\* the platform may deliver it again.
AnswerAfter(m) ==
    /\ via = "answer after" /\ m \in owed /\ Starts(m)
    /\ UNCHANGED <<owed, polled, excuses, count>>

\* Mail: one at a time, and marked before it is handled.
PollOne(m) ==
    /\ via = "poll" /\ m \notin polled /\ Busy = {} /\ Starts(m)
    /\ polled' = polled \union {m} /\ UNCHANGED <<owed, excuses, count>>

\* The handling ends, with an exception or without, and with it its copy of
\* the session; a webhook that is through is answered.
Ends(h, well) ==
    /\ at' = [at EXCEPT ![h] = "done"] /\ mine' = [mine EXCEPT ![h] = Empty]
    /\ owed' = IF via = "answer after" /\ well THEN owed \ {h[1]} ELSE owed

-----------------------------------------------------------------------------
\* dispatch: a command runs before anything is asked about duplicates.
Command(h) ==
    /\ at[h] = "dispatch" /\ kind[h[1]] = "command"
    /\ \/ /\ Ends(h, TRUE) /\ told' = told \union {<<"command", h, Nobody>>}
          /\ UNCHANGED <<excuses, count>>
       \/ Fails /\ Ends(h, FALSE) /\ Excuse("reply raised", h[1]) /\ UNCHANGED told
    /\ UNCHANGED <<via, kind, durable, copies, polled, saved, seen>>

\* on_message.  Faulty variant: every copy is handled.
HandleAll(h) ==
    /\ at[h] = "dispatch" /\ kind[h[1]] # "command"
    /\ at' = [at EXCEPT ![h] = "load"]
    /\ UNCHANGED <<via, kind, durable, owed, copies, polled, mine, saved, seen, told, excuses, count>>

\* _check_memory, in one go; r is what Redis holds by then.
AskMemory(h, r) ==
    /\ seen' = [redis |-> r, memory |-> seen.memory \union {h[1]}]
    /\ IF h[1] \in seen.memory THEN Ends(h, TRUE)
       ELSE at' = [at EXCEPT ![h] = "load"] /\ UNCHANGED <<mine, owed>>
\* The same, of a message that Redis was to tell of.
FallBack(h, r, why) ==
    /\ AskMemory(h, r)
    /\ excuses' = IF h[1] \in seen.memory THEN excuses ELSE excuses \union {<<why, h[1]>>}

\* The answer to GET is awaited, and then the one to SET NX: between the two
\* other handlings go on, also of the same message.
AskRedis(h) ==
    /\ at[h] = "dispatch"
    /\ IF h[1] \in seen.redis THEN Ends(h, TRUE)
       ELSE at' = [at EXCEPT ![h] = "mark"] /\ UNCHANGED <<mine, owed>>
    /\ UNCHANGED <<seen, excuses, count>>
MarkInRedis(h) ==
    /\ at[h] = "mark" /\ UNCHANGED count
    /\ IF h[1] \in seen.redis THEN FallBack(h, seen.redis, "overlap")
       ELSE /\ seen' = [seen EXCEPT !.redis = @ \union {h[1]}]
            /\ at' = [at EXCEPT ![h] = "load"] /\ UNCHANGED <<mine, owed, excuses>>
\* Either raises; the mark may have been made.
RedisRaises(h) ==
    /\ Fails
    /\ \/ FallBack(h, seen.redis, "fallback")
       \/ at[h] = "mark" /\ FallBack(h, seen.redis \union {h[1]}, "fallback")
Handle(h) ==
    /\ at[h] \in {"dispatch", "mark"} /\ kind[h[1]] # "command"
    /\ IF durable THEN AskRedis(h) \/ MarkInRedis(h) \/ RedisRaises(h)
       ELSE AskMemory(h, {}) /\ UNCHANGED <<excuses, count>>
    /\ UNCHANGED <<via, kind, durable, copies, polled, saved, told>>

\* The ttl of a mark is over; MaxFaults bounds this, too.
Forgets(m) ==
    /\ Fails /\ m \in seen.redis \union seen.memory
    /\ seen' = [redis |-> seen.redis \ {m}, memory |-> seen.memory \ {m}]
    /\ Excuse("forgotten", m)
    /\ UNCHANGED <<via, kind, durable, owed, copies, polled, at, mine, saved, told>>

\* The session is loaded and the message appended; the first message of a
\* session may be about something said on another channel.
EndsWithPrompt(s) == s.talk # <<>> /\ s.talk[Len(s.talk)] = "prompt"
Offers(s) == Len(s.talk) = 1 /\ s.asked = Nobody
Load(h) ==
    /\ at[h] = "load"
    /\ mine' = [mine EXCEPT ![h] = [saved EXCEPT !.talk = Append(@, h[1])]]
    /\ at' = [at EXCEPT ![h] = IF Offers(mine'[h]) THEN "search" ELSE "answer"]
    /\ excuses' = IF kind[h[1]] = "yes" /\ ~EndsWithPrompt(saved)
                  THEN excuses \union {<<"no question", h[1]>>} ELSE excuses
    /\ UNCHANGED <<via, kind, durable, owed, copies, polled, saved, seen, told, count>>

\* Something is found: the user is asked first.  A reply that raises here
\* leaves on_message without an error reply.
AskFirst(h) ==
    /\ at[h] = "search"
    /\ \/ /\ told' = told \union {<<"prompt", h, h[1]>>}
          /\ mine' = [mine EXCEPT ![h] =
               [talk |-> Append(mine[h].talk, "prompt"), asked |-> h[1]]]
          /\ at' = [at EXCEPT ![h] = "save"] /\ UNCHANGED <<owed, excuses, count>>
       \/ /\ Fails /\ Ends(h, FALSE) /\ Excuse("reply raised", h[1])
          /\ UNCHANGED told
    /\ UNCHANGED <<via, kind, durable, copies, polled, saved, seen>>
NothingFound(h) ==
    /\ at[h] = "search" /\ at' = [at EXCEPT ![h] = "answer"]
    /\ UNCHANGED <<via, kind, durable, owed, copies, polled, mine, saved, seen,
                   told, excuses, count>>

\* _resolve_cross_channel_context: yes means the message the question was
\* about; any other message drops the question.
About(h) ==
    IF kind[h[1]] = "yes" /\ mine[h].asked # Nobody THEN mine[h].asked ELSE h[1]
Answered(h, reply) ==
    /\ mine' = [mine EXCEPT ![h] = [talk |-> Append(@.talk, reply), asked |-> Nobody]]
    /\ at' = [at EXCEPT ![h] = "save"]

Answer(h) ==
    /\ at[h] = "answer" /\ Answered(h, "answer")
    /\ told' = told \union {<<"answer", h, About(h)>>}
    /\ UNCHANGED <<via, kind, durable, owed, copies, polled, saved, seen, excuses, count>>

\* The run or the reply raises: an error is told instead, if that works.
\* Faulty variant: it is only logged.
AnswerRaisesLogged(h) ==
    /\ at[h] = "answer" /\ Answered(h, "error") /\ Fails
    /\ UNCHANGED <<via, kind, durable, owed, copies, polled, saved, seen, told, excuses>>
AnswerRaises(h) ==
    /\ at[h] = "answer" /\ Answered(h, "error") /\ Fails
    /\ \/ told' = told \union {<<"error", h, h[1]>>} /\ UNCHANGED excuses
       \/ Excuse("reply raised", h[1]) /\ UNCHANGED told
    /\ UNCHANGED <<via, kind, durable, owed, copies, polled, saved, seen>>

\* The session as this handling loaded it replaces the stored one.  Faulty
\* variant: without the question it put.
SavePlain(h) ==
    /\ at[h] = "save" /\ Ends(h, TRUE) /\ saved' = [mine[h] EXCEPT !.asked = Nobody]
    /\ UNCHANGED <<via, kind, durable, copies, polled, seen, told, excuses, count>>
Save(h) ==
    /\ at[h] = "save"
    /\ \/ /\ saved' = mine[h] /\ Ends(h, TRUE) /\ UNCHANGED <<excuses, count>>
       \/ /\ Fails /\ Ends(h, FALSE) /\ UNCHANGED <<saved, excuses>>
    /\ UNCHANGED <<via, kind, durable, copies, polled, seen, told>>

\* The process dies: what is being handled is gone, and what only memory
\* knew of duplicates.
Crash ==
    /\ count.crashes < MaxCrashes /\ count' = [count EXCEPT !.crashes = @ + 1]
    /\ at' = [h \in Handlings |-> IF h \in Busy THEN "done" ELSE at[h]]
    /\ excuses' = excuses \union {<<"crash", h[1]>> : h \in Busy}
         \union {<<"forgotten", m>> : m \in seen.memory}
    /\ seen' = [seen EXCEPT !.memory = {}]
    /\ polled' = {}
    /\ mine' = [h \in Handlings |-> Empty]
    /\ UNCHANGED <<via, kind, durable, owed, copies, saved, told>>

Step(h) == \/ Command(h) \/ Handle(h) \/ Load(h) \/ AskFirst(h) \/ NothingFound(h)
           \/ Answer(h) \/ AnswerRaises(h) \/ Save(h)
Next ==
    \/ \E m \in Messages : AckFirst(m) \/ AnswerAfter(m) \/ PollOne(m) \/ Forgets(m)
    \/ \E h \in Handlings : Step(h)
    \/ Crash
Spec == Init /\ [][Next]_vars

-----------------------------------------------------------------------------
TypeOK ==
    /\ owed \subseteq Messages /\ polled \subseteq Messages
    /\ seen \in [redis : SUBSET Messages, memory : SUBSET Messages]
    /\ at \in [Handlings -> {"none", "dispatch", "mark", "load", "search", "answer", "save", "done"}]
    /\ saved.asked \in Messages \union {Nobody}
    /\ \A t \in told : t[1] \in {"command", "prompt", "answer", "error"}

Excused(m, reasons) == \E r \in reasons : <<r, m>> \in excuses
Replies(m) == {t \in told : t[2][1] = m}

(* However often the platform delivers a message, it is answered once,     *)
(* unless its mark was forgotten, in a crash or with time, or a check that *)
(* overlapped another of it, or that Redis did not answer, let it pass.    *)
(* (Commands are not asked.)                                               *)
AnsweredOnce ==
    \A m \in Messages :
        kind[m] # "command" /\ ~Excused(m, {"forgotten", "overlap", "fallback"}) =>
        Cardinality(Replies(m)) <= 1

(* A message whose handling is over was answered, or the reply raised, or  *)
(* a crash came in between; the duplicate check then refuses a second one. *)
NoneSilent ==
    \A m \in Messages :
        (\E h \in Handlings : h[1] = m /\ at[h] = "done" /\ \A k \in Busy : k[1] # m)
            /\ ~Excused(m, {"reply raised", "crash"})
        => Replies(m) # {}

(* A yes is an answer to the question put, unless the stored session does  *)
(* not end with the question: it goes out before the session is saved, and *)
(* another handling of the thread may save over it.                        *)
YesMeansTheQuestion ==
    \A t \in told : t[1] = "answer" /\ kind[t[2][1]] = "yes"
        /\ ~Excused(t[2][1], {"no question"}) => kind[t[3]] = "talk"

(* Every handling ends.                                                    *)
Settled == Busy = {}
=============================================================================
