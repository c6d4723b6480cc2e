---------------------------- MODULE DeadLetters ----------------------------
(* DeadLetterStore: entries of one worker in a Redis hash or, when a call  *)
(* of Redis raises, in files.  A call that raises may have been done.      *)
EXTENDS Naturals, FiniteSets

CONSTANTS
    Entries,
    Callers,        \* each retries one entry, once
    MaxFaults       \* calls of Redis that raise

VARIABLES
    redis, file,    \* the entries in each place
    call,           \* what each caller of retry is at
    fate,           \* history: "new", "added", "discarded", "lost"
    excused,        \* history: entries stored twice or taken by two at a time
    faults

vars == <<redis, file, call, fate, excused, faults>>

Idle == [at |-> "idle", entry |-> CHOOSE e \in Entries : TRUE]
Places == {"idle", "read", "given", "none"}

TypeOK ==
    /\ redis \subseteq Entries /\ file \subseteq Entries /\ excused \subseteq Entries
    /\ call \in [Callers -> [at : Places, entry : Entries]]
    /\ fate \in [Entries -> {"new", "added", "discarded", "lost"}]
    /\ faults \in 0..MaxFaults

Init ==
    /\ redis = {} /\ file = {} /\ excused = {}
    /\ call = [c \in Callers |-> Idle]
    /\ fate = [e \in Entries |-> "new"]
    /\ faults = 0

Raises == faults < MaxFaults /\ faults' = faults + 1
Goes(c, e, at) == call' = [call EXCEPT ![c] = [at |-> at, entry |-> e]]
Ends(e, how) == fate' = [fate EXCEPT ![e] = how]
\* What a call of Redis that raised may have left.
Either(done) == redis' \in {redis, done}

Add(e) ==
    /\ fate[e] = "new" /\ Ends(e, "added")
    /\ \/ redis' = redis \union {e} /\ UNCHANGED <<file, excused, faults>>
       \/ /\ Raises /\ Either(redis \union {e})
          /\ file' = file \union {e}
          /\ excused' = excused \union (redis' \ redis)
    /\ UNCHANGED call

\* Faulty variant: the file is deleted, whichever place holds the entry.
DiscardReversed(e) ==
    /\ fate[e] = "added"
    /\ file' = file \ {e}
    /\ Ends(e, "discarded")
    /\ UNCHANGED <<redis, call, excused, faults>>

\* Redis answers for itself alone; only if it raises the files are asked.
Discard(e) ==
    /\ fate[e] = "added"
    /\ \/ /\ e \in redis /\ redis' = redis \ {e}
          /\ Ends(e, "discarded")
          /\ UNCHANGED <<file, faults>>
       \/ /\ Raises /\ Either(redis \ {e})
          /\ file' = file \ {e}
          /\ Ends(e, CASE e \in file -> "discarded"
                       [] e \in redis \ redis' -> "lost"
                       [] OTHER -> fate[e])
    /\ UNCHANGED <<call, excused>>

\* hget: without the entry the answer is None, whatever the files hold.
RetryReads(c, e) ==
    /\ call[c].at = "idle"
    /\ Goes(c, e, IF e \in redis THEN "read" ELSE "none")
    /\ excused' = excused \union
          (IF \E o \in Callers : call[o] = [at |-> "read", entry |-> e] THEN {e} ELSE {})
    /\ UNCHANGED <<redis, file, fate, faults>>

\* hdel: the entry that was read is given, whether or not it was still there.
RetryDeletes(c) ==
    /\ call[c].at = "read"
    /\ redis' = redis \ {call[c].entry}
    /\ Goes(c, call[c].entry, "given")
    /\ UNCHANGED <<file, fate, excused, faults>>

\* hget or hdel raises: the files are asked, and forget what they give.
RetryFallsBack(c, e) ==
    /\ call[c].at = "idle" \/ call[c] = [at |-> "read", entry |-> e]
    /\ Raises
    /\ IF call[c].at = "read" THEN Either(redis \ {e}) ELSE UNCHANGED redis
    /\ file' = file \ {e}
    /\ Goes(c, e, IF e \in file THEN "given" ELSE "none")
    /\ Ends(e, IF e \notin file /\ e \in redis \ redis' THEN "lost" ELSE fate[e])
    /\ UNCHANGED excused

Next ==
    \/ \E e \in Entries : Add(e) \/ Discard(e)
    \/ \E c \in Callers :
          RetryDeletes(c) \/ \E e \in Entries : RetryReads(c, e) \/ RetryFallsBack(c, e)

Spec == Init /\ [][Next]_vars

-----------------------------------------------------------------------------
Takers(e) == {c \in Callers : call[c] = [at |-> "given", entry |-> e]}

(* A dead letter is somewhere until it was given to a caller or discarded, *)
(* except when a deletion was done in Redis and raised.                    *)
NoneVanishes ==
    \A e \in Entries :
        fate[e] = "added" => e \in redis \union file \/ Takers(e) # {}

(* Without two retries at once, and stored in one place, an entry is given *)
(* once, so that its job is submitted again once.                          *)
GivenOnce == \A e \in Entries \ excused : Cardinality(Takers(e)) <= 1

(* What was discarded is gone for whoever did not read it before.          *)
DiscardedIsGone ==
    \A e \in Entries \ excused : fate[e] = "discarded" => e \notin redis \union file
=============================================================================
