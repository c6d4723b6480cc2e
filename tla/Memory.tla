------------------------------- MODULE Memory -------------------------------
(* MemoryOrchestrator.on_memory_write: the same event delivered by several *)
(* callers at once, a provider that may fail or be late, the publication   *)
(* of memory.written, and a bounded memory of what was written.            *)
EXTENDS Naturals, FiniteSets, Sequences, SequencesExt

CONSTANTS
    Callers, Key(_),    \* each delivers one event; Key: the event
    Kind(_),            \* of an event: "fact", "episode", "unsafe"
    Limit,              \* seen_write_limit
    MaxFaults

VARIABLES
    client,         \* is there an OpenViking client: no provider accepts without
    at,
    inflight,       \* events somebody writes
    seen,           \* events remembered, oldest first
    indexed,        \* events the index has
    told,           \* publications per event
    forgot,         \* history: events dropped from seen
    faults

vars == <<client, at, inflight, seen, indexed, told, forgot, faults>>

Events == {Key(w) : w \in Callers}
Stages == {"new", "waits", "writes", "announces", "done"}

Init ==
    /\ client \in BOOLEAN
    /\ at = [w \in Callers |-> "new"]
    /\ inflight = {} /\ seen = <<>> /\ indexed = {}
    /\ told = [k \in Events |-> 0] /\ forgot = {} /\ faults = 0

Accepts(k) == client
NeedsSink(k) == Kind(k) = "fact"
Fails == faults < MaxFaults /\ faults' = faults + 1
Goes(w, to) == at' = [at EXCEPT ![w] = to]
Release(w) == Goes(w, "done") /\ inflight' = inflight \ {Key(w)}

\* Faulty variant: the key is looked for among the written events only.
TakeUnlessSeen(w) ==
    LET k == Key(w)
    IN  IF k \in ToSet(seen) \/ Kind(k) = "unsafe" THEN Goes(w, "done") /\ UNCHANGED inflight
        ELSE /\ inflight' = inflight \union {k}
             /\ Goes(w, IF Accepts(k) THEN "writes" ELSE IF NeedsSink(k) THEN "done" ELSE "announces")
\* The loop at the top: seen, in flight, or taken; content that is not safe
\* and a fact no provider takes are given up, and nothing remembers that.
Take(w) ==
    LET k == Key(w)
    IN  \/ k \in ToSet(seen) /\ Goes(w, "done") /\ UNCHANGED inflight
        \/ k \notin ToSet(seen) /\ k \in inflight /\ Goes(w, "waits") /\ UNCHANGED inflight
        \/ /\ k \notin ToSet(seen) \union inflight
           /\ IF Kind(k) = "unsafe" \/ (~Accepts(k) /\ NeedsSink(k))
              THEN Goes(w, "done") /\ UNCHANGED inflight
              ELSE /\ inflight' = inflight \union {k}
                   /\ Goes(w, IF Accepts(k) THEN "writes" ELSE "announces")

Deliver(w) == at[w] = "new" /\ Take(w) /\ UNCHANGED <<client, seen, indexed, told, forgot, faults>>

\* The waiter looks again from the top.
Wake(w) ==
    /\ at[w] = "waits" /\ Key(w) \notin inflight /\ Take(w)
    /\ UNCHANGED <<client, seen, indexed, told, forgot, faults>>

Written(w) ==
    /\ at[w] = "writes" /\ Goes(w, "announces")
    /\ indexed' = indexed \union {Key(w)}
    /\ UNCHANGED <<client, inflight, seen, told, forgot, faults>>

\* Raised, or not back within five seconds: the index may have it.
\* Faulty variant: the event stays in flight.
WriteFailsHolding(w) ==
    /\ at[w] = "writes" /\ Fails /\ Goes(w, "done")
    /\ UNCHANGED <<client, inflight, indexed, seen, told, forgot>>
WriteFails(w) ==
    /\ at[w] = "writes" /\ Fails /\ Release(w)
    /\ indexed' \in {indexed, indexed \union {Key(w)}}
    /\ UNCHANGED <<client, seen, told, forgot>>

\* The oldest goes when there are too many.
Remember(k) ==
    LET all == Append(seen, k)
    IN  /\ seen' = IF Len(all) > Limit THEN Tail(all) ELSE all
        /\ forgot' = forgot \union (ToSet(all) \ ToSet(seen'))

\* Faulty variant: what was announced is not remembered.
AnnounceOnly(w) ==
    /\ at[w] = "announces" /\ Release(w)
    /\ told' = [told EXCEPT ![Key(w)] = @ + 1]
    /\ UNCHANGED <<client, seen, forgot, indexed, faults>>
\* Remembered whether the publication returned or raised.
Announce(w) ==
    /\ at[w] = "announces" /\ Release(w) /\ Remember(Key(w))
    /\ \/ told' = [told EXCEPT ![Key(w)] = @ + 1] /\ UNCHANGED faults
       \/ Fails /\ UNCHANGED told
    /\ UNCHANGED <<client, indexed>>

Step(w) == Deliver(w) \/ Wake(w) \/ Written(w) \/ WriteFails(w) \/ Announce(w)
Next == \E w \in Callers : Step(w)
Spec == Init /\ [][Next]_vars

-----------------------------------------------------------------------------
TypeOK ==
    /\ at \in [Callers -> Stages] /\ inflight \subseteq Events
    /\ Len(seen) <= Limit /\ ToSet(seen) \subseteq Events /\ indexed \subseteq Events
    /\ \A k \in Events : told[k] <= Cardinality(Callers)
    /\ forgot \subseteq Events /\ faults \in 0..MaxFaults

(* An event delivered to several callers at once is announced once, unless *)
(* it had been forgotten meanwhile.                                        *)
AnnouncedOnce == \A k \in Events : told[k] > 1 => k \in forgot

(* Nothing is announced, or taken for written, that its provider has not.  *)
AnnouncedIsIndexed ==
    client => \A k \in Events : told[k] > 0 \/ k \in ToSet(seen) => k \in indexed

(* Nobody delivering an event again gives up on one that was never written *)
(* unless it may not be: a failure is retried by whoever waited.           *)
RetriedByWaiter ==
    \A k \in Events :
        /\ client /\ Kind(k) # "unsafe"
        /\ \A w \in Callers : Key(w) = k => at[w] = "done"
        => k \in indexed \/ faults >= Cardinality({w \in Callers : Key(w) = k})

Settled == \A w \in Callers : at[w] = "done"
=============================================================================
