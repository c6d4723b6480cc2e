------------------------------ MODULE Episodes ------------------------------
(* What a run leaves in the memory of its worker: an episode on disk and   *)
(* in the index, links to the rules it applied with their feedback, the    *)
(* decisions it heard; and the decay cycle that archives episodes.         *)
EXTENDS Naturals, FiniteSets, Sequences, SequencesExt

CONSTANTS
    Runs, Text(_),      \* Text: the decision a run states, on the one topic
    Old,                \* episodes of earlier runs
    MaxFaults, MaxCrashes

VARIABLES
    route,              \* who indexes: "orchestrator", "hook", "nobody"
    at, lock,           \* of a run's hook; lock: the runs that hold episode_lock
    here, away,         \* episodes/ and archive/memory/
    indexed,            \* index calls per episode that took effect
    faded,              \* old episodes the decay puts below the threshold
    decay,              \* of the cycle: what it still has to look at
    linked,             \* runs with links and feedback written
    decided,            \* decisions.jsonl: who said it, and which superseded it
    faults, crashes

vars == <<route, at, lock, here, away, indexed, faded, decay, linked, decided, faults, crashes>>

Episodes == Runs \union Old
Stages == {"new", "indexes", "mirrors", "archive", "links", "decides", "done"}
None == "nobody"

Init ==
    /\ route \in {"orchestrator", "hook", None}
    /\ at = [r \in Runs |-> "new"] /\ lock = {}
    /\ here = Old /\ away = {} /\ faded \in SUBSET Old
    /\ indexed = [e \in Episodes |-> IF e \in Old /\ route # None THEN 1 ELSE 0]
    /\ decay = {} /\ linked = {} /\ decided = <<>>
    /\ faults = 0 /\ crashes = 0

Goes(r, from, to) == at[r] = from /\ at' = [at EXCEPT ![r] = to]
Fails == faults < MaxFaults /\ faults' = faults + 1
\* Best effort: a failure is logged and the episode is not in the index.
Index(e) ==
    \/ indexed' = [indexed EXCEPT ![e] = @ + 1] /\ UNCHANGED faults
    \/ Fails /\ UNCHANGED indexed

\* Faulty variant: indexed here although the orchestrator will do it too.
PersistAndIndex(r) ==
    /\ lock = {} /\ here' = here \union {r}
    /\ Goes(r, "new", IF route = None THEN "archive" ELSE "indexes")
    /\ lock' = IF route = None THEN {} ELSE {r}
    /\ UNCHANGED <<route, away, indexed, faded, decay, linked, decided, faults, crashes>>
\* _persist_episode: the file under the lock, and with it the index, unless a
\* provider of the orchestrator accepts the episode.
Persist(r) ==
    /\ lock = {} /\ here' = here \union {r}
    /\ Goes(r, "new", CASE route = "hook" -> "indexes" [] route = "orchestrator" -> "mirrors"
                        [] OTHER -> "archive")
    /\ lock' = IF route = "hook" THEN {r} ELSE {}
    /\ UNCHANGED <<route, away, indexed, faded, decay, linked, decided, faults, crashes>>

Indexed(r) ==
    /\ Goes(r, "indexes", IF route = "orchestrator" THEN "mirrors" ELSE "archive")
    /\ lock' = {} /\ Index(r)
    /\ UNCHANGED <<route, here, away, faded, decay, linked, decided, crashes>>

Mirrored(r) ==
    /\ Goes(r, "mirrors", "archive") /\ Index(r)
    /\ UNCHANGED <<route, lock, here, away, faded, decay, linked, decided, crashes>>

\* Faulty variant: the lock is kept when the call raises.
ArchiveHolding(r) ==
    /\ lock = {}
    /\ IF faded \intersect here = {} THEN Goes(r, "archive", "links") /\ UNCHANGED lock
       ELSE Goes(r, "archive", "done") /\ lock' = {r}
    /\ UNCHANGED <<route, here, away, indexed, faded, decay, linked, decided, faults, crashes>>
\* _archive_episode_candidates: the first candidate makes it name a function
\* the module does not import; the exception ends the hook.
Archive(r) ==
    /\ lock = {}
    /\ IF faded \intersect here = {} THEN Goes(r, "archive", "links") ELSE Goes(r, "archive", "done")
    /\ UNCHANGED <<route, lock, here, away, indexed, faded, decay, linked, decided, faults, crashes>>

\* write_linkage, then the confidence of each rule, the score and a record.
Link(r) ==
    /\ Goes(r, "links", "decides") /\ linked' = linked \union {r}
    /\ UNCHANGED <<route, lock, here, away, indexed, faded, decay, decided, faults, crashes>>

Active == {i \in DOMAIN decided : decided[i].over = None}
\* Faulty variant: the ones before stay.
DecideAgain(r) ==
    /\ Goes(r, "decides", "done")
    /\ decided' = Append(decided, [by |-> r, over |-> None])
    /\ UNCHANGED <<route, lock, here, away, indexed, faded, decay, linked, faults, crashes>>
\* supersede_decisions: the same words again change nothing.
Decide(r) ==
    /\ Goes(r, "decides", "done")
    /\ decided' =
          IF \E i \in Active : Text(decided[i].by) = Text(r) THEN decided
          ELSE Append([i \in DOMAIN decided |->
                          IF i \in Active THEN [decided[i] EXCEPT !.over = r] ELSE decided[i]],
                      [by |-> r, over |-> None])
    /\ UNCHANGED <<route, lock, here, away, indexed, faded, decay, linked, faults, crashes>>

\* run_decay_cycle: the files as they are now, one after the other.
DecayBegins ==
    /\ decay = {} /\ faded \intersect here # {} /\ decay' = here
    /\ UNCHANGED <<route, at, lock, here, away, indexed, faded, linked, decided, faults, crashes>>

\* Faulty variant: unlinked before the copy is written.
MoveUnlinkFirst(e) ==
    \/ away' = away \union {e} /\ here' = here \ {e} /\ UNCHANGED crashes
    \/ crashes < MaxCrashes /\ crashes' = crashes + 1 /\ here' = here \ {e} /\ UNCHANGED away
\* _archive_item: a copy, then the file goes; a crash may come between.
Move(e) ==
    \/ away' = away \union {e} /\ here' = here \ {e} /\ UNCHANGED crashes
    \/ crashes < MaxCrashes /\ crashes' = crashes + 1 /\ away' = away \union {e} /\ UNCHANGED here

Decay(e) ==
    /\ e \in decay
    /\ IF e \in faded
       THEN /\ Move(e)
            /\ \/ indexed' = [indexed EXCEPT ![e] = 0] /\ UNCHANGED faults
               \/ Fails /\ UNCHANGED indexed
       ELSE UNCHANGED <<here, away, indexed, faults, crashes>>
    /\ decay' = IF crashes' # crashes THEN {} ELSE decay \ {e}
    /\ at' = IF crashes' # crashes THEN [r \in Runs |-> "done"] ELSE at
    /\ lock' = IF crashes' # crashes THEN {} ELSE lock
    /\ UNCHANGED <<route, faded, linked, decided>>

Hook(r) ==
    Persist(r) \/ Indexed(r) \/ Mirrored(r) \/ Archive(r) \/ Link(r) \/ Decide(r)
Next == (\E r \in Runs : Hook(r)) \/ DecayBegins \/ \E e \in Episodes : Decay(e)
Spec == Init /\ [][Next]_vars

-----------------------------------------------------------------------------
Persisted == Old \union {r \in Runs : at[r] # "new"}
TypeOK ==
    /\ at \in [Runs -> Stages] /\ lock \subseteq Runs /\ Cardinality(lock) <= 1
    /\ here \subseteq Episodes /\ away \subseteq Old /\ decay \subseteq Episodes
    /\ \A e \in Episodes : indexed[e] \in 0..2
    /\ linked \subseteq Runs /\ faults \in 0..MaxFaults /\ crashes \in 0..MaxCrashes

(* No step of a cycle, and no crash in it, loses an episode.               *)
EpisodesKept == Old \subseteq here \union away /\ linked \subseteq here

(* An episode is in the index once while it is in use, whoever indexes it, *)
(* and not at all when it is archived.                                     *)
IndexFits ==
    faults = 0 /\ crashes = 0 /\ route # None =>
        /\ \A r \in Runs : at[r] \in {"archive", "links", "decides", "done"} => indexed[r] = 1
        /\ \A e \in away : indexed[e] = 0

(* One decision of a topic holds, the last that said something else.       *)
OneDecision ==
    decided # <<>> =>
        /\ Active = {Len(decided)}
        /\ \A i \in 1..(Len(decided) - 1) :
              decided[i].over = decided[i + 1].by /\ Text(decided[i].by) # Text(decided[i + 1].by)

Settled == \A r \in Runs : at[r] = "done"
=============================================================================
