------------------------------- MODULE Reload -------------------------------
(* Hot reload of workers.  PersonaReloadWatcher scans the workers' files   *)
(* and reloads what changed; the API reloads on demand.  A reload replaces *)
(* what is in the process at once, then the channel adapters with awaits   *)
(* in between, and only at its end what the channel router depends on.     *)
(* Two reloads may be under way at a time.                                 *)
EXTENDS Naturals, FiniteSets

CONSTANTS
    Workers,
    MaxEdits, MaxReloads, MaxFaults

VARIABLES
    disk,           \* per worker, the version of its files
    seen,           \* the version whose mtime the watcher has recorded
    hot,            \* workers reloaded within debounce_seconds
    todo,           \* changed workers the scan in progress will reload
    core,           \* the version registry, duties, goals and jobs are of
    routed,         \* workers whose current core the channel router has
    bindings,       \* ChannelManager._bindings, the router's too
    registry,       \* the adapter registered for a worker
    running,        \* adapters that run
    op,             \* the watcher's and the API's reload
    skipped, odd,   \* history: edits debounced; overlapped or failed starts
    count           \* edits, reloads and faults so far

scan == <<seen, hot, todo>>
channels == <<bindings, registry, running>>
vars == <<disk, seen, hot, todo, core, routed, bindings, registry, running, op,
          skipped, odd, count>>

Reloaders == {"watcher", "api"}
Versions == 0..MaxEdits
NoAdapter == [w |-> "none", v |-> 0, n |-> 0]
Adapters == [w : Workers, v : Versions, n : 0..MaxReloads]
Idle == [at |-> "idle", w |-> "none", next |-> [w \in Workers |-> 0],
         adapter |-> NoAdapter, n |-> 0]
Busy == {r \in Reloaders : op[r].at # "idle"}

TypeOK ==
    /\ disk \in [Workers -> Versions] /\ seen \in [Workers -> Versions]
    /\ hot \subseteq Workers /\ todo \subseteq Workers
    /\ core \in [Workers -> Versions] /\ routed \subseteq Workers
    /\ bindings \in [Workers -> Versions]
    /\ registry \in [Workers -> Adapters \union {NoAdapter}]
    /\ running \subseteq Adapters
    /\ \A r \in Reloaders :
         /\ op[r].at \in {"idle", "stopping", "starting"}
         /\ op[r].next \in [Workers -> Versions]
    /\ skipped \subseteq Workers /\ odd \in BOOLEAN
    /\ count \in [edits : 0..MaxEdits, reloads : 0..MaxReloads, faults : 0..MaxFaults]

First(w) == [w |-> w, v |-> 0, n |-> 0]
Init ==
    /\ disk = [w \in Workers |-> 0] /\ seen = disk /\ core = disk /\ bindings = disk
    /\ hot = {} /\ todo = {} /\ routed = Workers
    /\ registry = [w \in Workers |-> First(w)] /\ running = {First(w) : w \in Workers}
    /\ op = [r \in Reloaders |-> Idle]
    /\ skipped = {} /\ odd = FALSE
    /\ count = [edits |-> 0, reloads |-> 0, faults |-> 0]

Edit(w) ==
    /\ count.edits < MaxEdits /\ count' = [count EXCEPT !.edits = @ + 1]
    /\ disk' = [disk EXCEPT ![w] = @ + 1]
    /\ UNCHANGED <<scan, core, routed, channels, op, skipped, odd>>

\* scan_once: every mtime is recorded before the debounce is looked at.
Scan ==
    /\ todo = {} /\ op["watcher"] = Idle
    /\ LET changed == {w \in Workers : disk[w] # seen[w]} IN
       /\ changed # {}
       /\ todo' = changed \ hot
       /\ skipped' = skipped \union (changed \intersect hot)
    /\ seen' = disk
    /\ UNCHANGED <<disk, hot, core, routed, channels, op, odd, count>>

\* debounce_seconds go by.
CoolDown(w) ==
    /\ w \in hot /\ hot' = hot \ {w}
    /\ UNCHANGED <<disk, seen, todo, core, routed, channels, op, skipped, odd, count>>

-----------------------------------------------------------------------------
Raises == count.faults < MaxFaults /\ count' = [count EXCEPT !.faults = @ + 1]

\* Who reloads what: the watcher its changed workers one by one, the API any.
Asked(r, w) ==
    IF r = "watcher"
    THEN w \in todo /\ todo' = todo \ {w} /\ hot' = hot \union {w}
    ELSE UNCHANGED <<todo, hot>>

Ends(r) == op' = [op EXCEPT ![r] = Idle]
RouterHasAll == routed' = Workers

\* Up to the first await: the core is replaced; then, if the bindings are
\* other than before, the old adapter is to be stopped.
Begin(r, w) ==
    /\ op[r] = Idle /\ Asked(r, w)
    /\ count.reloads < MaxReloads /\ count' = [count EXCEPT !.reloads = @ + 1]
    /\ core' = [core EXCEPT ![w] = disk[w]]
    /\ IF bindings[w] = disk[w]
       THEN Ends(r) /\ RouterHasAll
       ELSE /\ op' = [op EXCEPT ![r] =
                 [at |-> "stopping", w |-> w, next |-> [bindings EXCEPT ![w] = disk[w]],
                  adapter |-> registry[w], n |-> count.reloads + 1]]
            /\ routed' = routed \ {w}
    /\ odd' = (odd \/ Busy # {})
    /\ skipped' = skipped \ {w}
    /\ UNCHANGED <<disk, seen, channels>>

\* load_worker_entry raises and nothing has happened, or
\* _validate_chat_id_uniqueness does with the core replaced.
BeginRaises(r, w) ==
    /\ op[r] = Idle /\ Asked(r, w) /\ Raises
    /\ \/ UNCHANGED <<core, routed>>
       \/ core' = [core EXCEPT ![w] = disk[w]] /\ routed' = routed \ {w}
    /\ skipped' = skipped \union {w}
    /\ UNCHANGED <<disk, seen, channels, op, odd>>

\* Faulty variant: the new adapter takes the old one's place unstopped.
StopNone(r) ==
    LET o == op[r]
        new == [w |-> o.w, v |-> o.next[o.w], n |-> o.n]
    IN
    /\ o.at = "stopping"
    /\ registry' = [registry EXCEPT ![o.w] = new]
    /\ bindings' = o.next
    /\ op' = [op EXCEPT ![r].at = "starting", ![r].adapter = new]
    /\ UNCHANGED <<disk, scan, core, routed, running, skipped, odd, count>>

\* adapter.stop() is done: whatever is registered is unregistered, the
\* bindings computed before the await are put in place and a new adapter is
\* registered.
Stopped(r) ==
    LET o == op[r]
        new == [w |-> o.w, v |-> o.next[o.w], n |-> o.n]
    IN
    /\ o.at = "stopping"
    /\ running' = running \ {o.adapter}
    /\ registry' = [registry EXCEPT ![o.w] = new]
    /\ bindings' = o.next
    /\ op' = [op EXCEPT ![r].at = "starting", ![r].adapter = new]
    /\ UNCHANGED <<disk, scan, core, routed, skipped, odd, count>>

StopRaises(r) ==
    /\ op[r].at = "stopping" /\ Raises /\ Ends(r)
    /\ running' \in {running, running \ {op[r].adapter}}
    /\ skipped' = skipped \union {op[r].w}
    /\ UNCHANGED <<disk, scan, core, routed, bindings, registry, odd>>

\* adapter.start() is done, and the rest of the reload.
Started(r) ==
    /\ op[r].at = "starting" /\ Ends(r)
    /\ running' = running \union {op[r].adapter}
    /\ RouterHasAll
    /\ UNCHANGED <<disk, scan, core, bindings, registry, skipped, odd, count>>

\* The adapter stays registered and the bindings in place, so that no later
\* reload of the same files starts it.
StartRaises(r) ==
    /\ op[r].at = "starting" /\ Raises /\ Ends(r) /\ odd' = TRUE
    /\ UNCHANGED <<disk, scan, core, routed, channels, skipped>>

Step(r) ==
    \/ Stopped(r) \/ Started(r)
    \/ r = "watcher" /\ \E w \in todo : Begin(r, w)

Next ==
    \/ Scan
    \/ \E w \in Workers :
         Edit(w) \/ CoolDown(w) \/ \E r \in Reloaders : Begin(r, w) \/ BeginRaises(r, w)
    \/ \E r \in Reloaders : Stopped(r) \/ StopRaises(r) \/ Started(r) \/ StartRaises(r)

Spec == Init /\ [][Next]_vars

-----------------------------------------------------------------------------
(* Between reloads everything is of the version that was loaded last, each *)
(* worker has exactly one running adapter, the registered one, and the     *)
(* channel router has the current managers - also after a reload that      *)
(* failed, once it was repeated; but not after reloads that overlapped or  *)
(* an adapter that did not start.                                          *)
OneOfEach ==
    Busy = {} /\ ~odd =>
        \A w \in Workers \ skipped :
            /\ bindings[w] = core[w] /\ w \in routed
            /\ registry[w].v = core[w]
            /\ {a \in running : a.w = w} = {registry[w]}

(* Every edit is loaded in the end, unless it was debounced, its reload    *)
(* failed, or the bound on reloads is met.                                 *)
Exhausted == count.reloads = MaxReloads
Settled == Exhausted \/ \A w \in Workers \ skipped : core[w] = disk[w]
=============================================================================
