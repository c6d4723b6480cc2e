------------------------------ MODULE Triggers ------------------------------
(* The duties of one worker: the DUTY.md files, the scheduler jobs and bus *)
(* subscriptions a TriggerManager registers for them, and their runs.  A   *)
(* reload puts a new manager in the application and only later, after      *)
(* other awaits, in the channel router whose commands use it: in between   *)
(* the commands reach the old one.                                         *)
EXTENDS Naturals, FiniteSets

CONSTANTS
    Duties,
    Before(_, _),   \* the order of their files
    MaxRuns, MaxEdits

VARIABLES
    file,           \* of each duty: status and the kind of its trigger
    phase,          \* "starting", "up", "failed"
    jobs, subs,     \* what the scheduler and the bus hold
    reg,            \* registrations the app's and the router's manager know
    window,         \* the router still has an older manager
    running, records,
    edited,         \* history: changed since the last registration
    leaked,         \* history: registered, and no manager knows
    edits

files == <<file, edits>>
held == <<jobs, subs, reg>>
runs == <<running, records>>
vars == <<file, phase, jobs, subs, reg, window, running, records, edited, leaked,
          edits>>

Kinds == {"cron", "badcron", "event", "condition"}
Definition == [status : {"absent", "active", "closed", "broken"}, kind : Kinds]
Nothing == [d \in Duties |-> "none"]

TypeOK ==
    /\ file \in [Duties -> Definition]
    /\ phase \in {"starting", "up", "failed"}
    /\ jobs \subseteq Duties \X {"cron", "condition"}
    /\ subs \in [Duties -> 0..2]
    /\ reg \in [{"app", "router"} -> [Duties -> Kinds \union {"none"}]]
    /\ window \in BOOLEAN
    /\ running \in [Duties -> 0..MaxRuns] /\ records \in [Duties -> 0..MaxRuns]
    /\ edited \subseteq Duties /\ leaked \subseteq Duties
    /\ edits \in 0..MaxEdits

Init ==
    /\ file \in [Duties -> {[status |-> "active", kind |-> k] : k \in Kinds}]
    /\ phase = "starting"
    /\ jobs = {} /\ subs = [d \in Duties |-> 0]
    /\ reg = [m \in {"app", "router"} |-> Nothing]
    /\ window = FALSE
    /\ running = [d \in Duties |-> 0] /\ records = [d \in Duties |-> 0]
    /\ edited = Duties /\ leaked = {} /\ edits = 0

Active(f) == {d \in Duties : f[d].status = "active"}

\* load_unique_duties and register_duty up to the first crontab that
\* APScheduler refuses.
Registered(f) ==
    {d \in Active(f) :
        \A e \in Active(f) : f[e].kind = "badcron" => d # e /\ Before(d, e)}
AllRegister(f) == Registered(f) = Active(f)

\* Jobs are replaced by id, subscriptions appended (counted up to two: each
\* failed reload appends one more).
JobsOf(f, D) == {<<d, f[d].kind>> : d \in {x \in D : f[x].kind \in {"cron", "condition"}}}
SubsOf(s, f, D) == [d \in Duties |-> IF d \in D /\ f[d].kind = "event" /\ s[d] < 2 THEN s[d] + 1 ELSE s[d]]
Known(f, D) == [d \in Duties |-> IF d \in D THEN f[d].kind ELSE "none"]

\* unregister_duty: by what this manager knows; unsubscribe takes every
\* subscription of the handler id.
JobsWithout(known, D) == jobs \ {<<d, known[d]>> : d \in D}
SubsWithout(known, D) == [d \in Duties |-> IF d \in D /\ known[d] = "event" THEN 0 ELSE subs[d]]

\* register_scheduler_workers; an exception leaves the application without
\* trigger managers, and what was registered in place.
Startup ==
    /\ phase = "starting"
    /\ phase' = IF AllRegister(file) THEN "up" ELSE "failed"
    /\ LET D == Registered(file) IN
       /\ jobs' = JobsOf(file, D) /\ subs' = SubsOf(subs, file, D)
       /\ reg' = [m \in {"app", "router"} |-> IF AllRegister(file) THEN Known(file, D) ELSE Nothing]
    /\ edited' = IF AllRegister(file) THEN {} ELSE edited
    /\ UNCHANGED <<files, window, runs, leaked>>

\* Faulty variant: the old manager is dropped as it is.
RefreshDropping ==
    /\ phase = "up" /\ AllRegister(file)
    /\ jobs' = jobs \union JobsOf(file, Active(file))
    /\ subs' = SubsOf(subs, file, Active(file))
    /\ reg' = [reg EXCEPT !.app = Known(file, Active(file))]
    /\ window' = TRUE /\ edited' = {}
    /\ UNCHANGED <<files, phase, runs, leaked>>

\* refresh_trigger_manager: the old manager unregisters all it knows, a new
\* one registers the files.  If that raises, the new one is dropped.
Refresh ==
    /\ phase = "up"
    /\ LET D == Registered(file)
           ok == AllRegister(file)
       IN
       /\ jobs' = JobsWithout(reg.app, Duties) \union JobsOf(file, D)
       /\ subs' = SubsOf(SubsWithout(reg.app, Duties), file, D)
       /\ reg' = [app |-> IF ok THEN Known(file, D) ELSE Nothing,
                  router |-> IF window THEN reg.router ELSE Nothing]
       /\ window' = (window \/ ok)
       /\ edited' = IF ok THEN {} ELSE Duties
       /\ leaked' = IF ok THEN leaked ELSE leaked \union D
    /\ UNCHANGED <<files, phase, runs>>

\* replace_runtime_dependencies.  What was registered with the old manager
\* meanwhile is known to nobody.
SwapRouter ==
    /\ window /\ window' = FALSE
    /\ reg' = [reg EXCEPT !.router = reg.app]
    /\ leaked' = leaked \union {d \in Duties : reg.router[d] # "none"}
    /\ UNCHANGED <<files, phase, jobs, subs, runs, edited>>

\* A command's changes to the manager that its router has.
RouterKnows(d, kind) ==
    reg' = IF window THEN [reg EXCEPT !.router[d] = kind]
           ELSE [m \in {"app", "router"} |-> [reg.app EXCEPT ![d] = kind]]

\* _materialize_duty_from_suggestion: an approved suggestion writes a duty on
\* a schedule, over one of the same id, and registers it without
\* unregistering first.
Materialize(d) ==
    /\ phase # "starting" /\ edits < MaxEdits /\ edits' = edits + 1
    /\ \E kind \in {"cron", "badcron"} :
         /\ file' = [file EXCEPT ![d] = [status |-> "active", kind |-> kind]]
         /\ IF phase = "up" /\ kind = "cron"
            THEN /\ jobs' = jobs \union {<<d, "cron">>} /\ UNCHANGED subs
                 /\ RouterKnows(d, "cron")
                 /\ leaked' = IF window \/ reg.app[d] \in {"event", "condition"}
                              THEN leaked \union {d} ELSE leaked
                 /\ UNCHANGED edited
            ELSE UNCHANGED <<held, leaked>> /\ edited' = edited \union {d}
    /\ UNCHANGED <<phase, window, runs>>

\* duty_to_markdown leaves out metric and rule, without which parse_duty
\* refuses a condition trigger.
Rewritten(def, status) ==
    [def EXCEPT !.status = IF def.kind = "condition" THEN "broken" ELSE status]

\* Faulty variant: closed in the file alone.
RedefineFileOnly(d, status) ==
    /\ phase # "starting" /\ edits < MaxEdits /\ edits' = edits + 1
    /\ file[d].status \in {"active", "closed"}
    /\ status \in {file[d].status, "closed"}
    /\ file' = [file EXCEPT ![d] = Rewritten(@, status)]
    /\ UNCHANGED <<phase, held, window, runs, edited, leaked>>

\* _apply_duty_redefine_suggestion: changed or closed ("pause"), and the
\* triggers of the definition in memory registered anew.
Redefine(d, status) ==
    /\ phase # "starting" /\ edits < MaxEdits /\ edits' = edits + 1
    /\ file[d].status \in {"active", "closed"}
    /\ status \in {file[d].status, "closed"}
    /\ file' = [file EXCEPT ![d] = Rewritten(@, status)]
    /\ LET known == IF window THEN reg.router ELSE reg.app
           again == status = "active" /\ file[d].kind # "badcron"
           D == IF again THEN {d} ELSE {}
       IN
       IF phase = "up"
       THEN /\ jobs' = JobsWithout(known, {d}) \union JobsOf(file, D)
            /\ subs' = SubsOf(SubsWithout(known, {d}), file, D)
            /\ RouterKnows(d, IF again THEN file[d].kind ELSE "none")
            /\ leaked' = IF window THEN leaked \union {d} ELSE leaked
       ELSE UNCHANGED <<held, leaked>>
    /\ edited' = IF file'[d].status = "broken" THEN edited \union {d} ELSE edited
    /\ UNCHANGED <<phase, window, runs>>

\* _bind_skill_to_duty rewrites the file and registers nothing.
BindSkill(d) ==
    /\ file[d].status \in {"active", "closed"} /\ edits < MaxEdits /\ edits' = edits + 1
    /\ file' = [file EXCEPT ![d] = Rewritten(@, @.status)]
    /\ edited' = IF file'[d].status = "broken" THEN edited \union {d} ELSE edited
    /\ UNCHANGED <<phase, held, window, runs, leaked>>

\* The user edits, adds or removes a file.
Edit(d, def) ==
    /\ edits < MaxEdits /\ edits' = edits + 1
    /\ file[d] # def /\ file' = [file EXCEPT ![d] = def]
    /\ edited' = edited \union {d}
    /\ UNCHANGED <<phase, held, window, runs, leaked>>

-----------------------------------------------------------------------------
Starts(d, n) ==
    /\ running[d] + records[d] + n <= MaxRuns
    /\ running' = [running EXCEPT ![d] = @ + n]
    /\ UNCHANGED <<files, phase, held, window, records, edited, leaked>>

FireScheduled(d) == <<d, "cron">> \in jobs /\ Starts(d, 1)
FireOnEvent(d) == subs[d] > 0 /\ Starts(d, subs[d])

\* _check_condition: without a metric_provider the metric is computed from
\* the duty's records, and without records it is None.
FireOnCondition(d) == <<d, "condition">> \in jobs /\ records[d] > 0 /\ Starts(d, 1)

\* DutyExecutor.execute: the record is written whatever the outcome, then
\* the learning handler runs; _fire_duty swallows what raises before.
RunEnds(d) ==
    /\ running[d] > 0 /\ running' = [running EXCEPT ![d] = @ - 1]
    /\ records' \in {records, [records EXCEPT ![d] = @ + 1]}
    /\ UNCHANGED <<files, phase, held, window, edited, leaked>>

Edits == {[status |-> "absent", kind |-> "cron"]} \union
         [status : {"active", "closed"}, kind : {"cron", "event"}]

Next ==
    \/ Startup \/ Refresh \/ SwapRouter
    \/ \E d \in Duties :
         \/ Materialize(d) \/ BindSkill(d)
         \/ \E status \in {"active", "closed"} : Redefine(d, status)
         \/ \E def \in Edits : Edit(d, def)
         \/ FireScheduled(d) \/ FireOnEvent(d) \/ FireOnCondition(d) \/ RunEnds(d)

Spec == Init /\ [][Next]_vars

-----------------------------------------------------------------------------
(* A duty that only commands and reloads have touched since it was last    *)
(* registered is served as its file says: an active one by exactly one job *)
(* or subscription of its kind, a closed one by none - unless a command    *)
(* used the router's old manager or a reload failed half way.              *)
Served(d) ==
    LET live == file[d].status = "active" IN
    /\ \A kind \in {"cron", "condition"} :
         <<d, kind>> \in jobs <=> live /\ file[d].kind = kind
    /\ subs[d] = IF live /\ file[d].kind = "event" THEN 1 ELSE 0

DutiesServed ==
    phase = "up" /\ ~window => \A d \in Duties \ (edited \union leaked) : Served(d)
=============================================================================
