----------------------------- MODULE ModelCalls -----------------------------
(* How a call of the engine reaches a model: the configuration is found and *)
(* judged (services/llm/litellm_config.py, config_source.py), a router is   *)
(* built and its models are warmed up (litellm_provider.py), the wiring     *)
(* makes a client of what there is (runtime/api_wiring.py), and each call   *)
(* gets a tier, a model group and an answer (routing_policy.py,             *)
(* router_adapter.py).  The library behind the router is external.          *)
EXTENDS Naturals, FiniteSets

CONSTANTS Configs,    \* what an operator may write down
          MaxEdits,   \* bound: changes of the file while the program starts
          MaxFaults   \* bound: routers not built, probes and calls that fail

Tiers == {"fast", "standard", "strong", "reasoning"}
Rank == [fast |-> 1, standard |-> 2, strong |-> 3, reasoning |-> 4]
\* What a file can hold besides a JSON object, and no configuration at all.
Missing == [kind |-> "missing"]
Broken == [kind |-> "broken"]
None == [kind |-> "none"]
NoGroup == "none"

Purposes == {"chat_turn", "plan", "reflect", "strategize", "extract", "summarize",
             "classify", "generate", "tool_call"}
Wishes == {"reasoning", "long", "tools", "quick", "quality"}
Intents == [purpose : Purposes, wish : SUBSET Wishes]

VARIABLES local,    \* the environment reads the file, the others an injected text
          file, injected,   \* a configuration, or Missing or Broken
          at,       \* the start's step
          router,   \* the configuration of the router kept in the context
          probes,   \* deployment -> groups whose probe is out
          probed,   \* deployment -> probes made
          client,   \* the configuration of the client's router
          call,     \* the call under way
          excuses,  \* why a call may hear an error
          edits, faults

vars == <<local, file, injected, at, router, probes, probed, client, call,
          excuses, edits, faults>>
start == <<local, file, injected, at, router, probes, probed, client, edits>>

Idle == [at |-> "idle"]
Texts == Configs \cup {Missing, Broken}
Deployments == UNION {{c.uses[g] : g \in DOMAIN c.uses} : c \in Configs}
Groups(c) == DOMAIN c.uses

Init ==
    /\ local \in BOOLEAN /\ file \in Texts
    /\ injected = Missing /\ at = "preflight"
    /\ router = None /\ client = None /\ call = Idle
    /\ probes = [d \in Deployments |-> {}] /\ probed = [d \in Deployments |-> 0]
    /\ excuses = {} /\ edits = 0 /\ faults = 0

--------------------------------------------------------------------------
(* The configuration *)

AliasesHold(c) ==
    c.aliased => /\ DOMAIN c.aliases = Tiers
                 /\ \A t \in Tiers : c.aliases[t] \in Groups(c)
FallbacksFit(c) ==
    \A g \in DOMAIN c.falls : g \in Groups(c) /\ c.falls[g] \subseteq Groups(c)
Accepted(c) ==
    /\ Groups(c) # {} /\ c.default \in Tiers
    /\ AliasesHold(c) /\ FallbacksFit(c)
\* The group of a tier; without tier_aliases there is none.
TierModel(c, t) == IF c.aliased /\ t \in DOMAIN c.aliases THEN c.aliases[t] ELSE NoGroup

\* A text that does not parse, is refused or is not there gives no manager.
Load(text) == IF text \in Configs /\ Accepted(text) THEN text ELSE None
Source == IF local THEN file ELSE injected

\* Outside a local environment the program does not start without a JSON object.
Preflight ==
    /\ at = "preflight"
    /\ \/ local /\ at' = "init" /\ UNCHANGED injected
       \/ ~local /\ file \in Configs /\ at' = "init" /\ injected' = file
       \/ ~local /\ file \notin Configs /\ at' = "aborted" /\ UNCHANGED injected
    /\ UNCHANGED <<local, file, router, probes, probed, client, call, excuses, edits, faults>>

\* The file is read again where it is needed: it may change in between.
EditFile ==
    /\ local /\ edits < MaxEdits /\ at \in {"preflight", "init", "warm", "wire"}
    /\ file' \in Texts \ {file} /\ edits' = edits + 1
    /\ UNCHANGED <<local, injected, at, router, probes, probed, client, call, excuses, faults>>

--------------------------------------------------------------------------
(* The router and its warm-up *)

\* A group is probed once for each signature of its first deployment.
IdentityOfGroup(c, g) == g
Identity(c, g) == c.uses[g]
WarmupOrder == <<"standard", "strong", "fast", "reasoning">>
Before(t) == {WarmupOrder[j] : j \in {i \in 1..4 : \E k \in 1..4 : k > i /\ WarmupOrder[k] = t}}
Selected(c) ==
    IF ~c.aliased THEN {}
    ELSE {c.aliases[t] : t \in {u \in Tiers :
            \A v \in Before(u) : Identity(c, c.aliases[v]) # Identity(c, c.aliases[u])}}

\* A probe is one completion, which the group's deployment is asked for.
Asked(c, groups, d) == {g \in groups : c.uses[g] = d}

Initialize ==
    /\ at = "init"
    /\ \/ /\ router' = Load(Source) /\ UNCHANGED <<faults, excuses>>
       \/ /\ Load(Source) # None /\ faults < MaxFaults   \* the library refuses it
          /\ faults' = faults + 1 /\ router' = None /\ UNCHANGED excuses
    /\ LET groups == IF router' = None THEN {} ELSE Selected(router') IN
          /\ probes' = [d \in Deployments |-> Asked(router', groups, d)]
          /\ probed' = [d \in Deployments |-> Cardinality(probes'[d])]
          /\ at' = IF router' = None THEN "wire" ELSE "warm"
    /\ UNCHANGED <<local, file, injected, client, call, edits>>

\* A probe answers, fails or runs into its time limit.
ProbeEnds(d) ==
    /\ at = "warm"
    /\ \E g \in probes[d] : probes' = [probes EXCEPT ![d] = @ \ {g}]
    /\ UNCHANGED <<local, file, injected, at, router, probed, client, call, excuses, edits, faults>>

WarmedUp ==
    /\ at = "warm" /\ \A d \in Deployments : probes[d] = {}
    /\ at' = "wire"
    /\ UNCHANGED <<local, file, injected, router, probes, probed, client, call, excuses, edits, faults>>

\* The wiring takes the context's router, or builds one of its own from what the
\* source holds now, or a client that can only say it is unavailable.
ClientOfContext(loaded) == router
Client(loaded) == IF router # None THEN router ELSE loaded

Wire ==
    /\ at = "wire" /\ at' = "up"
    /\ \/ /\ client' = Client(Load(Source))
          /\ excuses' = excuses \cup (IF Load(Source) = None /\ router = None THEN {"none"} ELSE {})
          /\ UNCHANGED faults
       \/ /\ router = None /\ Load(Source) # None /\ faults < MaxFaults
          /\ faults' = faults + 1 /\ client' = None /\ excuses' = excuses \cup {"none"}
    /\ UNCHANGED <<local, file, injected, router, probes, probed, call, edits>>

--------------------------------------------------------------------------
(* The calls *)

BaseTier(i) ==
    LET has(w) == w \in i.wish IN
    IF has("reasoning") THEN "reasoning"
    ELSE CASE i.purpose = "chat_turn" -> IF has("quick") THEN "standard" ELSE "strong"
           [] i.purpose = "tool_call" -> IF has("quick") THEN "standard" ELSE "strong"
           [] i.purpose \in {"plan", "reflect"} -> IF has("quality") THEN "strong" ELSE "standard"
           [] i.purpose \in {"extract", "classify"} -> IF has("quality") THEN "standard" ELSE "fast"
           [] i.purpose = "summarize" -> IF has("long") THEN "strong" ELSE "standard"
           [] OTHER -> "standard"
ChooseForTools(i) == IF "tools" \in i.wish THEN "standard" ELSE BaseTier(i)
Choose(i) == IF "tools" \in i.wish /\ BaseTier(i) = "fast" THEN "standard" ELSE BaseTier(i)

Answered(answer) == call' = [call EXCEPT !.at = "answered", !.answer = answer]

\* Calls share nothing: one stands for all.
Invoke(i) ==
    /\ at = "up" /\ call.at = "idle"
    /\ LET tier == Choose(i)
           group == IF client = None THEN NoGroup ELSE TierModel(client, tier)
       IN call' = [at |-> IF group = NoGroup THEN "answered" ELSE "sent",
                   intent |-> i, tier |-> tier, group |-> group,
                   answer |-> IF client = None THEN "unavailable"
                              ELSE IF group = NoGroup THEN "no model" ELSE "none"]
    /\ UNCHANGED <<start, excuses, faults>>

Falls(g) == IF g \in DOMAIN client.falls THEN client.falls[g] ELSE {}
\* External: the group's deployments answer, or those of its fallbacks.
Completes ==
    /\ call.at = "sent" /\ call.group \in Groups(client)
    /\ \E g \in {call.group} \cup Falls(call.group) : Answered(g)
    /\ UNCHANGED <<start, excuses, faults>>
\* Whatever is raised comes back as the text of an answer; a group the library
\* does not know raises.
Raises ==
    /\ call.at = "sent" /\ Answered("error")
    /\ \/ call.group \notin Groups(client) /\ UNCHANGED <<excuses, faults>>
       \/ /\ call.group \in Groups(client) /\ faults < MaxFaults
          /\ faults' = faults + 1 /\ excuses' = excuses \cup {"raised"}
    /\ UNCHANGED start

--------------------------------------------------------------------------
Step ==
    \/ Preflight \/ Initialize \/ WarmedUp \/ Wire \/ Completes \/ Raises
    \/ \E d \in Deployments : ProbeEnds(d)
Next ==
    \/ Step \/ EditFile
    \/ \E i \in Intents : Invoke(i)

Spec == Init /\ [][Next]_vars

--------------------------------------------------------------------------
TypeOK ==
    /\ local \in BOOLEAN /\ file \in Texts /\ injected \in Texts
    /\ at \in {"preflight", "aborted", "init", "warm", "wire", "up"}
    /\ router \in Configs \cup {None} /\ client \in Configs \cup {None}
    /\ call.at \in {"idle", "sent", "answered"} /\ excuses \subseteq {"none", "raised"}
    /\ edits <= MaxEdits /\ faults <= MaxFaults

(* The warm-up asks each deployment behind the tiers once, and leaves none   *)
(* out that is some tier's first choice (litellm_provider._resolve_default_  *)
(* warmup_models).                                                           *)
ProbedOnce ==
    at \in {"warm", "wire", "up"} /\ router # None =>
        \A d \in Deployments :
            probed[d] = IF router.aliased /\ \E t \in Tiers : router.uses[router.aliases[t]] = d
                        THEN 1 ELSE 0

(* A call hears an error only for a cause outside the router: nothing usable *)
(* was configured when the client was made, the library raised, or the       *)
(* configuration names no tiers at all.  Otherwise it is answered by the     *)
(* group of its tier or a group named as its fallback.                       *)
ServedByItsTier ==
    call.at = "answered" =>
        CASE call.answer = "unavailable" -> "none" \in excuses
          [] call.answer = "no model"    -> ~client.aliased
          [] call.answer = "error"       -> "raised" \in excuses
          [] OTHER -> call.answer \in {TierModel(client, call.tier)}
                                       \cup Falls(TierModel(client, call.tier))

(* Asking for more never gets a weaker tier, whatever the purpose; asking to *)
(* be quick never a stronger one; a call with tools is never sent to the     *)
(* fast tier (routing_policy.TableRoutingPolicy.choose).                     *)
WishesHonoured ==
    call.at # "idle" =>
        /\ "tools" \in call.intent.wish => call.tier # "fast"
        /\ \A w \in {"reasoning", "long", "tools", "quality"} \cap call.intent.wish :
               Rank[call.tier] >= Rank[Choose([call.intent EXCEPT !.wish = @ \ {w}])]
        /\ "quick" \in call.intent.wish =>
               Rank[call.tier] <= Rank[Choose([call.intent EXCEPT !.wish = @ \ {"quick"}])]

(* Every start ends and every call is answered. *)
Settled == at \in {"aborted", "up"} /\ call.at # "sent"
=============================================================================
