---------------------------- MODULE Suggestions ----------------------------
(***************************************************************************)
(* SuggestionStore (src/worker/lifecycle/suggestion_store.py) and the two  *)
(* commands that decide over a suggestion.  A suggestion is a file that    *)
(* moves between the directories pending, claimed and resolved.  A claim   *)
(* is a lease: /approve_suggestion refreshes it in the background while it *)
(* writes the duty or the skill, and a claim not refreshed for ten minutes *)
(* goes back to pending.  Once the side effects are done a checkpoint is   *)
(* written into the claimed record, so that a later approval only resolves *)
(* the suggestion.                                                         *)
(*                                                                         *)
(* Operations of the store do not suspend: each is one step, but a kill    *)
(* may leave it half done.  Every operation that reads pending suggestions *)
(* first recovers stale claims and expires overdue suggestions.            *)
(***************************************************************************)
EXTENDS Integers, FiniteSets

CONSTANTS
    Ids,           \* suggestion_ids
    Source,        \* the (type, source_entity_id) of a suggestion
    Commands,      \* invocations of the two commands; a claim_token each
    NoToken,       \* of a record that carries no claim_token
    WriteMayFail,  \* writing or moving a record may raise, removing may not
    MaxCrashes     \* bound

ASSUME SuggestionConstants ==
    /\ IsFiniteSet(Ids) /\ Ids # {} /\ IsFiniteSet(Commands)
    /\ NoToken \notin Commands
    /\ WriteMayFail \in BOOLEAN
    /\ MaxCrashes \in Nat

VARIABLES
    file,      \* where the undecided record is: "none", "pending", "claimed"
    token,     \* claim_token of a claimed record
    stale,     \* its claimed_at is more than the claim timeout ago
    stage,     \* approval_stage: the checkpoint has been written
    overdue,   \* expires_at has passed
    resolved,  \* status of the record in the resolved directory
    cooling,   \* rejected less than cooldown_days ago
    created,   \* the suggestions made so far
    cmd,       \* a command: its step, its suggestion
    beating,   \* its heartbeat loop refreshes the claim
    applied,   \* history: how often the side effects were done
    lapses,    \* history: how often a claim was recovered
    crashes

records == <<file, token, stale, stage, resolved, cooling, lapses>>
vars == <<records, overdue, created, cmd, beating, applied, crashes>>

Init ==
    /\ file = [s \in Ids |-> "none"]
    /\ token = [s \in Ids |-> NoToken]
    /\ stale = [s \in Ids |-> FALSE]
    /\ stage = [s \in Ids |-> FALSE]
    /\ overdue = [s \in Ids |-> FALSE]
    /\ resolved = [s \in Ids |-> "none"]
    /\ cooling = {}
    /\ created = {}
    /\ cmd = [c \in Commands |-> [pc |-> "idle", s |-> CHOOSE s \in Ids : TRUE]]
    /\ beating = [c \in Commands |-> FALSE]
    /\ applied = [s \in Ids |-> 0]
    /\ lapses = [s \in Ids |-> 0]
    /\ crashes = 0

-----------------------------------------------------------------------------
(* The sweep: recover stale claims, then expire overdue suggestions.       *)

\* Faulty variant: an abandoned claim is never recovered.
RecoveredNever == {}

Recovered == {s \in Ids : file[s] = "claimed" /\ stale[s]}
Expiring  == {s \in Ids : (file[s] = "pending" \/ s \in Recovered) /\ overdue[s]}

\* What the sweep leaves of the files and of the resolved directory.
SweptFile ==
    [s \in Ids |-> IF s \in Expiring THEN "none"
                   ELSE IF s \in Recovered THEN "pending" ELSE file[s]]
SweptResolved == [s \in Ids |-> IF s \in Expiring THEN "expired" ELSE resolved[s]]

SweptLease ==
    /\ lapses' = [s \in Ids |-> IF s \in Recovered THEN lapses[s] + 1 ELSE lapses[s]]
    /\ stale' = [s \in Ids |-> stale[s] /\ s \notin Recovered]

SweptToken == [s \in Ids |-> IF s \in Recovered THEN NoToken ELSE token[s]]

SweepAnd(newFile, newToken, newResolved) ==
    /\ SweptLease
    /\ file' = newFile
    /\ token' = newToken
    /\ resolved' = newResolved

OnlySweep == SweepAnd(SweptFile, SweptToken, SweptResolved) /\ UNCHANGED <<stage, cooling>>

\* A detector, a listing command or get_state sweeps.
Sweep ==
    /\ OnlySweep
    /\ UNCHANGED <<overdue, created, cmd, beating, applied, crashes>>

-----------------------------------------------------------------------------
(* Creation.                                                               *)

\* creation_block_reason looks at the pending and at the resolved records.
Blocked(s) ==
    \E t \in Ids :
        /\ Source[t] = Source[s]
        /\ \/ SweptFile[t] = "pending"
           \/ SweptResolved[t] = "approved"
           \/ SweptResolved[t] = "rejected" /\ t \in cooling

Create(s) ==
    /\ s \notin created
    /\ \/ Blocked(s) /\ OnlySweep /\ UNCHANGED created
       \/ /\ ~Blocked(s)
          /\ SweepAnd([SweptFile EXCEPT ![s] = "pending"], SweptToken, SweptResolved)
          /\ created' = created \union {s}
          /\ UNCHANGED <<stage, cooling>>
    /\ UNCHANGED <<overdue, cmd, beating, applied, crashes>>

-----------------------------------------------------------------------------
(* /approve_suggestion.                                                    *)

\* Faulty variants: the checkpoint is not looked at, or taken for granted.
CheckpointedNever(s) == FALSE
CheckpointedAlways(s) == TRUE

Checkpointed(s) == stage[s]

\* Faulty variant: a resolved record stays where it was as well.
RemainsPending(s) == IF file[s] = "pending" THEN "pending" ELSE "none"

\* resolve removes the record from where it read it.
FileAfterResolve(s) == "none"

Goto(c, s, pc) == cmd' = [cmd EXCEPT ![c] = [pc |-> pc, s |-> s]]

\* Claimed for t and not given back: writing the token raised, or resolving
\* raised and release_claim as well.
KeptBy(t, s) ==
    /\ WriteMayFail
    /\ SweepAnd([SweptFile EXCEPT ![s] = "claimed"], [SweptToken EXCEPT ![s] = t], SweptResolved)
    /\ UNCHANGED <<stage, cooling>>

\* Claimed, and resolved without giving up control.
ResolvedAtOnce(s, verdict) ==
    /\ SweepAnd([SweptFile EXCEPT ![s] = FileAfterResolve(s)], SweptToken,
                [SweptResolved EXCEPT ![s] = verdict])
    /\ cooling' = IF verdict = "rejected" THEN cooling \union {s} ELSE cooling
    /\ UNCHANGED stage

\* The claim fails, or finds a checkpoint and resolves at once, or starts
\* the heartbeat and goes on to write the duty or the skill.
ApproveClaims(c, s) ==
    /\ cmd[c].pc = "idle"
    /\ \/ /\ SweptFile[s] # "pending"
          /\ OnlySweep
          /\ Goto(c, s, "done") /\ UNCHANGED beating
       \/ /\ SweptFile[s] = "pending"
          /\ KeptBy(NoToken, s)
          /\ Goto(c, s, "done") /\ UNCHANGED beating
       \/ /\ SweptFile[s] = "pending"
          /\ Checkpointed(s)
          /\ ResolvedAtOnce(s, "approved") \/ (WriteMayFail /\ OnlySweep) \/ KeptBy(c, s)
          /\ Goto(c, s, "done") /\ UNCHANGED beating
       \/ /\ SweptFile[s] = "pending"
          /\ ~Checkpointed(s)
          /\ SweepAnd([SweptFile EXCEPT ![s] = "claimed"], [SweptToken EXCEPT ![s] = c], SweptResolved)
          /\ Goto(c, s, "applying")
          /\ beating' = [beating EXCEPT ![c] = TRUE]
          /\ UNCHANGED <<stage, cooling>>
    /\ UNCHANGED <<overdue, created, applied, crashes>>

\* The claimed file is there, with this command's token or with none.
HoldsClaim(c) ==
    LET s == cmd[c].s IN file[s] = "claimed" /\ token[s] \in {c, NoToken}

\* release_claim: without the claim, or when it raises, it changes nothing.
Release(c) ==
    LET s == cmd[c].s IN
    \/ /\ HoldsClaim(c)
       /\ file' = [file EXCEPT ![s] = "pending"]
       /\ token' = [token EXCEPT ![s] = NoToken]
       /\ stale' = [stale EXCEPT ![s] = FALSE]
    \/ /\ WriteMayFail \/ ~HoldsClaim(c)
       /\ UNCHANGED <<file, token, stale>>

Leave(c) ==
    /\ Goto(c, cmd[c].s, "done")
    /\ beating' = [beating EXCEPT ![c] = FALSE]
    /\ UNCHANGED <<overdue, created, applied, crashes>>

\* Faulty variant: the command does the side effects over and over.
ApproveAppliesAgain(c) ==
    /\ cmd[c].pc = "applying"
    /\ applied[cmd[c].s] <= Cardinality(Commands)
    /\ applied' = [applied EXCEPT ![cmd[c].s] = @ + 1]
    /\ UNCHANGED <<records, overdue, created, cmd, beating, crashes>>

\* The duty or the skill is written; triggers are registered after it.
ApproveApplies(c) ==
    /\ cmd[c].pc = "applying"
    /\ Goto(c, cmd[c].s, "applied")
    /\ applied' = [applied EXCEPT ![cmd[c].s] = @ + 1]
    /\ UNCHANGED <<records, overdue, created, beating, crashes>>

\* The payload is invalid or building it fails: the claim is given back.
ApproveCannotApply(c) ==
    /\ cmd[c].pc = "applying"
    /\ Release(c)
    /\ UNCHANGED <<stage, resolved, cooling, lapses>>
    /\ Leave(c)

\* What resolve may read: the claimed record, the token permitting, or a
\* pending one, whatever the token.
Readable(c) == HoldsClaim(c) \/ file[cmd[c].s] = "pending"

\* The checkpoint is written and the suggestion resolved.  When writing the
\* checkpoint raises the claim is kept; when resolving raises it is given
\* back; without the claim both do nothing, and the pending record is
\* resolved without a checkpoint.
ApproveResolves(c) ==
    LET s == cmd[c].s IN
    /\ cmd[c].pc = "applied"
    /\ \/ /\ Readable(c)
          /\ resolved' = [resolved EXCEPT ![s] = "approved"]
          /\ file' = [file EXCEPT ![s] = FileAfterResolve(s)]
          /\ token' = [token EXCEPT ![s] = NoToken]
          /\ stale' = [stale EXCEPT ![s] = FALSE]
          /\ stage' = [stage EXCEPT ![s] = @ \/ HoldsClaim(c)]
       \/ /\ ~Readable(c)
          /\ UNCHANGED <<file, token, stale, stage, resolved>>
       \/ /\ WriteMayFail /\ HoldsClaim(c)
          /\ UNCHANGED <<file, token, stale, stage, resolved>>
       \/ /\ WriteMayFail
          /\ stage' = [stage EXCEPT ![s] = @ \/ HoldsClaim(c)]
          /\ Release(c)
          /\ UNCHANGED resolved
    /\ UNCHANGED <<cooling, lapses>>
    /\ Leave(c)

-----------------------------------------------------------------------------
(* /reject_suggestion, which does not suspend.                             *)

\* Faulty variant: what was applied is rejected.
RejectableAlways(s) == TRUE

Rejectable(s) == ~Checkpointed(s)

Reject(c, s) ==
    /\ cmd[c].pc = "idle"
    /\ \/ SweptFile[s] # "pending" /\ OnlySweep
       \/ /\ SweptFile[s] = "pending" /\ ~Rejectable(s)
          /\ OnlySweep \/ KeptBy(c, s)
       \/ /\ SweptFile[s] = "pending" /\ KeptBy(NoToken, s)
       \/ /\ SweptFile[s] = "pending" /\ Rejectable(s)
          /\ ResolvedAtOnce(s, "rejected") \/ (WriteMayFail /\ OnlySweep) \/ KeptBy(c, s)
    /\ Goto(c, s, "done")
    /\ UNCHANGED <<overdue, created, beating, applied, crashes>>

-----------------------------------------------------------------------------
(* Time, and the heartbeat loop.                                           *)

\* The loop refreshes claimed_at well before the timeout, unless refreshing
\* raised once.
Refreshed(s) == \E c \in Commands : beating[c] /\ cmd[c].s = s /\ token[s] = c

ClaimAges(s) ==
    /\ file[s] = "claimed" /\ ~stale[s] /\ ~Refreshed(s)
    /\ stale' = [stale EXCEPT ![s] = TRUE]
    /\ UNCHANGED <<file, token, stage, resolved, cooling, lapses,
                   overdue, created, cmd, beating, applied, crashes>>

BeatStops(c) ==
    /\ beating[c]
    /\ WriteMayFail
    /\ beating' = [beating EXCEPT ![c] = FALSE]
    /\ UNCHANGED <<records, overdue, created, cmd, applied, crashes>>

DaysPass(s) ==
    /\ s \in created
    /\ \/ ~overdue[s] /\ overdue' = [overdue EXCEPT ![s] = TRUE] /\ UNCHANGED cooling
       \/ s \in cooling /\ cooling' = cooling \ {s} /\ UNCHANGED overdue
    /\ UNCHANGED <<file, token, stale, stage, resolved, lapses, created, cmd, beating, applied, crashes>>

-----------------------------------------------------------------------------
(* The process is killed, between two operations or in the middle of one.  *)

Dies ==
    /\ crashes < MaxCrashes
    /\ crashes' = crashes + 1
    /\ cmd' = [c \in Commands |-> IF cmd[c].pc = "idle" THEN cmd[c] ELSE [cmd[c] EXCEPT !.pc = "done"]]
    /\ beating' = [c \in Commands |-> FALSE]
    /\ UNCHANGED <<overdue, created, applied, lapses, cooling, stale>>

Crash == Dies /\ UNCHANGED <<file, token, stage, resolved>>

\* The record was moved to claimed, its token not yet written.
CrashClaiming(s) ==
    /\ Dies
    /\ file[s] = "pending"
    /\ file' = [file EXCEPT ![s] = "claimed"]
    /\ UNCHANGED <<token, stage, resolved>>

\* The checkpoint was written, the resolved record perhaps, the claimed or
\* pending one is still there.
CrashApproving(c) ==
    LET s == cmd[c].s IN
    /\ Dies
    /\ cmd[c].pc = "applied"
    /\ stage' = [stage EXCEPT ![s] = @ \/ HoldsClaim(c)]
    /\ \/ UNCHANGED resolved
       \/ Readable(c) /\ resolved' = [resolved EXCEPT ![s] = "approved"]
    /\ UNCHANGED <<file, token>>

\* The rejection was written, the claimed record is still there.
CrashRejecting(s) ==
    /\ Dies
    /\ file[s] = "pending" /\ Rejectable(s)
    /\ file' = [file EXCEPT ![s] = "claimed"]
    /\ resolved' = [resolved EXCEPT ![s] = "rejected"]
    /\ UNCHANGED <<token, stage>>

Approve(c) ==
    \/ \E s \in Ids : ApproveClaims(c, s)
    \/ ApproveApplies(c) \/ ApproveCannotApply(c) \/ ApproveResolves(c) \/ BeatStops(c)

Crashes ==
    \/ Crash
    \/ \E s \in Ids : CrashClaiming(s) \/ CrashRejecting(s)
    \/ \E c \in Commands : CrashApproving(c)

Next ==
    \/ Sweep
    \/ \E s \in Ids : Create(s) \/ ClaimAges(s) \/ DaysPass(s)
    \/ \E c \in Commands : Approve(c) \/ \E s \in Ids : Reject(c, s)
    \/ Crashes

Spec == Init /\ [][Next]_vars

\* The lifecycle jobs sweep at an interval, clocks run, and a command that
\* was started ends.
Fairness ==
    /\ WF_vars(Sweep)
    /\ \A s \in Ids : WF_vars(ClaimAges(s))
    /\ \A c \in Commands :
          WF_vars(ApproveApplies(c) \/ ApproveCannotApply(c) \/ ApproveResolves(c))

FairSpec == Spec /\ Fairness

-----------------------------------------------------------------------------
(* Properties.                                                             *)

\* Every variable has its type.
TypeOK ==
    /\ file \in [Ids -> {"none", "pending", "claimed"}]
    /\ token \in [Ids -> Commands \union {NoToken}]
    /\ stale \in [Ids -> BOOLEAN]
    /\ stage \in [Ids -> BOOLEAN]
    /\ overdue \in [Ids -> BOOLEAN]
    /\ resolved \in [Ids -> {"none", "approved", "rejected", "expired"}]
    /\ cooling \subseteq created
    /\ created \subseteq Ids
    /\ cmd \in [Commands -> [pc : {"idle", "applying", "applied", "done"}, s : Ids]]
    /\ beating \in [Commands -> BOOLEAN]
    /\ applied \in [Ids -> 0..Cardinality(Commands)]
    /\ lapses \in [Ids -> 0..(Cardinality(Commands) + MaxCrashes)]
    /\ crashes \in 0..MaxCrashes

\* The commands that may still do the side effects of s.
Appliers(s) == {c \in Commands : cmd[c].pc = "applying" /\ cmd[c].s = s}

\* The side effects are done once, and once more only for each claim that
\* lapsed: never because two users approve, a write fails or an approval is
\* repeated.
AppliedOnce ==
    \A s \in Ids : applied[s] + Cardinality(Appliers(s)) <= 1 + lapses[s]

\* What was approved was done; what was rejected was not, unless by a
\* command whose claim lapsed.
VerdictFitsEffects ==
    \A s \in Ids :
        /\ resolved[s] = "approved" => applied[s] > 0
        /\ resolved[s] = "rejected" => applied[s] <= lapses[s]

\* Once the checkpoint is written no step rejects the suggestion.
CheckpointStands ==
    [][\A s \in Ids : stage[s] /\ resolved'[s] = "rejected" => resolved[s] = "rejected"]_vars

\* As long as no operation is cut short, a decided suggestion is nowhere
\* else: it cannot be claimed, decided or expired again.
ResolvedIsGone ==
    crashes = 0 => \A s \in Ids : resolved[s] # "none" => file[s] = "none"

\* No claim is for ever: its command ends or the sweep recovers it.
ClaimsEnd == \A s \in Ids : (file[s] = "claimed") ~> (file[s] # "claimed")

\* One suggestion of a source is approved at most: creation_block_reason is
\* to say when "a suggestion source cannot be re-created", "already
\* approved" and "duplicate pending suggestion" among its reasons.
OneApprovalPerSource ==
    \A s, t \in Ids :
        /\ Source[s] = Source[t]
        /\ resolved[s] = "approved" /\ resolved[t] = "approved"
        => s = t
=============================================================================
