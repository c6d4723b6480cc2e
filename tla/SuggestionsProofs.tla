------------------------- MODULE SuggestionsProofs -------------------------
(***************************************************************************)
(* Theorems of Suggestions, for every set of suggestions and of commands,  *)
(* any number of kills, and whether or not writes may raise.               *)
(***************************************************************************)
EXTENDS Suggestions, FiniteSetTheorems, TLAPS

Busy(c, s) == cmd[c].pc \in {"applying", "applied"} /\ cmd[c].s = s

\* The types, without the bounds on the counters.
Types ==
    /\ file \in [Ids -> {"none", "pending", "claimed"}]
    /\ token \in [Ids -> Commands \union {NoToken}]
    /\ stale \in [Ids -> BOOLEAN]
    /\ stage \in [Ids -> BOOLEAN]
    /\ overdue \in [Ids -> BOOLEAN]
    /\ resolved \in [Ids -> {"none", "approved", "rejected", "expired"}]
    /\ cooling \subseteq created
    /\ created \subseteq Ids
    /\ cmd \in [Commands -> [pc : {"idle", "applying", "applied", "done"}, s : Ids]]
    /\ beating \in [Commands -> BOOLEAN]
    /\ applied \in [Ids -> Nat]
    /\ lapses \in [Ids -> Nat]
    /\ crashes \in 0..MaxCrashes

\* Nothing is known of a suggestion that was not created.
Born ==
    \A s \in Ids \ created :
        /\ file[s] = "none" /\ resolved[s] = "none" /\ ~stage[s] /\ applied[s] = 0
        /\ \A c \in Commands : ~Busy(c, s)

\* Checkpoints, approvals and commands that claim so tell of real effects.
Effects ==
    /\ \A s \in Ids : stage[s] \/ resolved[s] = "approved" => applied[s] > 0
    /\ \A c \in Commands : cmd[c].pc = "applied" => applied[cmd[c].s] > 0

Base == Types /\ Born /\ Effects

LEMMA BaseInit == Init => Base
BY SuggestionConstants DEF Init, Base, Types, Born, Effects, Busy

\* What a sweep leaves of the files and records.
LEMMA SweptIsTyped ==
    ASSUME Base
    PROVE  /\ SweptFile \in [Ids -> {"none", "pending", "claimed"}]
           /\ SweptToken \in [Ids -> Commands \union {NoToken}]
           /\ SweptResolved \in [Ids -> {"none", "approved", "rejected", "expired"}]
           /\ \A s \in Ids \ created : SweptFile[s] = "none" /\ SweptResolved[s] = "none"
           /\ \A s \in Ids : SweptResolved[s] = "approved" => resolved[s] = "approved"
           /\ SweptLease => lapses' \in [Ids -> Nat] /\ stale' \in [Ids -> BOOLEAN]
<1>1. /\ SweptFile \in [Ids -> {"none", "pending", "claimed"}]
      /\ \A s \in Ids \ created : SweptFile[s] = "none"
  BY DEF Base, Types, Born, SweptFile, Recovered, Expiring
<1>2. SweptToken \in [Ids -> Commands \union {NoToken}]
  BY DEF Base, Types, SweptToken
<1>3. /\ SweptResolved \in [Ids -> {"none", "approved", "rejected", "expired"}]
      /\ \A s \in Ids \ created : SweptResolved[s] = "none"
      /\ \A s \in Ids : SweptResolved[s] = "approved" => resolved[s] = "approved"
  BY DEF Base, Types, Born, SweptResolved, Recovered, Expiring
<1>4. SweptLease => lapses' \in [Ids -> Nat] /\ stale' \in [Ids -> BOOLEAN]
  BY DEF Base, Types, SweptLease
<1>. QED
  BY <1>1, <1>2, <1>3, <1>4

\* A kill ends every command under way and touches no other.
LEMMA DiesEndsCommands ==
    ASSUME Types, Dies
    PROVE  /\ cmd' \in [Commands -> [pc : {"idle", "applying", "applied", "done"}, s : Ids]]
           /\ beating' \in [Commands -> BOOLEAN]
           /\ crashes' \in 1..MaxCrashes
           /\ \A c \in Commands : cmd'[c].pc = IF cmd[c].pc = "idle" THEN "idle" ELSE "done"
BY SuggestionConstants DEF Types, Dies

LEMMA BaseNext == Base /\ [Next]_vars => Base'
<1> SUFFICES ASSUME Base, [Next]_vars PROVE Base'
  OBVIOUS
<1>1. /\ SweptFile \in [Ids -> {"none", "pending", "claimed"}]
      /\ SweptToken \in [Ids -> Commands \union {NoToken}]
      /\ SweptResolved \in [Ids -> {"none", "approved", "rejected", "expired"}]
      /\ \A s \in Ids \ created : SweptFile[s] = "none" /\ SweptResolved[s] = "none"
      /\ \A s \in Ids : SweptResolved[s] = "approved" => resolved[s] = "approved"
      /\ SweptLease => lapses' \in [Ids -> Nat] /\ stale' \in [Ids -> BOOLEAN]
  BY SweptIsTyped
<1> USE SuggestionConstants DEF Base
<1>2. ASSUME Sweep PROVE Base'
  <2>1. Types'
    BY <1>1, <1>2 DEF Sweep, SweepAnd, OnlySweep, Types
  <2>2. Born'
    BY <1>1, <1>2 DEF Sweep, SweepAnd, OnlySweep, Types, Born, Busy
  <2>3. Effects'
    BY <1>1, <1>2 DEF Sweep, SweepAnd, OnlySweep, Types, Effects, Born
  <2>. QED
    BY <2>1, <2>2, <2>3
<1>3. ASSUME NEW s \in Ids, Create(s) PROVE Base'
  <2>1. Types'
    BY <1>1, <1>3 DEF Create, SweepAnd, OnlySweep, Types
  <2>2. Born'
    BY <1>1, <1>3 DEF Create, SweepAnd, OnlySweep, Types, Born, Busy
  <2>3. Effects'
    BY <1>1, <1>3 DEF Create, SweepAnd, OnlySweep, Types, Effects, Born
  <2>. QED
    BY <2>1, <2>2, <2>3
<1>4. ASSUME NEW s \in Ids, ClaimAges(s) PROVE Base'
  <2>1. Types'
    BY <1>4 DEF ClaimAges, Types
  <2>2. Born'
    BY <1>4 DEF ClaimAges, Types, Born, Busy
  <2>3. Effects'
    BY <1>4 DEF ClaimAges, Types, Effects, Born
  <2>. QED
    BY <2>1, <2>2, <2>3
<1>5. ASSUME NEW s \in Ids, DaysPass(s) PROVE Base'
  <2>1. Types'
    BY <1>5 DEF DaysPass, Types
  <2>2. Born'
    BY <1>5 DEF DaysPass, Types, Born, Busy
  <2>3. Effects'
    BY <1>5 DEF DaysPass, Types, Effects, Born
  <2>. QED
    BY <2>1, <2>2, <2>3
<1>6. ASSUME NEW c \in Commands, NEW s \in Ids, ApproveClaims(c, s) PROVE Base'
  <2>1. Types'
    <3>1. cmd' \in [Commands -> [pc : {"idle", "applying", "applied", "done"}, s : Ids]]
      BY <1>6 DEF ApproveClaims, Goto, Types
    <3>2. beating' \in [Commands -> BOOLEAN]
      BY <1>6 DEF ApproveClaims, Types
    <3>3. /\ file' \in [Ids -> {"none", "pending", "claimed"}]
          /\ token' \in [Ids -> Commands \union {NoToken}]
          /\ SweptLease
      BY <1>1, <1>6 DEF ApproveClaims, KeptBy, ResolvedAtOnce, FileAfterResolve, SweepAnd, OnlySweep
    <3>4. resolved' \in [Ids -> {"none", "approved", "rejected", "expired"}]
      BY <1>1, <1>6 DEF ApproveClaims, KeptBy, ResolvedAtOnce, SweepAnd, OnlySweep
    <3>5. UNCHANGED <<stage, cooling, overdue, created, applied, crashes>>
      BY <1>6 DEF ApproveClaims, KeptBy, ResolvedAtOnce, SweepAnd, OnlySweep
    <3>. QED
      BY <1>1, <3>1, <3>2, <3>3, <3>4, <3>5 DEF Types
  <2>2. Born'
    <3>1. UNCHANGED <<stage, created, applied>>
      BY <1>6 DEF ApproveClaims, KeptBy, ResolvedAtOnce, SweepAnd, OnlySweep
    <3>2. SUFFICES ASSUME NEW t \in Ids \ created
                   PROVE  /\ file'[t] = "none" /\ resolved'[t] = "none"
                          /\ \A d \in Commands : ~Busy(d, t)'
      BY <3>1 DEF Born
    <3>3. /\ file'[t] = "none" /\ resolved'[t] = "none"
          /\ t = s => cmd' = [cmd EXCEPT ![c] = [pc |-> "done", s |-> s]]
      BY <1>1, <1>6 DEF ApproveClaims, KeptBy, ResolvedAtOnce, FileAfterResolve, SweepAnd, OnlySweep, Goto
    <3>4. \E x : cmd' = [cmd EXCEPT ![c] = [pc |-> x, s |-> s]]
      BY <1>6 DEF ApproveClaims, Goto
    <3>. QED
      BY <3>3, <3>4 DEF Born, Busy, Types
  <2>3. Effects'
    BY <1>1, <1>6 DEF ApproveClaims, KeptBy, ResolvedAtOnce, FileAfterResolve, Checkpointed, Goto, SweepAnd, OnlySweep, Types, Effects, Born
  <2>. QED
    BY <2>1, <2>2, <2>3
<1>7. ASSUME NEW c \in Commands, ApproveApplies(c) PROVE Base'
  <2>1. Types'
    BY <1>7 DEF ApproveApplies, Goto, records, Types
  <2>2. Born'
    BY <1>7 DEF ApproveApplies, Goto, records, Types, Born, Busy
  <2>3. Effects'
    BY <1>7 DEF ApproveApplies, Goto, records, Types, Effects, Born
  <2>. QED
    BY <2>1, <2>2, <2>3
<1>8. ASSUME NEW c \in Commands, ApproveCannotApply(c) PROVE Base'
  <2>1. Types'
    <3>1. /\ cmd' \in [Commands -> [pc : {"idle", "applying", "applied", "done"}, s : Ids]]
          /\ beating' \in [Commands -> BOOLEAN]
      BY <1>8 DEF ApproveCannotApply, Leave, Goto, Types
    <3>2. file' \in [Ids -> {"none", "pending", "claimed"}]
      BY <1>8 DEF ApproveCannotApply, Release, FileAfterResolve, Types
    <3>3. token' \in [Ids -> Commands \union {NoToken}]
      BY <1>8 DEF ApproveCannotApply, Release, Types
    <3>4. stale' \in [Ids -> BOOLEAN]
      BY <1>8 DEF ApproveCannotApply, Release, Types
    <3>. QED
      BY <1>8, <3>1, <3>2, <3>3, <3>4 DEF ApproveCannotApply, Leave, Types
  <2>2. Born'
    BY <1>8 DEF ApproveCannotApply, Release, HoldsClaim, Leave, Goto, Types, Born, Busy
  <2>3. Effects'
    BY <1>8 DEF ApproveCannotApply, Release, HoldsClaim, Leave, Goto, Types, Effects, Born
  <2>. QED
    BY <2>1, <2>2, <2>3
<1>9. ASSUME NEW c \in Commands, ApproveResolves(c) PROVE Base'
  <2>1. Types'
    <3>1. /\ cmd' \in [Commands -> [pc : {"idle", "applying", "applied", "done"}, s : Ids]]
          /\ beating' \in [Commands -> BOOLEAN]
      BY <1>9 DEF ApproveResolves, Leave, Goto, Types
    <3>2. file' \in [Ids -> {"none", "pending", "claimed"}]
      BY <1>9 DEF ApproveResolves, Release, FileAfterResolve, Types
    <3>3. token' \in [Ids -> Commands \union {NoToken}]
      BY <1>9 DEF ApproveResolves, Release, Types
    <3>4. stale' \in [Ids -> BOOLEAN]
      BY <1>9 DEF ApproveResolves, Release, Types
    <3>5. stage' \in [Ids -> BOOLEAN]
      BY <1>9 DEF ApproveResolves, HoldsClaim, Types
    <3>6. resolved' \in [Ids -> {"none", "approved", "rejected", "expired"}]
      BY <1>9 DEF ApproveResolves, Types
    <3>. QED
      BY <1>9, <3>1, <3>2, <3>3, <3>4, <3>5, <3>6 DEF ApproveResolves, Leave, Types
  <2>2. Born'
    BY <1>9 DEF ApproveResolves, Release, HoldsClaim, Readable, FileAfterResolve, Leave, Goto, Types, Born, Busy
  <2>3. Effects'
    BY <1>9 DEF ApproveResolves, Release, HoldsClaim, Readable, FileAfterResolve, Leave, Goto, Types, Effects, Born
  <2>. QED
    BY <2>1, <2>2, <2>3
<1>10. ASSUME NEW c \in Commands, BeatStops(c) PROVE Base'
  <2>1. Types'
    BY <1>10 DEF BeatStops, records, Types
  <2>2. Born'
    BY <1>10 DEF BeatStops, records, Types, Born, Busy
  <2>3. Effects'
    BY <1>10 DEF BeatStops, records, Types, Effects, Born
  <2>. QED
    BY <2>1, <2>2, <2>3
<1>11. ASSUME NEW c \in Commands, NEW s \in Ids, Reject(c, s) PROVE Base'
  <2>1. Types'
    BY <1>1, <1>11 DEF Reject, KeptBy, ResolvedAtOnce, FileAfterResolve, Rejectable, Checkpointed, Goto, SweepAnd, OnlySweep, Types
  <2>2. Born'
    BY <1>1, <1>11 DEF Reject, KeptBy, ResolvedAtOnce, FileAfterResolve, Rejectable, Checkpointed, Goto, SweepAnd, OnlySweep, Types, Born, Busy
  <2>3. Effects'
    BY <1>1, <1>11 DEF Reject, KeptBy, ResolvedAtOnce, FileAfterResolve, Rejectable, Checkpointed, Goto, SweepAnd, OnlySweep, Types, Effects, Born
  <2>. QED
    BY <2>1, <2>2, <2>3
<1>12. ASSUME Crash PROVE Base'
  <2>1. Types'
    BY <1>12 DEF Crash, Dies, Types
  <2>2. Born'
    BY <1>12 DEF Crash, Dies, Types, Born, Busy
  <2>3. Effects'
    BY <1>12 DEF Crash, Dies, Types, Effects, Born
  <2>. QED
    BY <2>1, <2>2, <2>3
<1>13. ASSUME NEW s \in Ids, CrashClaiming(s) PROVE Base'
  <2>1. Types'
    BY <1>13 DEF CrashClaiming, Dies, Types
  <2>2. Born'
    BY <1>13 DEF CrashClaiming, Dies, Types, Born, Busy
  <2>3. Effects'
    BY <1>13 DEF CrashClaiming, Dies, Types, Effects, Born
  <2>. QED
    BY <2>1, <2>2, <2>3
<1>14. ASSUME NEW s \in Ids, CrashRejecting(s) PROVE Base'
  <2>1. Types'
    BY <1>14, DiesEndsCommands DEF CrashRejecting, Dies, Types
  <2>2. Born'
    BY <1>14 DEF CrashRejecting, Dies, Types, Born, Busy
  <2>3. Effects'
    BY <1>14 DEF CrashRejecting, Dies, Types, Effects, Born
  <2>. QED
    BY <2>1, <2>2, <2>3
<1>15. ASSUME NEW c \in Commands, CrashApproving(c) PROVE Base'
  <2>1. Types'
    BY <1>15 DEF CrashApproving, Dies, Readable, HoldsClaim, Types
  <2>2. Born'
    BY <1>15 DEF CrashApproving, Dies, Readable, HoldsClaim, Types, Born, Busy
  <2>3. Effects'
    BY <1>15 DEF CrashApproving, Dies, Readable, HoldsClaim, Types, Effects, Born
  <2>. QED
    BY <2>1, <2>2, <2>3
<1>16. CASE UNCHANGED vars
  BY <1>16 DEF vars, records, Types, Born, Effects, Busy
<1>. QED
  BY <1>2, <1>3, <1>4, <1>5, <1>6, <1>7, <1>8, <1>9, <1>10, <1>11, <1>12,
     <1>13, <1>14, <1>15, <1>16 DEF Next, Approve, Crashes

-----------------------------------------------------------------------------
(* The commands that may still do the side effects of a suggestion.        *)

Due(s) == Cardinality(Appliers(s))

LEMMA DueIsNatural ==
    ASSUME NEW s
    PROVE  IsFiniteSet(Appliers(s)) /\ Due(s) \in Nat
BY SuggestionConstants, FS_Subset, FS_CardinalityType DEF Due, Appliers

\* A command that begins with s is one more.
LEMMA DueBegins ==
    ASSUME Types, NEW c \in Commands, NEW s \in Ids, cmd[c].pc = "idle",
           Goto(c, s, "applying")
    PROVE  \A t \in Ids : Due(t)' = IF t = s THEN Due(t) + 1 ELSE Due(t)
<1> SUFFICES ASSUME NEW t \in Ids
             PROVE  Due(t)' = IF t = s THEN Due(t) + 1 ELSE Due(t)
  OBVIOUS
<1>1. c \notin Appliers(t)
  BY DEF Appliers
<1>2. Appliers(t)' = IF t = s THEN Appliers(t) \union {c} ELSE Appliers(t)
  BY DEF Types, Goto, Appliers
<1>. QED
  BY <1>1, <1>2, DueIsNatural, FS_AddElement DEF Due

\* A command that leaves its suggestion, or does not begin one, is not.
LEMMA DueLeaves ==
    ASSUME Types, NEW c \in Commands, NEW s \in Ids, NEW x, Goto(c, s, x),
           x # "applying"
    PROVE  \A t \in Ids : Due(t)' = IF c \in Appliers(t) THEN Due(t) - 1 ELSE Due(t)
<1> SUFFICES ASSUME NEW t \in Ids
             PROVE  Due(t)' = IF c \in Appliers(t) THEN Due(t) - 1 ELSE Due(t)
  OBVIOUS
<1>1. Appliers(t)' = Appliers(t) \ {c}
  BY DEF Types, Goto, Appliers
<1>. QED
  BY <1>1, DueIsNatural, FS_RemoveElement DEF Due

LEMMA DueDies ==
    ASSUME Types, Dies
    PROVE  \A t \in Ids : Due(t)' = 0
<1>1. \A t \in Ids : Appliers(t)' = {}
  BY DiesEndsCommands DEF Appliers
<1>. QED
  BY <1>1, FS_EmptySet DEF Due

-----------------------------------------------------------------------------
(* Side effects, done and due, against the claims that lapsed.             *)

\* A rejection is charged like an effect that must not come any more.
Blame(verdict) == IF verdict = "rejected" THEN 1 ELSE 0
Charge(s) == applied[s] + Due(s) + Blame(resolved[s])

\* What may be claimed, and has no checkpoint, leaves room for one effect.
Budget ==
    \A s \in Ids :
        /\ Charge(s) <= 1 + lapses[s]
        /\ file[s] = "pending" /\ ~stage[s] => Charge(s) <= lapses[s]

LEMMA BudgetInit == Init => Budget
<1> SUFFICES ASSUME Init, NEW s \in Ids PROVE Charge(s) = 0 /\ file[s] = "none" /\ lapses[s] = 0
  BY DEF Budget
<1>1. Appliers(s) = {}
  BY DEF Init, Appliers
<1>. QED
  BY <1>1, FS_EmptySet DEF Init, Charge, Due, Blame

\* The sweep turns each claim that it recovers into a lapse.
LEMMA SweepKeepsBudget ==
    ASSUME Base, Budget, SweptLease
    PROVE  \A t \in Ids :
             /\ lapses'[t] \in Nat
             /\ applied[t] + Due(t) + Blame(SweptResolved[t]) <= 1 + lapses'[t]
             /\ SweptFile[t] = "pending" /\ ~stage[t]
                  => applied[t] + Due(t) + Blame(SweptResolved[t]) <= lapses'[t]
<1> SUFFICES ASSUME NEW t \in Ids
             PROVE  /\ lapses'[t] \in Nat
                    /\ applied[t] + Due(t) + Blame(SweptResolved[t]) <= 1 + lapses'[t]
                    /\ SweptFile[t] = "pending" /\ ~stage[t]
                         => applied[t] + Due(t) + Blame(SweptResolved[t]) <= lapses'[t]
  OBVIOUS
<1>1. /\ applied[t] \in Nat /\ lapses[t] \in Nat /\ Due(t) \in Nat
      /\ lapses'[t] = IF t \in Recovered THEN lapses[t] + 1 ELSE lapses[t]
  BY DueIsNatural DEF Base, Types, SweptLease
<1>2. Blame(SweptResolved[t]) \in {0, 1} /\ Blame(SweptResolved[t]) <= Blame(resolved[t])
  BY DEF Base, Types, SweptResolved, Blame
<1>3. SweptFile[t] = "pending" => file[t] = "pending" \/ t \in Recovered
  BY DEF SweptFile
<1>4. Blame(resolved[t]) \in {0, 1}
  BY DEF Blame
<1>. QED
  BY <1>1, <1>2, <1>3, <1>4 DEF Budget, Charge

LEMMA BudgetNext == Base /\ Budget /\ [Next]_vars => Budget'
<1> SUFFICES ASSUME Base, Budget, [Next]_vars PROVE Budget'
  OBVIOUS
<1>1. ASSUME UNCHANGED <<file, stage, resolved, lapses, cmd, applied>> PROVE Budget'
  BY <1>1 DEF Budget, Charge, Due, Appliers
<1>2. \A t \in Ids : /\ applied[t] \in Nat /\ lapses[t] \in Nat /\ Due(t) \in Nat
                     /\ Blame(resolved[t]) \in {0, 1} /\ Blame(SweptResolved[t]) \in {0, 1}
  BY DueIsNatural DEF Base, Types, Blame
<1>3. ASSUME OnlySweep, UNCHANGED applied,
             \A t \in Ids : Due(t)' = Due(t)
      PROVE  Budget'
  BY <1>3, SweepKeepsBudget DEF OnlySweep, SweepAnd, Budget, Charge
<1>4. CASE Sweep
  BY <1>3, <1>4 DEF Sweep, Due, Appliers
<1>5. ASSUME NEW s \in Ids, Create(s) PROVE Budget'
  <2>1. \A t \in Ids : Due(t)' = Due(t) /\ applied'[t] = applied[t]
    BY <1>5 DEF Create, Due, Appliers
  <2>2. CASE OnlySweep
    BY <1>3, <1>5, <2>1, <2>2 DEF Create
  <2>3. CASE SweepAnd([SweptFile EXCEPT ![s] = "pending"], SweptToken, SweptResolved)
             /\ UNCHANGED stage /\ s \notin created
    <3>1. Appliers(s) = {} /\ applied[s] = 0 /\ resolved[s] = "none"
      BY <2>3 DEF Base, Born, Busy, Appliers
    <3>2. applied[s] + Due(s) + Blame(SweptResolved[s]) = 0
      BY <3>1, FS_EmptySet DEF Due, Blame, SweptResolved
    <3>. QED
      BY <1>2, <2>1, <2>3, <3>2, SweptIsTyped, SweepKeepsBudget DEF SweepAnd, Budget, Charge
  <2>. QED
    BY <1>5, <2>2, <2>3 DEF Create
<1>6. ASSUME NEW s \in Ids, ClaimAges(s) \/ DaysPass(s) PROVE Budget'
  BY <1>1, <1>6 DEF ClaimAges, DaysPass
<1>7. ASSUME NEW c \in Commands, NEW s \in Ids, ApproveClaims(c, s) PROVE Budget'
  <2>1. CASE Goto(c, s, "done") /\ cmd[c].pc = "idle" /\ UNCHANGED <<applied, stage>> /\ SweptLease
    <3>1. \A t \in Ids : Due(t)' = Due(t)
      BY <2>1, DueLeaves DEF Base, Appliers
    <3>2. \A t \in Ids : /\ file'[t] = SweptFile[t] \/ file'[t] # "pending"
                         /\ Blame(resolved'[t]) <= Blame(SweptResolved[t])
                         /\ Blame(resolved'[t]) \in {0, 1}
      BY <1>2, <1>7, <2>1, SweptIsTyped DEF ApproveClaims, KeptBy, ResolvedAtOnce, FileAfterResolve,
             SweepAnd, OnlySweep, Blame, Goto
    <3>. QED
      BY <1>2, <2>1, <3>1, <3>2, SweepKeepsBudget DEF Budget, Charge
  <2>2. CASE /\ SweptFile[s] = "pending" /\ ~stage[s]
             /\ SweepAnd([SweptFile EXCEPT ![s] = "claimed"], [SweptToken EXCEPT ![s] = c], SweptResolved)
             /\ Goto(c, s, "applying") /\ cmd[c].pc = "idle" /\ UNCHANGED <<applied, stage>>
    <3>1. \A t \in Ids : Due(t)' = IF t = s THEN Due(t) + 1 ELSE Due(t)
      BY <2>2, DueBegins DEF Base
    <3>2. /\ \A t \in Ids \ {s} : file'[t] = SweptFile[t]
          /\ file'[s] = "claimed" /\ resolved' = SweptResolved /\ SweptLease
      BY <2>2, SweptIsTyped DEF SweepAnd
    <3>. QED
      BY <1>2, <2>2, <3>1, <3>2, SweepKeepsBudget DEF Budget, Charge
  <2>. QED
    BY <1>7, <2>1, <2>2 DEF ApproveClaims, KeptBy, ResolvedAtOnce, OnlySweep, SweepAnd, Checkpointed
<1>8. ASSUME NEW c \in Commands, ApproveApplies(c) PROVE Budget'
  <2> DEFINE s == cmd[c].s
  <2>1. s \in Ids /\ c \in Appliers(s) /\ \A t \in Ids \ {s} : c \notin Appliers(t)
    BY <1>8 DEF ApproveApplies, Base, Types, Appliers
  <2>2. \A t \in Ids : Due(t)' = IF t = s THEN Due(t) - 1 ELSE Due(t)
    BY <1>8, <2>1, DueLeaves DEF ApproveApplies, Base
  <2>3. \A t \in Ids : applied'[t] = IF t = s THEN applied[t] + 1 ELSE applied[t]
    BY <1>8 DEF ApproveApplies, Base, Types
  <2>. QED
    BY <1>2, <1>8, <2>2, <2>3 DEF ApproveApplies, records, Budget, Charge
<1>9. ASSUME NEW c \in Commands, ApproveCannotApply(c) PROVE Budget'
  <2> DEFINE s == cmd[c].s
  <2>1. s \in Ids /\ c \in Appliers(s) /\ \A t \in Ids \ {s} : c \notin Appliers(t)
    BY <1>9 DEF ApproveCannotApply, Base, Types, Appliers
  <2>2. \A t \in Ids : Due(t)' = IF t = s THEN Due(t) - 1 ELSE Due(t)
    BY <1>9, <2>1, DueLeaves DEF ApproveCannotApply, Leave, Base
  <2>3. \A t \in Ids \ {s} : file'[t] = file[t]
    BY <1>9 DEF ApproveCannotApply, Release, Base, Types
  <2>. QED
    BY <1>2, <1>9, <2>2, <2>3 DEF ApproveCannotApply, Leave, Budget, Charge
<1>10. ASSUME NEW c \in Commands, ApproveResolves(c) PROVE Budget'
  <2> DEFINE s == cmd[c].s
  <2>1. \A t \in Ids : Due(t)' = Due(t)
    BY <1>10, DueLeaves DEF ApproveResolves, Leave, Base, Types, Appliers
  <2>2. \A t \in Ids \ {s} : file'[t] = file[t] /\ stage'[t] = stage[t] /\ resolved'[t] = resolved[t]
    BY <1>10 DEF ApproveResolves, Release, Base, Types
  <2>3. Blame(resolved'[s]) <= Blame(resolved[s]) /\ Blame(resolved'[s]) \in {0, 1}
    BY <1>10 DEF ApproveResolves, Base, Types, Blame
  <2>4. file'[s] = "pending" /\ ~stage'[s] => file[s] = "pending" /\ ~stage[s]
    BY <1>10 DEF ApproveResolves, Release, FileAfterResolve, Base, Types
  <2>. QED
    BY <1>2, <1>10, <2>1, <2>2, <2>3, <2>4 DEF ApproveResolves, Leave, Budget, Charge
<1>11. ASSUME NEW c \in Commands, BeatStops(c) PROVE Budget'
  BY <1>1, <1>11 DEF BeatStops, records
<1>12. ASSUME NEW c \in Commands, NEW s \in Ids, Reject(c, s) PROVE Budget'
  <2>1. \A t \in Ids : Due(t)' = Due(t)
    BY <1>12, DueLeaves DEF Reject, Base, Appliers
  <2>2. /\ SweptLease /\ UNCHANGED <<stage, applied>>
        /\ \A t \in Ids \ {s} : file'[t] = SweptFile[t] /\ resolved'[t] = SweptResolved[t]
    BY <1>12, SweptIsTyped DEF Reject, KeptBy, ResolvedAtOnce, SweepAnd, OnlySweep
  <2>3. \/ (file'[s] = SweptFile[s] \/ file'[s] # "pending") /\ resolved'[s] = SweptResolved[s]
        \/ SweptFile[s] = "pending" /\ ~stage[s] /\ file'[s] = "none" /\ resolved'[s] = "rejected"
    BY <1>12, SweptIsTyped DEF Reject, KeptBy, ResolvedAtOnce, FileAfterResolve, SweepAnd, OnlySweep,
                               Rejectable, Checkpointed
  <2>. QED
    BY <1>2, <2>1, <2>2, <2>3, SweepKeepsBudget DEF Budget, Charge, Blame
<1>13. ASSUME Dies, UNCHANGED <<file, stage, resolved>> PROVE Budget'
  BY <1>2, <1>13, DueDies DEF Base, Dies, Budget, Charge
<1>14. ASSUME NEW s \in Ids, CrashClaiming(s) \/ CrashRejecting(s) PROVE Budget'
  <2>1. /\ Dies /\ UNCHANGED <<stage, applied, lapses>>
        /\ \A t \in Ids \ {s} : file'[t] = file[t] /\ resolved'[t] = resolved[t]
        /\ file'[s] = "claimed"
        /\ \/ resolved'[s] = resolved[s]
           \/ file[s] = "pending" /\ ~stage[s]
    BY <1>14 DEF CrashClaiming, CrashRejecting, Rejectable, Checkpointed, Dies, Base, Types
  <2>2. \A t \in Ids : Due(t)' = 0
    BY <2>1, DueDies DEF Base
  <2>3. Blame(resolved'[s]) \in {0, 1}
    BY DEF Blame
  <2>. QED
    BY <1>2, <2>1, <2>2, <2>3 DEF Budget, Charge
<1>15. ASSUME NEW c \in Commands, CrashApproving(c) PROVE Budget'
  <2> DEFINE s == cmd[c].s
  <2>1. /\ Dies /\ UNCHANGED <<file, applied, lapses>>
        /\ \A t \in Ids \ {s} : stage'[t] = stage[t] /\ resolved'[t] = resolved[t]
        /\ stage[s] => stage'[s]
        /\ Blame(resolved'[s]) <= Blame(resolved[s]) /\ Blame(resolved'[s]) \in {0, 1}
    BY <1>15 DEF CrashApproving, Dies, Base, Types, Blame
  <2>2. \A t \in Ids : Due(t)' = 0
    BY <2>1, DueDies DEF Base
  <2>. QED
    BY <1>2, <2>1, <2>2 DEF Budget, Charge
<1>16. CASE UNCHANGED vars
  BY <1>1, <1>16 DEF vars, records
<1>. QED
  BY <1>4, <1>5, <1>6, <1>7, <1>8, <1>9, <1>10, <1>11, <1>12, <1>13, <1>14, <1>15, <1>16
     DEF Next, Approve, Crashes, Crash

-----------------------------------------------------------------------------
(* The bounds on the counters: a command claims once and applies once.     *)

Unused   == {c \in Commands : cmd[c].pc = "idle"}
MayApply == {c \in Commands : cmd[c].pc \in {"idle", "applying"}}
Held(where) == IF where = "claimed" THEN 1 ELSE 0

Counted ==
    \A s \in Ids :
        /\ applied[s] + Cardinality(MayApply) <= Cardinality(Commands)
        /\ lapses[s] + Held(file[s]) + Cardinality(Unused) <= Cardinality(Commands) + crashes

LEMMA CommandsAreFinite ==
    /\ IsFiniteSet(Unused) /\ Cardinality(Unused) \in Nat
    /\ IsFiniteSet(MayApply) /\ Cardinality(MayApply) \in Nat
    /\ Cardinality(Commands) \in Nat
BY SuggestionConstants, FS_Subset, FS_CardinalityType DEF Unused, MayApply

LEMMA CountedInit == Init => Counted
<1> SUFFICES ASSUME Init, NEW s \in Ids
             PROVE  Unused = Commands /\ MayApply = Commands /\ Held(file[s]) = 0
                    /\ applied[s] = 0 /\ lapses[s] = 0 /\ crashes = 0
  BY CommandsAreFinite DEF Counted
<1>. QED
  BY DEF Init, Unused, MayApply, Held

\* A command that leaves its first step is no longer unused, and no command
\* becomes unused or an applier again.
LEMMA CommandsMoveOn ==
    ASSUME Types, NEW c \in Commands, NEW s \in Ids, NEW x \in {"applying", "applied", "done"},
           x = "applying" => cmd[c].pc = "idle", Goto(c, s, x)
    PROVE  /\ Cardinality(MayApply') <= Cardinality(MayApply)
           /\ cmd[c].pc = "applying" => Cardinality(MayApply') = Cardinality(MayApply) - 1
           /\ Cardinality(Unused') = IF cmd[c].pc = "idle" THEN Cardinality(Unused) - 1
                                     ELSE Cardinality(Unused)
           /\ Cardinality(MayApply') \in Nat /\ Cardinality(Unused') \in Nat
<1>1. Unused' = Unused \ {c}
  BY DEF Types, Goto, Unused
<1>2. MayApply' = IF x = "applying" THEN MayApply ELSE MayApply \ {c}
  BY DEF Types, Goto, MayApply
<1>3. (c \in Unused <=> cmd[c].pc = "idle") /\ (cmd[c].pc = "applying" => c \in MayApply /\ x # "applying")
  BY DEF Unused, MayApply
<1>4. Cardinality(Unused \ {c}) = IF c \in Unused THEN Cardinality(Unused) - 1 ELSE Cardinality(Unused)
  BY CommandsAreFinite, FS_RemoveElement
<1>5. Cardinality(MayApply \ {c}) = IF c \in MayApply THEN Cardinality(MayApply) - 1 ELSE Cardinality(MayApply)
  BY CommandsAreFinite, FS_RemoveElement
<1>6. /\ IsFiniteSet(Unused \ {c}) /\ Cardinality(Unused \ {c}) \in Nat
      /\ IsFiniteSet(MayApply \ {c}) /\ Cardinality(MayApply \ {c}) \in Nat
  BY CommandsAreFinite, FS_RemoveElement, FS_CardinalityType
<1>. QED
  BY <1>1, <1>2, <1>3, <1>4, <1>5, <1>6, CommandsAreFinite

\* The sweep makes a lapse of a claim.
LEMMA SweepKeepsCount ==
    ASSUME Types, SweptLease
    PROVE  \A t \in Ids : lapses'[t] \in Nat /\ lapses'[t] + Held(SweptFile[t]) <= lapses[t] + Held(file[t])
BY DEF Types, SweptLease, SweptFile, Recovered, Held

LEMMA CountedNext == Base /\ Counted /\ [Next]_vars => Counted'
<1> SUFFICES ASSUME Base, Counted, [Next]_vars PROVE Counted'
  OBVIOUS
<1>1. \A t \in Ids : /\ applied[t] \in Nat /\ lapses[t] \in Nat
                     /\ Held(file[t]) \in {0, 1} /\ Held(SweptFile[t]) \in {0, 1}
                     /\ Held(file'[t]) \in {0, 1}
  BY DEF Base, Types, Held
<1>2. crashes \in Nat
  BY SuggestionConstants DEF Base, Types
<1>3. ASSUME UNCHANGED <<file, lapses, cmd, applied, crashes>> PROVE Counted'
  BY <1>3 DEF Counted, Unused, MayApply
<1>4. ASSUME SweptLease, UNCHANGED <<cmd, applied, crashes>>,
             \A t \in Ids : Held(file'[t]) <= Held(SweptFile[t])
      PROVE  Counted'
  <2>1. Unused' = Unused /\ MayApply' = MayApply
    BY <1>4 DEF Unused, MayApply
  <2>. QED
    BY <1>1, <1>2, <1>4, <2>1, SweepKeepsCount, CommandsAreFinite DEF Base, Counted
<1>5. ASSUME NEW c \in Commands, NEW s \in Ids, NEW x \in {"applying", "done"},
             cmd[c].pc = "idle", Goto(c, s, x), SweptLease, UNCHANGED <<applied, crashes>>,
             \A t \in Ids \ {s} : Held(file'[t]) <= Held(SweptFile[t]),
             file'[s] = SweptFile[s] \/ SweptFile[s] = "pending"
      PROVE  Counted'
  <2>1. /\ Cardinality(MayApply') <= Cardinality(MayApply)
        /\ Cardinality(Unused') = Cardinality(Unused) - 1
        /\ Cardinality(MayApply') \in Nat /\ Cardinality(Unused') \in Nat
    BY <1>5, CommandsMoveOn DEF Base
  <2>2. Held(file'[s]) <= Held(SweptFile[s]) + 1
    BY <1>1
  <2>. QED
    BY <1>1, <1>2, <1>5, <2>1, <2>2, SweepKeepsCount, CommandsAreFinite DEF Base, Counted
<1>6. ASSUME NEW c \in Commands, NEW s \in Ids, Goto(c, s, "done"), UNCHANGED <<applied, crashes, lapses>>,
             \A t \in Ids : Held(file'[t]) <= Held(file[t])
      PROVE  Counted'
  <2>1. /\ Cardinality(MayApply') <= Cardinality(MayApply)
        /\ Cardinality(Unused') <= Cardinality(Unused)
        /\ Cardinality(MayApply') \in Nat /\ Cardinality(Unused') \in Nat
    BY <1>6, CommandsMoveOn, CommandsAreFinite DEF Base
  <2>. QED
    BY <1>1, <1>2, <1>6, <2>1, CommandsAreFinite DEF Counted
<1>7. ASSUME Dies, NEW s \in Ids, \A t \in Ids \ {s} : file'[t] = file[t] PROVE Counted'
  <2>1. Unused' = Unused /\ MayApply' \subseteq MayApply
    BY <1>7, DiesEndsCommands DEF Base, Unused, MayApply
  <2>2. Cardinality(MayApply') <= Cardinality(MayApply) /\ Cardinality(MayApply') \in Nat
    BY <2>1, CommandsAreFinite, FS_Subset, FS_CardinalityType
  <2>. QED
    BY <1>1, <1>2, <1>7, <2>1, <2>2, CommandsAreFinite DEF Dies, Counted
<1>8. CASE Sweep
  <2>1. SweptLease /\ file' = SweptFile /\ UNCHANGED <<cmd, applied, crashes>>
    BY <1>8 DEF Sweep, OnlySweep, SweepAnd
  <2>2. \A t \in Ids : Held(file'[t]) <= Held(SweptFile[t])
    BY <1>1, <2>1
  <2>. QED
    BY <1>4, <2>1, <2>2
<1>9. ASSUME NEW s \in Ids, Create(s) PROVE Counted'
  BY <1>4, <1>9, SweptIsTyped DEF Create, OnlySweep, SweepAnd, Held
<1>10. ASSUME NEW s \in Ids, ClaimAges(s) \/ DaysPass(s) PROVE Counted'
  BY <1>3, <1>10 DEF ClaimAges, DaysPass
<1>11. ASSUME NEW c \in Commands, NEW s \in Ids, ApproveClaims(c, s) PROVE Counted'
  <2>1. /\ cmd[c].pc = "idle" /\ SweptLease /\ UNCHANGED <<applied, crashes>>
        /\ Goto(c, s, "applying") \/ Goto(c, s, "done")
        /\ \A t \in Ids \ {s} : file'[t] = SweptFile[t]
        /\ file'[s] = SweptFile[s] \/ SweptFile[s] = "pending"
    BY <1>11, SweptIsTyped DEF ApproveClaims, KeptBy, ResolvedAtOnce, SweepAnd, OnlySweep
  <2>. QED
    BY <1>1, <1>5, <2>1
<1>12. ASSUME NEW c \in Commands, ApproveApplies(c) PROVE Counted'
  <2>1. /\ Cardinality(MayApply') = Cardinality(MayApply) - 1
        /\ Cardinality(Unused') = Cardinality(Unused)
    BY <1>12, CommandsMoveOn DEF ApproveApplies, Base, Types
  <2>2. \A t \in Ids : applied'[t] <= applied[t] + 1 /\ applied'[t] \in Nat
    BY <1>12 DEF ApproveApplies, Base, Types
  <2>. QED
    BY <1>1, <1>2, <1>12, <2>1, <2>2, CommandsAreFinite DEF ApproveApplies, records, Counted
<1>13. ASSUME NEW c \in Commands, ApproveCannotApply(c) \/ ApproveResolves(c) PROVE Counted'
  <2>1. \A t \in Ids : Held(file'[t]) <= Held(file[t])
    BY <1>13 DEF ApproveCannotApply, ApproveResolves, Release, FileAfterResolve, Base, Types, Held
  <2>2. cmd[c].s \in Ids
    BY DEF Base, Types
  <2>. QED
    BY <1>6, <1>13, <2>1, <2>2 DEF ApproveCannotApply, ApproveResolves, Leave
<1>14. ASSUME NEW c \in Commands, BeatStops(c) PROVE Counted'
  BY <1>3, <1>14 DEF BeatStops, records
<1>15. ASSUME NEW c \in Commands, NEW s \in Ids, Reject(c, s) PROVE Counted'
  <2>1. /\ cmd[c].pc = "idle" /\ SweptLease /\ UNCHANGED <<applied, crashes>>
        /\ Goto(c, s, "done")
        /\ \A t \in Ids \ {s} : file'[t] = SweptFile[t]
        /\ file'[s] = SweptFile[s] \/ SweptFile[s] = "pending"
    BY <1>15, SweptIsTyped DEF Reject, KeptBy, ResolvedAtOnce, SweepAnd, OnlySweep
  <2>. QED
    BY <1>1, <1>5, <2>1
<1>16. CASE Crash
  BY <1>7, <1>16, SuggestionConstants DEF Crash
<1>17. ASSUME NEW s \in Ids, CrashClaiming(s) \/ CrashRejecting(s) PROVE Counted'
  BY <1>7, <1>17 DEF CrashClaiming, CrashRejecting, Base, Types
<1>18. ASSUME NEW c \in Commands, CrashApproving(c) PROVE Counted'
  BY <1>7, <1>18, SuggestionConstants DEF CrashApproving
<1>19. CASE UNCHANGED vars
  BY <1>3, <1>19 DEF vars, records
<1>. QED
  BY <1>8, <1>9, <1>10, <1>11, <1>12, <1>13, <1>14, <1>15, <1>16, <1>17, <1>18, <1>19
     DEF Next, Approve, Crashes

-----------------------------------------------------------------------------
(* Without a kill, a decided suggestion has no other record.               *)

Gone == crashes = 0 => \A s \in Ids : resolved[s] # "none" => file[s] = "none"

LEMMA GoneNext == Base /\ Gone /\ [Next]_vars => Gone'
<1> SUFFICES ASSUME Base, Gone, Next, crashes' = 0 PROVE Gone'
  BY DEF Gone, vars, records
<1>1. ~Dies
  BY SuggestionConstants DEF Dies, Base, Types
<1>2. \A t \in Ids : SweptResolved[t] # "none" => SweptFile[t] = "none" \/ crashes # 0
  BY DEF Gone, SweptResolved, SweptFile, Recovered, Expiring, Base, Types
<1>3. ASSUME NEW s \in Ids, Create(s) PROVE Gone'
  BY <1>2, <1>3, SweptIsTyped DEF Create, OnlySweep, SweepAnd, Gone, Base
<1>4. ASSUME NEW c \in Commands, NEW s \in Ids, ApproveClaims(c, s) PROVE Gone'
  BY <1>2, <1>4, SweptIsTyped DEF ApproveClaims, KeptBy, ResolvedAtOnce, FileAfterResolve,
         OnlySweep, SweepAnd, Gone
<1>5. ASSUME NEW c \in Commands, ApproveCannotApply(c) PROVE Gone'
  BY <1>5 DEF ApproveCannotApply, Release, HoldsClaim, Leave, Gone, Base, Types
<1>6. ASSUME NEW c \in Commands, ApproveResolves(c) PROVE Gone'
  BY <1>6 DEF ApproveResolves, Release, HoldsClaim, FileAfterResolve, Leave, Gone, Base, Types
<1>7. ASSUME NEW c \in Commands, NEW s \in Ids, Reject(c, s) PROVE Gone'
  BY <1>2, <1>7, SweptIsTyped DEF Reject, KeptBy, ResolvedAtOnce, FileAfterResolve,
         OnlySweep, SweepAnd, Gone
<1>8. ASSUME \/ Sweep
             \/ \E s \in Ids : ClaimAges(s) \/ DaysPass(s)
             \/ \E c \in Commands : ApproveApplies(c) \/ BeatStops(c)
      PROVE  Gone'
  BY <1>2, <1>8 DEF Sweep, OnlySweep, SweepAnd, ClaimAges, DaysPass, ApproveApplies,
                    BeatStops, records, Gone
<1>. QED
  BY <1>1, <1>3, <1>4, <1>5, <1>6, <1>7, <1>8
     DEF Next, Approve, Crashes, Crash, CrashClaiming, CrashRejecting, CrashApproving

-----------------------------------------------------------------------------
(* The theorems.                                                           *)

IInv == Base /\ Budget /\ Counted /\ Gone

LEMMA IInvHolds == Spec => []IInv
<1>1. Init => IInv
  BY BaseInit, BudgetInit, CountedInit DEF Init, IInv, Gone
<1>2. IInv /\ [Next]_vars => IInv'
  BY BaseNext, BudgetNext, CountedNext, GoneNext DEF IInv
<1>. QED
  BY <1>1, <1>2, PTL DEF Spec

\* Every variable has its type, and every counter is within its bound: a
\* command claims and applies a suggestion once at most, so that there are
\* no more lapses than commands and kills.
THEOREM TypeCorrect == Spec => []TypeOK
<1>1. IInv => TypeOK
  <2> SUFFICES ASSUME IInv, NEW s \in Ids
               PROVE  /\ applied[s] \in 0..Cardinality(Commands)
                      /\ lapses[s] \in 0..(Cardinality(Commands) + MaxCrashes)
    BY DEF IInv, Base, Types, TypeOK
  <2>1. Held(file[s]) \in {0, 1} /\ applied[s] \in Nat /\ lapses[s] \in Nat
        /\ crashes \in 0..MaxCrashes
    BY DEF IInv, Base, Types, Held
  <2>. QED
    BY <2>1, CommandsAreFinite, SuggestionConstants DEF IInv, Counted
<1>. QED
  BY <1>1, IInvHolds, PTL

\* The side effects of a suggestion are done once, and once more only for
\* each claim on it that lapsed.
THEOREM EffectsAreSingle == Spec => []AppliedOnce
<1>1. IInv => AppliedOnce
  <2> SUFFICES ASSUME IInv, NEW s \in Ids
               PROVE  applied[s] + Due(s) <= 1 + lapses[s]
    BY DEF AppliedOnce, Due
  <2>. QED
    BY DueIsNatural DEF IInv, Base, Types, Budget, Charge, Blame
<1>. QED
  BY <1>1, IInvHolds, PTL

\* What is recorded as approved was done, and what is recorded as rejected
\* was not done, unless by a command whose claim had lapsed.
THEOREM VerdictIsTrue == Spec => []VerdictFitsEffects
<1>1. IInv => VerdictFitsEffects
  <2> SUFFICES ASSUME IInv, NEW s \in Ids
               PROVE  /\ resolved[s] = "approved" => applied[s] > 0
                      /\ resolved[s] = "rejected" => applied[s] <= lapses[s]
    BY DEF VerdictFitsEffects
  <2>. QED
    BY DueIsNatural DEF IInv, Base, Types, Effects, Budget, Charge, Blame
<1>. QED
  BY <1>1, IInvHolds, PTL

\* As long as no operation of the store is cut short, a suggestion that was
\* decided cannot be found, claimed or expired again.
THEOREM DecidedIsGone == Spec => []ResolvedIsGone
<1>1. IInv => ResolvedIsGone
  BY DEF IInv, Gone, ResolvedIsGone
<1>. QED
  BY <1>1, IInvHolds, PTL

\* No step rejects a suggestion whose checkpoint says that it was applied.
THEOREM CheckpointIsKept == Spec => CheckpointStands
<1> DEFINE Stands == \A s \in Ids : stage[s] /\ resolved'[s] = "rejected" => resolved[s] = "rejected"
<1>1. IInv /\ [Next]_vars => [Stands]_vars
  <2> SUFFICES ASSUME Base, Next, NEW s \in Ids, stage[s], resolved'[s] = "rejected"
               PROVE  resolved[s] = "rejected"
    BY DEF IInv
  <2>1. SweptResolved[s] = "rejected" => resolved[s] = "rejected"
    BY DEF SweptResolved, Base, Types
  <2>. QED
    BY <2>1, SweptIsTyped DEF Next, Sweep, Create, ClaimAges, DaysPass, Approve, ApproveClaims,
       KeptBy, ResolvedAtOnce, ApproveApplies, ApproveCannotApply, ApproveResolves, BeatStops,
       Reject, Rejectable, Checkpointed, Crashes, Crash, CrashClaiming, CrashRejecting,
       CrashApproving, Dies, OnlySweep, SweepAnd, records, Base, Types
<1>. QED
  BY <1>1, IInvHolds, PTL DEF Spec, CheckpointStands
=============================================================================
