-------------------------- MODULE ApprovalsProofs --------------------------
(***************************************************************************)
(* Theorems of Approvals, for every set of items of whatever kinds, every  *)
(* set of commands, and every mode: any number of retries and kills, with  *)
(* and without Redis, whether or not heartbeats run and writes may raise.  *)
(***************************************************************************)
EXTENDS Approvals, FiniteSetTheorems, TLAPS

\* The types, the openings apart.
Types ==
    /\ InboxTypeOK
    /\ written \in [Items -> {"no", "once", "done", "broken"}]
    /\ mirror \in [status : [Items -> ItemStatus], stale : [Items -> BOOLEAN]]
    /\ moved \in [Items -> BOOLEAN]
    /\ cmd \in [Commands -> [pc : {"idle", "claimed", "decided", "done"},
                             item : Items \union {NoItem}]]
    /\ job \in [Commands -> {"none", "waiting", "checked", "streaming", "returned", "done"}]
    /\ tries \in [Commands -> 0..mode.retries]
    /\ hb \in {"idle", "fetched", "dispatched"}
    /\ hbItems \subseteq Items
    /\ mode \in Modes
    /\ crashes \in 0..mode.kills
    /\ decided \subseteq acted /\ acted \subseteq Items
    /\ lost \subseteq Items /\ again \subseteq Items

\* Which items the parties may hold: a resume job is about an interrupt, a
\* command that decided has an item that counts as decided, and heartbeats
\* have no confirmations.
Active(c) == job[c] \in {"waiting", "checked", "streaming", "returned"}
Roles ==
    /\ \A c \in Commands :
          /\ cmd[c].pc \in {"claimed", "decided"} => cmd[c].item \in Items
          /\ cmd[c].pc = "decided" => cmd[c].item \in decided
          /\ cmd[c].pc # "done" => job[c] = "none"
          /\ Active(c) => cmd[c].item \in Items /\ Kind[cmd[c].item] = "interrupt"
    /\ \A i \in hbItems : Kind[i] # "confirmation"

Base == Types /\ Roles

LEMMA BaseInit == Init => Base
BY ApprovalConstants DEF Init, InboxInit, Base, Types, Roles, InboxTypeOK, ItemStatus, Active

\* The operations of the inbox keep its types.
LEMMA InboxKept ==
    ASSUME Types
    PROVE  /\ \A S : RollbackAndClaim(S) => InboxTypeOK'
           /\ \A S : \A s \in {"PENDING", "CONSUMED"} : SetStatus(S, s) => InboxTypeOK'
           /\ \A i \in Items : Write(i) \/ ClaimAges(i) => InboxTypeOK'
           /\ TornFile \/ WriteCopy(mirror) \/ Raised \/ UNCHANGED inboxVars => InboxTypeOK'
<1>1. ASSUME NEW S, RollbackAndClaim(S) PROVE InboxTypeOK'
  BY <1>1 DEF Types, InboxTypeOK, ItemStatus, RollbackAndClaim, StatusAfterRollback
<1>2. ASSUME NEW S, NEW s \in {"PENDING", "CONSUMED"}, SetStatus(S, s) PROVE InboxTypeOK'
  BY <1>2 DEF Types, InboxTypeOK, ItemStatus, SetStatus
<1>3. ASSUME NEW i \in Items, Write(i) \/ ClaimAges(i) PROVE InboxTypeOK'
  BY <1>3 DEF Types, InboxTypeOK, ItemStatus, Write, ClaimAges
<1>4. UNCHANGED inboxVars \/ WriteCopy(mirror) => InboxTypeOK'
  BY DEF Types, InboxTypeOK, inboxVars, WriteCopy
<1>5. TornFile => InboxTypeOK'
  BY DEF InboxTypeOK, ItemStatus, TornFile, Torn
<1>. QED
  BY <1>1, <1>2, <1>3, <1>4, <1>5 DEF Raised, inboxVars

\* What a step does to lost, to the histories of acting, and to the rest of
\* the variables that few steps touch.
LostGrows == lost' = lost \/ lost' \subseteq lost \union Items
ActsKept == decided' \subseteq acted' /\ acted' \subseteq Items /\ again' \subseteq Items

LEMMA ActsTyped ==
    ASSUME Types
    PROVE  /\ \A S \in SUBSET Items : Again(S) => ActsKept
           /\ \A i \in Items : FirstWrite(i) => ActsKept
           /\ \A S \in SUBSET Items : ActOn(S) /\ UNCHANGED decided => ActsKept
           /\ \A i \in Items : Decide(i) => ActsKept
           /\ UNCHANGED acts => ActsKept
BY DEF Types, Again, FirstWrite, ActOn, Decide, acts, ActsKept

LEMMA LostTyped ==
    /\ TornFile \/ Raised \/ UNCHANGED lost => LostGrows
    /\ SensorWrites => LostGrows
BY DEF TornFile, Raised, InFile, SensorWrites, LostGrows

LEMMA BaseNext == Base /\ [Next]_vars => Base'
<1> SUFFICES ASSUME Base, [Next]_vars PROVE Base'
  OBVIOUS
<1>0. \A c \in Commands : Active(c) => cmd[c].item \in Items
  BY DEF Base, Roles
\* The histories of every step.
<1>H. ActsKept /\ LostGrows
  <2>1. ASSUME NEW i \in Items, WriteItem(i) \/ BridgeWrites(i) \/ Age(i) PROVE ActsKept /\ LostGrows
    BY <2>1, ActsTyped, LostTyped DEF WriteItem, BridgeWrites, Age, history, Base
  <2>2. CASE ListItems \/ CallerTears \/ SensorLoads \/ SensorWrites
    BY <2>2, ActsTyped, LostTyped DEF ListItems, CallerTears, SensorLoads, SensorWrites, Expired, history, Base
  <2>3. CASE Heartbeat
    <3>1. hbItems \subseteq Items
      BY DEF Base, Types
    <3>2. CASE HeartbeatDispatch
      BY <3>1, <3>2, ActsTyped, LostTyped DEF HeartbeatDispatch, Base
    <3>3. CASE HeartbeatFetch \/ HeartbeatEnds \/ HeartbeatFails
      BY <3>1, <3>3, ActsTyped, LostTyped DEF HeartbeatFetch, HeartbeatEnds, HeartbeatFails, Expired, history, Base
    <3>. QED
      BY <2>3, <3>2, <3>3 DEF Heartbeat
  <2>4. ASSUME NEW c \in Commands, Command(c) PROVE ActsKept /\ LostGrows
    <3>1. CASE CommandDecides(c)
      BY <3>1, ActsTyped, LostTyped DEF CommandDecides, Base, Roles
    <3>2. CASE (\E i \in Items : CommandClaims(c, i)) \/ CommandGivesBack(c) \/ CommandMarks(c) \/ CommandSubmitsResume(c)
      BY <3>2, ActsTyped, LostTyped DEF CommandClaims, CommandGivesBack, CommandMarks, CommandSubmitsResume,
         Expired, history, Base
    <3>. QED
      BY <2>4, <3>1, <3>2 DEF Command
  <2>5. ASSUME NEW c \in Commands, Resume(c) PROVE ActsKept /\ LostGrows
    <3>1. cmd[c].item \in Items
      BY <1>0, <2>5 DEF Resume, ResumeChecks, ResumeRefused, ResumeRaises, ResumeDelivers, ResumeEnds, ResumeCompletes, Active
    <3>2. RetryOpens(c) => ActsKept
      BY <3>1, ActsTyped DEF RetryOpens, Base
    <3>3. CASE ResumeChecks(c) \/ ResumeRefused(c) \/ ResumeRaises(c)
      BY <3>1, <3>2, <3>3, ActsTyped, LostTyped DEF ResumeChecks, ResumeRefused, ResumeRaises, history, Base
    <3>4. CASE ResumeDelivers(c) \/ ResumeEnds(c) \/ ResumeCompletes(c)
      BY <3>1, <3>2, <3>4, ActsTyped, LostTyped DEF ResumeDelivers, ResumeEnds, ResumeCompletes, history, Base
    <3>. QED
      BY <2>5, <3>3, <3>4 DEF Resume
  <2>6. CASE Crash
    BY <2>6, ActsTyped, LostTyped DEF Crash, Base
  <2>7. CASE UNCHANGED vars
    BY <2>7, ActsTyped, LostTyped DEF vars, history, Base
  <2>. QED
    BY <2>1, <2>2, <2>3, <2>4, <2>5, <2>6, <2>7 DEF Next
<1>L. decided' \subseteq acted' /\ acted' \subseteq Items /\ again' \subseteq Items /\ lost' \subseteq Items
  BY <1>H DEF ActsKept, LostGrows, Base, Types
<1>D. decided \subseteq decided'
  BY DEF Next, WriteItem, FirstWrite, BridgeWrites, Age, ListItems, CallerTears, SensorLoads, SensorWrites,
     Heartbeat, HeartbeatFetch, HeartbeatDispatch, HeartbeatEnds, HeartbeatFails, Command, CommandClaims,
     CommandGivesBack, CommandDecides, CommandMarks, CommandSubmitsResume, Resume, ResumeChecks, ResumeRefused,
     ResumeRaises, ResumeDelivers, ResumeEnds, ResumeCompletes, Crash, RetryOpens, Returns, Again, ActOn, Decide, acts, history, vars
<1>1. ASSUME InboxTypeOK', written' \in [Items -> {"no", "once", "done", "broken"}],
             mirror' \in [status : [Items -> ItemStatus], stale : [Items -> BOOLEAN]],
             UNCHANGED <<moved, cmd, jobVars, hbVars, faults>>
      PROVE  Base'
  BY <1>1, <1>L, <1>D DEF Base, Types, Roles, jobVars, hbVars, faults, Active
<1>2. ASSUME NEW i \in Items, WriteItem(i) \/ BridgeWrites(i) \/ Age(i) PROVE Base'
  <2>1. InboxTypeOK'
    BY <1>2, InboxKept DEF WriteItem, FirstWrite, BridgeWrites, Age, Base
  <2>2. written' \in [Items -> {"no", "once", "done", "broken"}]
    BY <1>2 DEF WriteItem, BridgeWrites, Age, Base, Types
  <2>3. mirror' \in [status : [Items -> ItemStatus], stale : [Items -> BOOLEAN]]
    <3>1. CASE Age(i)
      <4> DEFINE older == [mirror.stale EXCEPT ![i] = (mirror.status[i] = "PROCESSING")]
      <4>1. mirror.stale \in [Items -> BOOLEAN] /\ (mirror.status[i] = "PROCESSING") \in BOOLEAN
        BY DEF Base, Types
      <4>2. older \in [Items -> BOOLEAN]
        BY <4>1, Zenon
      <4>3. mirror' = [mirror EXCEPT !.stale = older]
        BY <3>1, Zenon DEF Age
      <4> HIDE DEF older
      <4>. QED
        BY <4>2, <4>3 DEF Base, Types
    <3>2. CASE WriteItem(i) \/ BridgeWrites(i)
      BY <3>2 DEF WriteItem, BridgeWrites, Base, Types
    <3>. QED
      BY <1>2, <3>1, <3>2
  <2>. QED
    BY <1>1, <1>2, <2>1, <2>2, <2>3 DEF WriteItem, BridgeWrites, Age
<1>3. CASE ListItems \/ CallerTears \/ SensorLoads \/ SensorWrites
  <2>1. InboxTypeOK'
    BY <1>3, InboxKept DEF ListItems, ListPending, CallerTears, SensorLoads, SensorWrites, Base
  <2>2. mirror' \in [status : [Items -> ItemStatus], stale : [Items -> BOOLEAN]]
    BY <1>3 DEF ListItems, CallerTears, SensorLoads, SensorWrites, Base, Types, InboxTypeOK
  <2>. QED
    BY <1>1, <1>3, <2>1, <2>2 DEF ListItems, CallerTears, SensorLoads, SensorWrites, Base, Types
<1>4. CASE Heartbeat
  <2>1. InboxTypeOK'
    BY <1>4, InboxKept DEF Heartbeat, HeartbeatFetch, FetchPending, HeartbeatDispatch, HeartbeatEnds,
          MarkConsumed, HeartbeatFails, RequeueProcessing, Base
  <2>2. /\ hb' \in {"idle", "fetched", "dispatched"}
        /\ hbItems' \subseteq Items /\ \A i \in hbItems' : Kind[i] # "confirmation"
    <3>1. CASE HeartbeatFetch
      BY <3>1 DEF HeartbeatFetch, FetchPending, Selected, Fetchable, NotForHeartbeat, OfKind
    <3>2. CASE HeartbeatDispatch \/ HeartbeatEnds \/ HeartbeatFails
      BY <3>2 DEF HeartbeatDispatch, HeartbeatEnds, HeartbeatFails, Base, Types, Roles
    <3>. QED
      BY <1>4, <3>1, <3>2 DEF Heartbeat
  <2>3. UNCHANGED <<written, mirror, moved, cmd, jobVars, faults>>
    BY <1>4 DEF Heartbeat, HeartbeatFetch, HeartbeatDispatch, HeartbeatEnds, HeartbeatFails
  <2>4. Types'
    BY <1>L, <2>1, <2>2, <2>3 DEF Base, Types, jobVars, faults
  <2>5. Roles'
    BY <1>D, <2>2, <2>3 DEF Base, Roles, jobVars, Active
  <2>. QED
    BY <2>4, <2>5 DEF Base
<1>5. ASSUME NEW c \in Commands, Command(c) PROVE Base'
  <2>1. InboxTypeOK'
    BY <1>5, InboxKept DEF Command, CommandClaims, ClaimPending, ClaimFails, ListPending,
          CommandGivesBack, RequeueProcessing, CommandDecides, CommandMarks, MarkConsumed,
          CommandSubmitsResume, Base
  <2>2. ASSUME UNCHANGED <<written, mirror, moved, hbVars, faults, tries>>,
               NEW x \in {"claimed", "decided", "done"}, NEW i \in Items \union {NoItem},
               cmd' = [cmd EXCEPT ![c] = [pc |-> x, item |-> i]],
               x # "done" => i \in Items,
               NEW j \in {"none", "waiting"}, job[c] = "none", job' = [job EXCEPT ![c] = j],
               j = "waiting" => i \in Items /\ Kind[i] = "interrupt" /\ x = "done",
               x = "decided" => i \in decided'
        PROVE  Base'
    <3>1. Types'
      BY <1>L, <2>1, <2>2 DEF Base, Types, hbVars, faults
    <3>2. Roles'
      BY <1>D, <2>2 DEF Base, Types, Roles, hbVars, Active
    <3>. QED
      BY <3>1, <3>2 DEF Base
  <2>3. /\ \A x : [cmd EXCEPT ![c].pc = x] = [cmd EXCEPT ![c] = [pc |-> x, item |-> cmd[c].item]]
        /\ cmd[c].item \in Items \union {NoItem}
        /\ cmd[c].pc \in {"idle", "claimed", "decided", "done"}
    BY DEF Base, Types
  <2>4. job[c] = "none" => job = [job EXCEPT ![c] = "none"]
    BY DEF Base, Types
  <2>5. ASSUME NEW i \in Items, CommandClaims(c, i) PROVE Base'
    <3>1. PICK x \in {"claimed", "done"}, k \in Items \union {NoItem} :
             cmd' = [cmd EXCEPT ![c] = [pc |-> x, item |-> k]] /\ (x = "claimed" => k = i)
      BY <2>3, <2>5 DEF CommandClaims
    <3>2. /\ UNCHANGED <<written, mirror, moved, hbVars, faults, tries, job>>
          /\ job[c] = "none"
      BY <2>5 DEF CommandClaims, jobVars, Base, Roles
    <3>. QED
      BY <2>2, <2>4, <3>1, <3>2
  <2>6. CASE CommandGivesBack(c)
    <3>1. /\ UNCHANGED <<written, mirror, moved, hbVars, faults, tries, job>>
          /\ job[c] = "none" /\ cmd' = [cmd EXCEPT ![c].pc = "done"]
      BY <2>6 DEF CommandGivesBack, jobVars, Base, Roles
    <3>. QED
      BY <2>2, <2>3, <2>4, <3>1
  <2>7. CASE CommandDecides(c)
    <3>1. /\ UNCHANGED <<written, mirror, moved, hbVars, faults, tries, job>>
          /\ job[c] = "none" /\ cmd' = [cmd EXCEPT ![c].pc = "decided"]
          /\ cmd[c].item \in Items /\ cmd[c].item \in decided'
      BY <2>7 DEF CommandDecides, Decide, jobVars, Base, Roles
    <3>. QED
      BY <2>2, <2>3, <2>4, <3>1
  <2>8. CASE CommandMarks(c)
    <3>1. /\ UNCHANGED <<written, mirror, moved, hbVars, faults, tries, job>>
          /\ job[c] = "none" /\ cmd' = [cmd EXCEPT ![c].pc = "done"]
      BY <2>8 DEF CommandMarks, jobVars, Base, Roles
    <3>. QED
      BY <2>2, <2>3, <2>4, <3>1
  <2>9. CASE CommandSubmitsResume(c)
    BY <2>2, <2>3, <2>9 DEF CommandSubmitsResume, Base, Types, Roles
  <2>. QED
    BY <1>5, <2>5, <2>6, <2>7, <2>8, <2>9 DEF Command
<1>6. ASSUME NEW c \in Commands, Resume(c) PROVE Base'
  <2>1. InboxTypeOK'
    BY <1>6, InboxKept DEF Resume, ResumeChecks, ResumeRefused, MarkError, ResumeRaises,
          ResumeDelivers, ResumeEnds, ResumeCompletes, MarkConsumed, Base
  <2>2. Active(c)
    BY <1>6 DEF Resume, ResumeChecks, ResumeRefused, ResumeRaises, ResumeDelivers, ResumeEnds, ResumeCompletes, Active
  <2>3. /\ UNCHANGED <<written, mirror, cmd, hbVars, faults>>
        /\ moved' \in [Items -> BOOLEAN]
    BY <1>6, <2>2 DEF Resume, ResumeChecks, ResumeRefused, ResumeRaises,
          ResumeDelivers, ResumeEnds, ResumeCompletes, Base, Types, Roles
  <2>4. \E j \in {"waiting", "checked", "streaming", "returned", "done"} : job' = [job EXCEPT ![c] = j]
    BY <1>6 DEF Resume, ResumeChecks, ResumeRefused, ResumeRaises,
          ResumeDelivers, ResumeEnds, ResumeCompletes, RetryOpens, Returns, Retry
  <2>5. tries' \in [Commands -> 0..mode.retries]
    <3>1. mode.retries \in Nat
      BY ApprovalConstants DEF Base, Types
    <3>2. Retry(c) => tries' \in [Commands -> 0..mode.retries]
      BY <3>1 DEF Retry, RetriesLeft, Base, Types
    <3>. QED
      BY <1>6, <3>2 DEF Resume, ResumeChecks, ResumeRefused, ResumeRaises,
          ResumeDelivers, ResumeEnds, ResumeCompletes, RetryOpens, Returns, Base, Types
  <2>6. Types'
    BY <1>L, <2>1, <2>3, <2>4, <2>5 DEF Base, Types, hbVars, faults
  <2>7. Roles'
    BY <1>D, <2>2, <2>3, <2>4 DEF Base, Types, Roles, hbVars, Active
  <2>. QED
    BY <2>6, <2>7 DEF Base
<1>7. CASE Crash
  <2>1. InboxTypeOK'
    BY <1>7, InboxKept DEF Crash, inboxVars, Base
  <2>2. crashes' \in 0..mode.kills
    <3>1. mode.kills \in Nat
      BY ApprovalConstants DEF Base, Types
    <3>. QED
      BY <1>7, <3>1 DEF Crash, Base, Types
  <2>3. Types'
    BY <1>7, <1>L, <2>1, <2>2 DEF Crash, Base, Types
  <2>4. Roles'
    BY <1>7, <1>D DEF Crash, acts, Base, Types, Roles, Active
  <2>. QED
    BY <2>3, <2>4 DEF Base
<1>8. CASE UNCHANGED vars
  BY <1>1, <1>8, InboxKept DEF vars, Base, Types
<1>. QED
  BY <1>2, <1>3, <1>4, <1>5, <1>6, <1>7, <1>8 DEF Next

-----------------------------------------------------------------------------
(* Confirmations are decided before they are consumed, and there until     *)
(* then.  The copy of the sensors' store must not bring back more.         *)

DecidedInv ==
    /\ ConfirmationsDecided
    /\ \A i \in OfKind("confirmation") : mirror.status[i] = "CONSUMED" => i \in decided

LEMMA DecidedNext == Base /\ DecidedInv /\ [Next]_vars => DecidedInv'
<1> SUFFICES ASSUME Base, DecidedInv, [Next]_vars PROVE DecidedInv'
  OBVIOUS
<1>1. decided \subseteq decided' /\ lost \subseteq lost'
  <2>1. decided \subseteq decided'
    BY DEF Next, WriteItem, FirstWrite, BridgeWrites, Age, ListItems, CallerTears, SensorLoads, SensorWrites,
       Heartbeat, HeartbeatFetch, HeartbeatDispatch, HeartbeatEnds, HeartbeatFails, Command, CommandClaims,
       CommandGivesBack, CommandDecides, CommandMarks, CommandSubmitsResume, Resume, ResumeChecks, ResumeRefused,
       ResumeRaises, ResumeDelivers, ResumeEnds, ResumeCompletes, Crash, RetryOpens, Returns, Again, ActOn, Decide, acts, history, vars
  <2>2. lost \subseteq lost'
    BY DEF Next, WriteItem, FirstWrite, BridgeWrites, Age, ListItems, CallerTears, SensorLoads, SensorWrites,
       Heartbeat, HeartbeatFetch, HeartbeatDispatch, HeartbeatEnds, HeartbeatFails, Command, CommandClaims,
       CommandGivesBack, CommandDecides, CommandMarks, CommandSubmitsResume, Resume, ResumeChecks, ResumeRefused,
       ResumeRaises, ResumeDelivers, ResumeEnds, ResumeCompletes, Crash, TornFile, Raised, history, vars
  <2>. QED
    BY <2>1, <2>2
\* What a step does to the status of a confirmation in the file, and nothing
\* to its writer or to the copy.
<1>2. ASSUME \A i \in OfKind("confirmation") :
                /\ status'[i] = "CONSUMED" => status[i] = "CONSUMED" \/ i \in decided'
                /\ status'[i] = "absent" => status[i] = "absent" \/ i \in lost',
             written' = written, mirror'.status = mirror.status
      PROVE  DecidedInv'
  BY <1>1, <1>2 DEF DecidedInv, ConfirmationsDecided
<1>3. \A S : RollbackAndClaim(S) \/ SetStatus(S, "PENDING") =>
         \A i \in Items : /\ status'[i] = "CONSUMED" => status[i] = "CONSUMED"
                          /\ status'[i] = "absent" => status[i] = "absent"
  BY DEF RollbackAndClaim, StatusAfterRollback, Expired, SetStatus, Base, Types, InboxTypeOK
<1>4. ASSUME NEW S, MarkConsumed(S), \A i \in S : i \in OfKind("confirmation") => i \in decided',
             written' = written, mirror' = mirror
      PROVE  DecidedInv'
  <2>1. \A i \in OfKind("confirmation") :
           /\ status'[i] = "CONSUMED" => status[i] = "CONSUMED" \/ i \in decided'
           /\ status'[i] = "absent" => status[i] = "absent"
    BY <1>4 DEF MarkConsumed, SetStatus, OfKind
  <2>. QED
    BY <1>2, <1>4, <2>1
<1>5. ASSUME status' = status, written' = written, mirror'.status = mirror.status PROVE DecidedInv'
  BY <1>2, <1>5
<1>6. ASSUME NEW S, RollbackAndClaim(S) \/ SetStatus(S, "PENDING"), written' = written, mirror' = mirror
      PROVE  DecidedInv'
  BY <1>2, <1>3, <1>6 DEF OfKind
<1>7. TornFile => \A i \in OfKind("confirmation") :
                     /\ status'[i] # "CONSUMED"
                     /\ status'[i] = "absent" => status[i] = "absent" \/ i \in lost'
  BY DEF TornFile, Torn, InFile, OfKind
<1>8. ASSUME TornFile \/ Raised, written' = written, mirror' = mirror PROVE DecidedInv'
  <2>1. CASE TornFile
    BY <1>2, <1>7, <1>8, <2>1
  <2>2. CASE UNCHANGED inboxVars
    BY <1>5, <1>8, <2>2 DEF inboxVars
  <2>. QED
    BY <1>8, <2>1, <2>2 DEF Raised, inboxVars
<1>9. ASSUME NEW i \in Items, WriteItem(i) PROVE DecidedInv'
  <2>1. \A k \in Items : /\ k # i => status'[k] = status[k] /\ written'[k] = written[k]
                         /\ status'[i] = "PENDING"
    BY <1>9 DEF WriteItem, FirstWrite, Write, Base, Types, InboxTypeOK
  <2>2. mirror' = mirror
    BY <1>9 DEF WriteItem
  <2>. QED
    BY <1>1, <2>1, <2>2 DEF DecidedInv, ConfirmationsDecided, OfKind
<1>10. ASSUME NEW i \in Items, BridgeWrites(i) PROVE DecidedInv'
  <2>1. i \notin OfKind("confirmation") /\ mirror' = mirror
    BY <1>10 DEF BridgeWrites, OfKind
  <2>2. \A k \in Items : k # i => written'[k] = written[k]
    BY <1>10 DEF BridgeWrites, Base, Types
  <2>3. \A k \in Items : Write(i) /\ k # i => status'[k] = status[k]
    BY DEF Write, Base, Types, InboxTypeOK
  <2>4. UNCHANGED inboxVars => status' = status
    BY DEF inboxVars
  <2>5. Write(i) \/ TornFile \/ UNCHANGED inboxVars
    BY <1>10 DEF BridgeWrites, FirstWrite, Raised, inboxVars
  <2>6. \A k \in OfKind("confirmation") :
           /\ written'[k] = written[k]
           /\ status'[k] = "CONSUMED" => status[k] = "CONSUMED"
           /\ status'[k] = "absent" => status[k] = "absent" \/ k \in lost'
    BY <1>7, <2>1, <2>2, <2>3, <2>4, <2>5 DEF OfKind
  <2>. QED
    BY <1>1, <2>1, <2>6 DEF DecidedInv, ConfirmationsDecided
<1>11. CASE HeartbeatEnds
  BY <1>4, <1>11 DEF HeartbeatEnds, OfKind, Base, Roles
<1>12. ASSUME NEW c \in Commands, CommandMarks(c) PROVE DecidedInv'
  BY <1>4, <1>8, <1>12 DEF CommandMarks, acts, Base, Roles
<1>13. ASSUME NEW c \in Commands, ResumeEnds(c) PROVE DecidedInv'
  <2>1. Kind[cmd[c].item] = "interrupt"
    BY <1>13 DEF ResumeEnds, Base, Roles, Active
  <2>. QED
    BY <1>4, <1>6, <1>8, <1>13, <2>1 DEF ResumeEnds, MarkError, OfKind
<1>14. CASE ListItems \/ CallerTears \/ HeartbeatFetch \/ HeartbeatDispatch \/ HeartbeatFails
  <2>1. CASE ListItems \/ HeartbeatFetch
    BY <1>6, <2>1 DEF ListItems, ListPending, HeartbeatFetch, FetchPending
  <2>2. CASE CallerTears \/ HeartbeatDispatch \/ HeartbeatFails
    BY <1>5, <1>6, <1>8, <2>2 DEF CallerTears, HeartbeatDispatch, HeartbeatFails, RequeueProcessing, inboxVars
  <2>. QED
    BY <1>14, <2>1, <2>2
<1>15. CASE SensorLoads
  BY <1>15 DEF SensorLoads, inboxVars, history, acts, DecidedInv, ConfirmationsDecided
<1>16. CASE SensorWrites
  <2>1. \A i \in OfKind("confirmation") :
           /\ status'[i] = mirror.status[i] /\ written' = written /\ mirror' = mirror
           /\ mirror.status[i] = "absent" => status[i] = "absent" \/ i \in lost'
    BY <1>16 DEF SensorWrites, WriteCopy, InFile, OfKind
  <2>. QED
    BY <1>1, <2>1 DEF DecidedInv, ConfirmationsDecided
<1>17. ASSUME NEW c \in Commands,
              \/ \E i \in Items : CommandClaims(c, i)
              \/ CommandGivesBack(c) \/ CommandDecides(c) \/ CommandSubmitsResume(c)
       PROVE  DecidedInv'
  BY <1>5, <1>6, <1>8, <1>17 DEF CommandClaims, ClaimPending, ClaimFails, ListPending, CommandGivesBack,
     RequeueProcessing, CommandDecides, CommandSubmitsResume, inboxVars
<1>18. ASSUME NEW c \in Commands,
              \/ ResumeChecks(c) \/ ResumeRefused(c) \/ ResumeRaises(c)
              \/ ResumeDelivers(c) \/ ResumeCompletes(c)
       PROVE  DecidedInv'
  BY <1>5, <1>6, <1>8, <1>18 DEF ResumeChecks, ResumeRefused, ResumeRaises, ResumeDelivers, ResumeCompletes,
     MarkError, inboxVars
<1>19. ASSUME \E i \in Items : Age(i) PROVE DecidedInv'
  <2>1. PICK i \in Items : Age(i)
    BY <1>19
  <2>2. mirror'.status = mirror.status
    BY <2>1 DEF Age, Base, Types
  <2>. QED
    BY <1>5, <2>1, <2>2 DEF Age, ClaimAges
<1>20. CASE UNCHANGED vars
  BY <1>5, <1>20 DEF vars, inboxVars
<1>21. CASE Crash
  <2>1. \A i \in OfKind("confirmation") :
           /\ written'[i] = "done" => written[i] = "done"
           /\ mirror' = mirror
           /\ status'[i] = "CONSUMED" => status[i] = "CONSUMED"
           /\ status'[i] = "absent" => status[i] = "absent" \/ i \in lost'
    BY <1>7, <1>21 DEF Crash, OfKind, inboxVars
  <2>. QED
    BY <1>1, <2>1 DEF DecidedInv, ConfirmationsDecided
<1>. QED
  BY <1>9, <1>10, <1>11, <1>12, <1>13, <1>14, <1>15, <1>16, <1>17, <1>18, <1>19, <1>20, <1>21
  DEF Next, Heartbeat, Command, Resume

-----------------------------------------------------------------------------
(* Who may act, against the openings.                                      *)

Beats(i) == IF hb = "fetched" /\ i \in hbItems THEN 1 ELSE 0
Pends(i) == IF status[i] = "PENDING" THEN 1 ELSE 0
Claims(i) == Cardinality(Holders(i))

Covered == \A i \in Items : Outstanding(i) <= openings[i]
Backed == openings \in [Items -> 0..MaxOpenings] /\ Covered

LEMMA OutstandingIsSum ==
    /\ \A i : Outstanding(i) = Claims(i) + Beats(i) + Pends(i)
    /\ \A i : Beats(i) \in {0, 1} /\ Pends(i) \in {0, 1}
BY DEF Outstanding, Claims, Beats, Pends

CountedClaims == \A i : IsFiniteSet(Holders(i)) /\ Claims(i) \in 0..Cardinality(Commands)

LEMMA ClaimsAreCounted == CountedClaims
<1> SUFFICES ASSUME NEW i PROVE IsFiniteSet(Holders(i)) /\ Claims(i) \in 0..Cardinality(Commands)
  BY DEF CountedClaims
<1>1. Holders(i) \subseteq Commands
  BY DEF Holders
<1>2. /\ IsFiniteSet(Holders(i)) /\ Cardinality(Holders(i)) <= Cardinality(Commands)
      /\ Cardinality(Commands) \in Nat
  BY <1>1, FS_Subset, FS_CardinalityType, ApprovalConstants
<1>. QED
  BY <1>2, FS_CardinalityType DEF Claims

\* At most one command or resume job changes what it holds.
LEMMA HoldersMove ==
    ASSUME NEW i
    PROVE  /\ Holders(i)' \subseteq Holders(i) => Claims(i)' <= Claims(i)
           /\ \A c : Holders(i)' \subseteq Holders(i) \union {c} => Claims(i)' <= Claims(i) + 1
           /\ \A c \in Holders(i) : Holders(i)' \subseteq Holders(i) \ {c} => Claims(i)' <= Claims(i) - 1
<1>1. IsFiniteSet(Holders(i)) /\ Cardinality(Holders(i)) \in Nat
  BY ClaimsAreCounted, FS_CardinalityType DEF CountedClaims
<1>2. ASSUME NEW T, IsFiniteSet(T), Holders(i)' \subseteq T PROVE Claims(i)' <= Cardinality(T)
  BY <1>2, FS_Subset DEF Claims
<1>3. Holders(i)' \subseteq Holders(i) => Claims(i)' <= Claims(i)
  BY <1>1, <1>2 DEF Claims
<1>4. ASSUME NEW c, Holders(i)' \subseteq Holders(i) \union {c} PROVE Claims(i)' <= Claims(i) + 1
  <2>1. /\ IsFiniteSet(Holders(i) \union {c})
        /\ Cardinality(Holders(i) \union {c}) \in {Cardinality(Holders(i)), Cardinality(Holders(i)) + 1}
    BY <1>1, FS_AddElement
  <2>2. Claims(i)' <= Cardinality(Holders(i) \union {c})
    BY <1>2, <1>4, <2>1
  <2>3. IsFiniteSet(Holders(i)')
    BY <1>4, <2>1, FS_Subset
  <2>4. Claims(i)' \in Nat
    BY <2>3, FS_CardinalityType DEF Claims
  <2>. QED
    BY <1>1, <2>1, <2>2, <2>4 DEF Claims
<1>5. ASSUME NEW c \in Holders(i), Holders(i)' \subseteq Holders(i) \ {c} PROVE Claims(i)' <= Claims(i) - 1
  <2>1. /\ IsFiniteSet(Holders(i) \ {c})
        /\ Cardinality(Holders(i) \ {c}) = Cardinality(Holders(i)) - 1
    BY <1>1, <1>5, FS_RemoveElement
  <2>. QED
    BY <1>2, <1>5, <2>1 DEF Claims
<1>. QED
  BY <1>3, <1>4, <1>5

More(i, n) == Outstanding(i)' <= Outstanding(i) + n

\* An item that is opened backs one more to act on it.
LEMMA OpeningBacks ==
    ASSUME Backed, NEW S, openings' = Opened(S),
           \A i \in Items : More(i, IF i \in S THEN 1 ELSE 0)
    PROVE  Backed'
<1> SUFFICES ASSUME NEW i \in Items
             PROVE  openings'[i] \in 0..MaxOpenings /\ Outstanding(i)' <= openings'[i]
  BY DEF Backed, Covered, Opened
<1>1. CountedClaims'
  BY ClaimsAreCounted, PTL
<1>2. Claims(i)' \in 0..Cardinality(Commands) /\ Claims(i) \in 0..Cardinality(Commands)
  BY <1>1, ClaimsAreCounted DEF CountedClaims
<1>3. /\ Outstanding(i)' = Claims(i)' + Beats(i)' + Pends(i)'
      /\ Beats(i)' \in {0, 1} /\ Pends(i)' \in {0, 1}
  BY DEF Outstanding, Claims, Beats, Pends
<1>4. Cardinality(Commands) \in Nat
  BY ApprovalConstants, FS_CardinalityType
<1>5. Outstanding(i)' \in Nat /\ Outstanding(i)' <= MaxOpenings
  BY <1>2, <1>3, <1>4, ApprovalConstants
<1>6. Outstanding(i) \in Nat
  BY <1>2, <1>4, OutstandingIsSum
<1>7. Outstanding(i) <= openings[i] /\ openings[i] \in 0..MaxOpenings
  BY DEF Backed, Covered
<1>8. openings'[i] = IF i \in S /\ openings[i] < MaxOpenings THEN openings[i] + 1 ELSE openings[i]
  BY DEF Opened
<1>. QED
  BY <1>5, <1>6, <1>7, <1>8, ApprovalConstants DEF More

\* Acting uses up an opening, and whoever acts was to act.
LEMMA ActingBacks ==
    ASSUME Backed, NEW S, openings' = Used(S),
           \A i \in Items : i \in S => Outstanding(i) >= 1,
           \A i \in Items : More(i, IF i \in S THEN -1 ELSE 0)
    PROVE  Backed'
<1> SUFFICES ASSUME NEW i \in Items
             PROVE  openings'[i] \in 0..MaxOpenings /\ Outstanding(i)' <= openings'[i]
  BY DEF Backed, Covered, Used
<1>1. CountedClaims'
  BY ClaimsAreCounted, PTL
<1>2. Claims(i)' \in 0..Cardinality(Commands) /\ Claims(i) \in 0..Cardinality(Commands)
  BY <1>1, ClaimsAreCounted DEF CountedClaims
<1>3. /\ Outstanding(i)' = Claims(i)' + Beats(i)' + Pends(i)'
      /\ Beats(i)' \in {0, 1} /\ Pends(i)' \in {0, 1}
  BY DEF Outstanding, Claims, Beats, Pends
<1>4. Cardinality(Commands) \in Nat
  BY ApprovalConstants, FS_CardinalityType
<1>5. Outstanding(i)' \in Nat /\ Outstanding(i) \in Nat
  BY <1>2, <1>3, <1>4, OutstandingIsSum
<1>6. Outstanding(i) <= openings[i] /\ openings[i] \in 0..MaxOpenings
  BY DEF Backed, Covered
<1>7. openings'[i] = IF i \in S THEN openings[i] - 1 ELSE openings[i]
  BY DEF Used
<1>. QED
  BY <1>5, <1>6, <1>7, ApprovalConstants DEF More

LEMMA StayingBacks ==
    ASSUME Backed, openings' = openings, \A i \in Items : More(i, 0) PROVE Backed'
<1>1. openings' = Opened({})
  BY DEF Opened, Backed
<1>. QED
  BY <1>1, OpeningBacks

\* What the parties to act on an item become, piece by piece.
LEMMA SumMoves ==
    ASSUME NEW i, NEW a \in Int, NEW b \in Int,
           Claims(i)' <= Claims(i) + a,
           Beats(i)' + Pends(i)' <= Beats(i) + Pends(i) + b
    PROVE  \A n \in Int : a + b <= n => More(i, n)
<1>1. CountedClaims'
  BY ClaimsAreCounted, PTL
<1>2. Claims(i)' \in Int /\ Claims(i) \in Int
  <2>1. Cardinality(Commands) \in Nat
    BY ApprovalConstants, FS_CardinalityType
  <2>. QED
    BY <1>1, <2>1, ClaimsAreCounted DEF CountedClaims
<1>3. /\ Outstanding(i)' = Claims(i)' + Beats(i)' + Pends(i)'
      /\ Beats(i)' \in {0, 1} /\ Pends(i)' \in {0, 1}
  BY DEF Outstanding, Claims, Beats, Pends
<1>. QED
  BY <1>2, <1>3, OutstandingIsSum DEF More

\* The operations of the inbox make an item pending, or not.
LEMMA PendsMove ==
    ASSUME Types, NEW i \in Items
    PROVE  /\ \A T : RollbackAndClaim(T) =>
                  Pends(i)' = IF i \notin T /\ (i \in Expired \/ Pends(i) = 1) THEN 1 ELSE 0
           /\ \A T : SetStatus(T, "PENDING") => Pends(i)' <= (IF i \in T THEN 1 ELSE Pends(i))
           /\ \A T : SetStatus(T, "CONSUMED") => Pends(i)' <= Pends(i)
           /\ UNCHANGED inboxVars => Pends(i)' = Pends(i)
           /\ Raised \/ TornFile => Pends(i)' <= Pends(i)
           /\ Pends(i)' \in {0, 1} /\ Pends(i) \in {0, 1}
BY DEF RollbackAndClaim, StatusAfterRollback, SetStatus, Raised, TornFile, Torn, Pends, inboxVars, Types, InboxTypeOK

LEMMA SameHolders == UNCHANGED <<cmd, job>> => \A i : Claims(i)' = Claims(i)
BY DEF Claims, Holders

LEMMA HeartbeatBacks ==
    ASSUME Base, Backed, Heartbeat
    PROVE  Backed'
<1>1. \A i : Claims(i)' <= Claims(i) + 0
  <2>1. UNCHANGED <<cmd, job>>
    BY DEF Heartbeat, HeartbeatFetch, HeartbeatDispatch, HeartbeatEnds, HeartbeatFails, jobVars
  <2>2. \A i : Claims(i) \in Int
    <3>1. Cardinality(Commands) \in Nat
      BY ApprovalConstants, FS_CardinalityType
    <3>. QED
      BY <3>1, ClaimsAreCounted DEF CountedClaims
  <2>. QED
    BY <2>1, <2>2, SameHolders
<1>2. ASSUME NEW i \in Items, NEW n \in {-1, 0, 1},
             Beats(i)' + Pends(i)' <= Beats(i) + Pends(i) + n
      PROVE  More(i, n)
  BY <1>1, <1>2, SumMoves
<1>3. CASE HeartbeatFetch
  <2>1. PICK S \in SUBSET Items : FetchPending(NotForHeartbeat, S) /\ hbItems' = S
    BY <1>3 DEF HeartbeatFetch
  <2>2. \A i \in S : i \in Expired \/ status[i] = "PENDING"
    BY <2>1 DEF FetchPending, Selected, Fetchable, StatusAfterRollback
  <2>3. ASSUME NEW i \in Items
        PROVE  More(i, IF i \in Expired THEN 1 ELSE 0)
    <3>1. Pends(i)' = IF i \notin S /\ (i \in Expired \/ Pends(i) = 1) THEN 1 ELSE 0
      BY <2>1, PendsMove DEF FetchPending, Base
    <3>2. Beats(i) = 0 /\ Beats(i)' <= (IF i \in S THEN 1 ELSE 0) /\ Beats(i)' \in {0, 1}
      BY <1>3, <2>1 DEF HeartbeatFetch, Beats
    <3>3. i \in Expired => Pends(i) = 0
      BY DEF Expired, Pends
    <3>4. i \in S => i \in Expired \/ Pends(i) = 1
      BY <2>2 DEF Pends
    <3>5. Beats(i)' + Pends(i)' <= Beats(i) + Pends(i) + (IF i \in Expired THEN 1 ELSE 0)
      BY <3>1, <3>2, <3>3, <3>4, OutstandingIsSum
    <3>. QED
      BY <1>2, <3>5
  <2>. QED
    BY <1>3, <2>3, OpeningBacks DEF HeartbeatFetch, Again
<1>4. CASE HeartbeatDispatch
  <2>1. PICK S \in SUBSET hbItems : openings' = Used(S)
    BY <1>4 DEF HeartbeatDispatch, ActOn
  <2>2. ASSUME NEW i \in Items
        PROVE  /\ i \in S => Outstanding(i) >= 1
               /\ More(i, IF i \in S THEN -1 ELSE 0)
    <3>1. Pends(i)' = Pends(i) /\ Pends(i) \in {0, 1}
      BY <1>4, PendsMove DEF HeartbeatDispatch, Base
    <3>2. Beats(i)' = 0 /\ (i \in S => Beats(i) = 1) /\ Beats(i) \in {0, 1}
      BY <1>4 DEF HeartbeatDispatch, Beats
    <3>3. Claims(i) \in Nat
      <4>1. Cardinality(Commands) \in Nat
        BY ApprovalConstants, FS_CardinalityType
      <4>. QED
        BY <4>1, ClaimsAreCounted DEF CountedClaims
    <3>. QED
      BY <1>2, <3>1, <3>2, <3>3, OutstandingIsSum
  <2>. QED
    BY <2>1, <2>2, ActingBacks
<1>5. CASE HeartbeatEnds
  <2>1. ASSUME NEW i \in Items PROVE More(i, 0)
    <3>1. Pends(i)' <= Pends(i) /\ Pends(i)' \in {0, 1} /\ Pends(i) \in {0, 1}
      BY <1>5, PendsMove DEF HeartbeatEnds, MarkConsumed, Base
    <3>2. Beats(i)' = 0 /\ Beats(i) = 0
      BY <1>5 DEF HeartbeatEnds, Beats
    <3>. QED
      BY <1>2, <3>1, <3>2
  <2>. QED
    BY <1>5, <2>1, StayingBacks DEF HeartbeatEnds, history, acts
<1>6. CASE HeartbeatFails
  <2>1. ASSUME NEW i \in Items
        PROVE  More(i, IF i \in (IF hb = "dispatched" THEN hbItems ELSE {}) THEN 1 ELSE 0)
    <3>1. /\ Pends(i)' <= (IF i \in hbItems THEN 1 ELSE Pends(i))
          /\ Pends(i)' \in {0, 1} /\ Pends(i) \in {0, 1}
      BY <1>6, PendsMove DEF HeartbeatFails, RequeueProcessing, Base
    <3>2. /\ Beats(i)' = 0
          /\ Beats(i) = IF hb # "dispatched" /\ i \in hbItems THEN 1 ELSE 0
      BY <1>6 DEF HeartbeatFails, Beats
    <3>3. Beats(i)' + Pends(i)' <= Beats(i) + Pends(i)
             + (IF i \in (IF hb = "dispatched" THEN hbItems ELSE {}) THEN 1 ELSE 0)
      BY <3>1, <3>2
    <3>. QED
      BY <1>2, <3>3
  <2>. QED
    BY <1>6, <2>1, OpeningBacks DEF HeartbeatFails, Again
<1>. QED
  BY <1>3, <1>4, <1>5, <1>6 DEF Heartbeat

\* The writers and listers, the sensors, the clock and a kill.
LEMMA WritersBack ==
    ASSUME Base, Backed,
           \/ \E i \in Items : WriteItem(i) \/ BridgeWrites(i) \/ Age(i)
           \/ ListItems \/ CallerTears \/ SensorLoads \/ SensorWrites \/ Crash \/ UNCHANGED vars
    PROVE  Backed'
<1>1. \A i : Claims(i) \in Int
  <2>1. Cardinality(Commands) \in Nat
    BY ApprovalConstants, FS_CardinalityType
  <2>. QED
    BY <2>1, ClaimsAreCounted DEF CountedClaims
<1>2. \A i : Claims(i)' <= Claims(i) + 0
  <2>1. CASE Crash
    <3>1. \A i : Holders(i)' \subseteq Holders(i)
      BY <2>1 DEF Crash, Holders, Base, Types, Roles
    <3>. QED
      BY <1>1, <3>1, HoldersMove
  <2>2. CASE ~Crash
    <3>1. UNCHANGED <<cmd, job>>
      BY <2>2 DEF WriteItem, BridgeWrites, Age, ListItems, CallerTears, SensorLoads, SensorWrites, vars, jobVars
    <3>. QED
      BY <1>1, <3>1, SameHolders
  <2>. QED
    BY <2>1, <2>2
<1>3. \A i : Beats(i)' <= Beats(i)
  <2>1. UNCHANGED hbVars \/ hb' = "idle"
    BY DEF WriteItem, BridgeWrites, Age, ListItems, CallerTears, SensorLoads, SensorWrites, Crash, vars
  <2>. QED
    BY <2>1 DEF hbVars, Beats
<1>4. ASSUME NEW i \in Items, NEW n \in {0, 1}, Pends(i)' <= Pends(i) + n PROVE More(i, n)
  <2>1. Beats(i)' + Pends(i)' <= Beats(i) + Pends(i) + n
    <3>1. Beats(i) \in {0, 1} /\ Beats(i)' \in {0, 1} /\ Pends(i) \in {0, 1} /\ Pends(i)' \in {0, 1}
      BY DEF Beats, Pends
    <3>. QED
      BY <1>3, <1>4, <3>1
  <2>2. Claims(i)' <= Claims(i) + 0
    BY <1>2
  <2>3. n \in Int /\ 0 + n <= n
    OBVIOUS
  <2>. QED
    BY <2>1, <2>2, <2>3, SumMoves
\* Opening the items that become pending, and others.
<1>5. ASSUME NEW S, openings' = Opened(S), \A i \in Items : Pends(i)' <= Pends(i) + (IF i \in S THEN 1 ELSE 0)
      PROVE  Backed'
  <2>1. \A i \in Items : More(i, IF i \in S THEN 1 ELSE 0)
    BY <1>4, <1>5
  <2>. QED
    BY <1>5, <2>1, OpeningBacks
<1>6. ASSUME openings' = openings, \A i \in Items : Pends(i)' <= Pends(i) PROVE Backed'
  <2>1. \A i \in Items : More(i, 0)
    <3>1. \A i \in Items : Pends(i)' <= Pends(i) + 0
      BY <1>6 DEF Pends
    <3>. QED
      BY <1>4, <3>1
  <2>. QED
    BY <1>6, <2>1, StayingBacks
<1>7. \A i, k \in Items : Write(k) => Pends(i)' = IF i = k THEN 1 ELSE Pends(i)
  BY DEF Write, Pends, Base, Types, InboxTypeOK
<1>8. ASSUME NEW k \in Items, FirstWrite(k) PROVE Backed'
  <2>1. openings' = Opened({k}) /\ Write(k)
    BY <1>8 DEF FirstWrite
  <2>2. \A i \in Items : Pends(i)' <= Pends(i) + (IF i \in {k} THEN 1 ELSE 0)
    BY <1>7, <2>1 DEF Pends
  <2>. QED
    BY <1>5, <2>1, <2>2
<1>9. ASSUME NEW k \in Items, BridgeWrites(k) PROVE Backed'
  <2> DEFINE S == {k} \ {i \in Items : status[i] = "PENDING"}
  <2>1. CASE Write(k) /\ Again(S)
    <3>1. openings' = Opened(S)
      BY <2>1 DEF Again
    <3>2. \A i \in Items : Pends(i)' <= Pends(i) + (IF i \in S THEN 1 ELSE 0)
      BY <1>7, <2>1 DEF Pends
    <3>. QED
      BY <1>5, <3>1, <3>2
  <2>2. CASE Raised /\ UNCHANGED acts
    <3>1. \A i \in Items : Pends(i)' <= Pends(i)
      BY <2>2, PendsMove DEF Base
    <3>. QED
      BY <1>6, <2>2, <3>1 DEF acts
  <2>. QED
    BY <1>8, <1>9, <2>1, <2>2 DEF BridgeWrites
<1>10. CASE ListItems
  <2>1. \A i \in Items : Pends(i)' <= Pends(i) + (IF i \in Expired THEN 1 ELSE 0)
    BY <1>10, PendsMove DEF ListItems, ListPending, Base
  <2>2. openings' = Opened(Expired)
    BY <1>10 DEF ListItems, Again
  <2>. QED
    BY <1>5, <2>1, <2>2
<1>11. CASE SensorWrites
  <2> DEFINE S == {i \in Items : mirror.status[i] = "PENDING" /\ status[i] # "PENDING"}
  <2>1. \A i \in Items : Pends(i)' <= Pends(i) + (IF i \in S THEN 1 ELSE 0)
    BY <1>11 DEF SensorWrites, WriteCopy, Pends
  <2>2. openings' = Opened(S)
    BY <1>11 DEF SensorWrites, Again
  <2>. QED
    BY <1>5, <2>1, <2>2
<1>12. ASSUME (\E i \in Items : Age(i)) \/ CallerTears \/ SensorLoads \/ Crash \/ UNCHANGED vars PROVE Backed'
  <2>1. UNCHANGED acts
    BY <1>12 DEF Age, CallerTears, SensorLoads, Crash, vars, history
  <2>2. TornFile \/ status' = status
    BY <1>12 DEF Age, ClaimAges, CallerTears, SensorLoads, Crash, vars, inboxVars
  <2>3. \A i \in Items : Pends(i)' <= Pends(i)
    <3>1. status' = status => \A i \in Items : Pends(i)' <= Pends(i)
      BY DEF Pends
    <3>. QED
      BY <2>2, <3>1, PendsMove DEF Base
  <2>. QED
    BY <1>6, <2>1, <2>3 DEF acts
<1>. QED
  BY <1>8, <1>9, <1>10, <1>11, <1>12 DEF WriteItem

\* What one command or its job does to those who hold a claim on an item.
LEMMA ClaimsMove ==
    ASSUME Base, NEW c \in Commands,
           \A d \in Commands \ {c} : cmd'[d] = cmd[d] /\ job'[d] = job[d]
    PROVE  \A i : /\ c \notin Holders(i)' \/ c \in Holders(i) => Claims(i)' <= Claims(i) + 0
                  /\ Claims(i)' <= Claims(i) + 1
                  /\ c \in Holders(i) /\ c \notin Holders(i)' => Claims(i)' <= Claims(i) + (-1)
                  /\ c \in Holders(i) => Claims(i) >= 1
<1> SUFFICES ASSUME NEW i
             PROVE  /\ c \notin Holders(i)' \/ c \in Holders(i) => Claims(i)' <= Claims(i) + 0
                    /\ Claims(i)' <= Claims(i) + 1
                    /\ c \in Holders(i) /\ c \notin Holders(i)' => Claims(i)' <= Claims(i) + (-1)
                    /\ c \in Holders(i) => Claims(i) >= 1
  OBVIOUS
<1>1. Holders(i)' \subseteq Holders(i) \union {c}
  BY DEF Holders
<1>2. Claims(i) \in Nat
  <2>1. Cardinality(Commands) \in Nat
    BY ApprovalConstants, FS_CardinalityType
  <2>. QED
    BY <2>1, ClaimsAreCounted DEF CountedClaims
<1>3. c \in Holders(i) => Claims(i) # 0
  BY ClaimsAreCounted, FS_EmptySet DEF CountedClaims, Claims
<1>4. c \notin Holders(i)' \/ c \in Holders(i) => Claims(i)' <= Claims(i) + 0
  BY <1>1, <1>2, HoldersMove
<1>5. c \in Holders(i) /\ c \notin Holders(i)' => Claims(i)' <= Claims(i) + (-1)
  <2>1. c \notin Holders(i)' => Holders(i)' \subseteq Holders(i) \ {c}
    BY <1>1
  <2>2. c \in Holders(i) /\ c \notin Holders(i)' => Claims(i)' <= Claims(i) - 1
    BY <2>1, HoldersMove
  <2>. QED
    BY <1>2, <2>2
<1>. QED
  BY <1>1, <1>2, <1>3, <1>4, <1>5, HoldersMove

LEMMA CommandBacks ==
    ASSUME Base, Backed, NEW c \in Commands, Command(c)
    PROVE  Backed'
<1>1. \A i : Beats(i)' = Beats(i) /\ Beats(i) \in {0, 1}
  BY DEF Command, CommandClaims, CommandGivesBack, CommandDecides, CommandMarks,
     CommandSubmitsResume, hbVars, Beats
<1>2. \A d \in Commands \ {c} : cmd'[d] = cmd[d] /\ job'[d] = job[d]
  BY DEF Command, CommandClaims, CommandGivesBack, CommandDecides, CommandMarks,
     CommandSubmitsResume, jobVars, Base, Types
<1>3. ASSUME NEW i \in Items, NEW a \in {-1, 0, 1}, NEW p \in {-1, 0, 1}, NEW n \in {-1, 0, 1}, a + p <= n,
             Claims(i)' <= Claims(i) + a, Pends(i)' <= Pends(i) + p
      PROVE  More(i, n)
  <2>1. Beats(i)' + Pends(i)' <= Beats(i) + Pends(i) + p
    <3>1. Pends(i) \in {0, 1} /\ Pends(i)' \in {0, 1}
      BY DEF Pends
    <3>. QED
      BY <1>1, <1>3, <3>1
  <2>2. a \in Int /\ p \in Int /\ n \in Int
    OBVIOUS
  <2>. QED
    BY <1>3, <2>1, <2>2, SumMoves
<1>4. ASSUME NEW k \in Items, CommandClaims(c, k), ClaimPending(k) PROVE Backed'
  <2>1. \A i : i # k => c \notin Holders(i)'
    BY <1>4 DEF CommandClaims, ClaimFails, ClaimPending, Holders, Base, Types, Roles
  <2>2. ASSUME NEW i \in Items PROVE More(i, IF i \in Expired THEN 1 ELSE 0)
    <3>1. Pends(i)' = IF i \notin {k} /\ (i \in Expired \/ Pends(i) = 1) THEN 1 ELSE 0
      BY <1>4, PendsMove DEF ClaimPending, Base
    <3>2. Pends(i) \in {0, 1} /\ (i \in Expired => Pends(i) = 0)
      BY DEF Pends, Expired
    <3>3. CASE i = k
      <4>1. i \in Expired \/ Pends(i) = 1
        BY <1>4, <3>3 DEF ClaimPending, Fetchable, StatusAfterRollback, Pends
      <4>2. Claims(i)' <= Claims(i) + 1
        BY <1>2, ClaimsMove
      <4>3. Pends(i)' <= Pends(i) + (IF i \in Expired THEN 0 ELSE -1)
        BY <3>1, <3>2, <3>3, <4>1
      <4>. QED
        BY <1>3, <4>2, <4>3
    <3>4. CASE i # k
      <4>1. Claims(i)' <= Claims(i) + 0
        BY <1>2, <2>1, <3>4, ClaimsMove
      <4>2. Pends(i)' <= Pends(i) + (IF i \in Expired THEN 1 ELSE 0)
        BY <3>1, <3>2, <3>4
      <4>. QED
        BY <1>3, <4>1, <4>2
    <3>. QED
      BY <3>3, <3>4
  <2>. QED
    BY <1>4, <2>2, OpeningBacks DEF CommandClaims, Again
<1>5. ASSUME NEW k \in Items, CommandClaims(c, k), ~ClaimPending(k) PROVE Backed'
  <2>1. ClaimFails(k) /\ cmd' = [cmd EXCEPT ![c].pc = "done"] /\ job' = job /\ cmd[c].pc = "idle"
    BY <1>5 DEF CommandClaims, jobVars
  <2>2. \A i : c \notin Holders(i)'
    BY <2>1 DEF Holders, Base, Types, Roles
  <2>3. ASSUME NEW i \in Items PROVE More(i, IF i \in Expired THEN 1 ELSE 0)
    <3>1. Pends(i)' = IF i \in Expired \/ Pends(i) = 1 THEN 1 ELSE 0
      BY <2>1, PendsMove DEF ClaimFails, ListPending, Base
    <3>2. Pends(i) \in {0, 1}
      BY DEF Pends
    <3>3. Claims(i)' <= Claims(i) + 0
      BY <1>2, <2>2, ClaimsMove
    <3>4. Pends(i)' <= Pends(i) + (IF i \in Expired THEN 1 ELSE 0)
      BY <3>1, <3>2
    <3>. QED
      BY <1>3, <3>3, <3>4
  <2>. QED
    BY <1>5, <2>3, OpeningBacks DEF CommandClaims, Again
<1>6. CASE CommandGivesBack(c)
  <2> DEFINE k == cmd[c].item
  <2>1. /\ k \in Items /\ c \in Holders(k) /\ \A i : i # k => c \notin Holders(i)
        /\ \A i : c \notin Holders(i)'
    BY <1>6 DEF CommandGivesBack, jobVars, Holders, Base, Types, Roles
  <2>2. ASSUME NEW i \in Items PROVE More(i, 0)
    <3>1. Pends(i)' <= (IF i = k THEN 1 ELSE Pends(i)) /\ Pends(i) \in {0, 1} /\ Pends(i)' \in {0, 1}
      BY <1>6, PendsMove DEF CommandGivesBack, RequeueProcessing, Base
    <3>2. CASE i = k
      <4>1. Claims(i)' <= Claims(i) + (-1)
        BY <1>2, <2>1, <3>2, ClaimsMove
      <4>2. Pends(i)' <= Pends(i) + 1
        BY <3>1
      <4>. QED
        BY <1>3, <4>1, <4>2
    <3>3. CASE i # k
      <4>1. Claims(i)' <= Claims(i) + 0
        BY <1>2, <2>1, ClaimsMove
      <4>2. Pends(i)' <= Pends(i) + 0
        BY <3>1, <3>3
      <4>. QED
        BY <1>3, <4>1, <4>2
    <3>. QED
      BY <3>2, <3>3
  <2>. QED
    BY <1>6, <2>2, StayingBacks DEF CommandGivesBack, acts
<1>7. CASE CommandDecides(c)
  <2> DEFINE k == cmd[c].item
  <2>1. /\ k \in Items /\ c \in Holders(k) /\ \A i : i # k => c \notin Holders(i)
        /\ \A i : c \notin Holders(i)'
    BY <1>7 DEF CommandDecides, jobVars, Holders, Base, Types, Roles
  <2>2. ASSUME NEW i \in Items
        PROVE  /\ i \in {k} => Outstanding(i) >= 1
               /\ More(i, IF i \in {k} THEN -1 ELSE 0)
    <3>1. Pends(i)' = Pends(i) /\ Pends(i) \in {0, 1}
      BY <1>7, PendsMove DEF CommandDecides, Base
    <3>2. Pends(i)' <= Pends(i) + 0
      BY <3>1
    <3>3. CASE i = k
      <4>1. Claims(i)' <= Claims(i) + (-1) /\ Claims(i) >= 1
        BY <1>2, <2>1, <3>3, ClaimsMove
      <4>2. Claims(i) \in Int
        <5>1. Cardinality(Commands) \in Nat
          BY ApprovalConstants, FS_CardinalityType
        <5>. QED
          BY <5>1, ClaimsAreCounted DEF CountedClaims
      <4>3. Outstanding(i) >= 1
        BY <1>1, <3>1, <4>1, <4>2, OutstandingIsSum
      <4>. QED
        BY <1>3, <3>2, <3>3, <4>1, <4>3
    <3>4. CASE i # k
      <4>1. Claims(i)' <= Claims(i) + 0
        BY <1>2, <2>1, ClaimsMove
      <4>. QED
        BY <1>3, <3>2, <3>4, <4>1
    <3>. QED
      BY <3>3, <3>4
  <2>. QED
    BY <1>7, <2>2, ActingBacks DEF CommandDecides, Decide, ActOn
<1>8. CASE CommandMarks(c) \/ CommandSubmitsResume(c)
  <2>1. \A i : c \notin Holders(i)' \/ c \in Holders(i)
    BY <1>8 DEF CommandMarks, CommandSubmitsResume, jobVars, Holders, Base, Types, Roles
  <2>2. ASSUME NEW i \in Items PROVE More(i, 0)
    <3>1. Pends(i)' <= Pends(i) + 0
      BY <1>8, PendsMove DEF CommandMarks, MarkConsumed, CommandSubmitsResume, inboxVars, Base
    <3>2. Claims(i)' <= Claims(i) + 0
      BY <1>2, <2>1, ClaimsMove
    <3>. QED
      BY <1>3, <3>1, <3>2
  <2>. QED
    BY <1>8, <2>2, StayingBacks DEF CommandMarks, CommandSubmitsResume, history, acts
<1>. QED
  BY <1>4, <1>5, <1>6, <1>7, <1>8 DEF Command

LEMMA ResumeBacks ==
    ASSUME Base, Backed, NEW c \in Commands, Resume(c)
    PROVE  Backed'
<1>1. cmd[c].item \in Items /\ cmd[c].pc = "done"
  <2>1. Active(c)
    BY DEF Resume, ResumeChecks, ResumeRefused, ResumeRaises, ResumeDelivers, ResumeEnds, ResumeCompletes, Active
  <2>. QED
    BY <2>1 DEF Base, Types, Roles, Active
<1>2. PICK k \in Items : k = cmd[c].item
  BY <1>1
<1>3. \A i : Beats(i)' = Beats(i) /\ Beats(i) \in {0, 1}
  BY DEF Resume, ResumeChecks, ResumeRefused, ResumeRaises, ResumeDelivers, ResumeEnds, ResumeCompletes, hbVars, Beats
<1>4. cmd' = cmd /\ \A d \in Commands \ {c} : cmd'[d] = cmd[d] /\ job'[d] = job[d]
  BY DEF Resume, ResumeChecks, ResumeRefused, ResumeRaises, ResumeDelivers, ResumeEnds, ResumeCompletes, RetryOpens, Returns, Retry,
     Base, Types
<1>5. /\ k \in Items /\ cmd[c].pc = "done"
      /\ \A i : i # k => c \notin Holders(i)' /\ c \notin Holders(i)
      /\ c \in Holders(k) <=> job[c] \in {"waiting", "checked"}
      /\ c \in Holders(k)' <=> job'[c] \in {"waiting", "checked"}
  BY <1>4, <1>1, <1>2 DEF Holders
<1>6. ASSUME NEW i \in Items, NEW a \in {-1, 0, 1}, NEW p \in {0, 1}, NEW n \in {-1, 0, 1}, a + p <= n,
             Claims(i)' <= Claims(i) + a, Pends(i)' <= Pends(i) + p
      PROVE  More(i, n)
  <2>1. Beats(i)' + Pends(i)' <= Beats(i) + Pends(i) + p
    <3>1. Pends(i) \in {0, 1} /\ Pends(i)' \in {0, 1}
      BY DEF Pends
    <3>. QED
      BY <1>3, <1>6, <3>1
  <2>2. a \in Int /\ p \in Int /\ n \in Int
    OBVIOUS
  <2>. QED
    BY <1>6, <2>1, <2>2, SumMoves
\* Other items are left alone.
<1>7. ASSUME NEW i \in Items, i # k PROVE More(i, 0)
  <2>1. Pends(i)' <= Pends(i) + 0
    <3>1. \/ UNCHANGED inboxVars \/ Raised
          \/ SetStatus({k}, "PENDING") \/ SetStatus({k}, "CONSUMED")
      BY <1>2 DEF Resume, ResumeChecks, ResumeRefused, ResumeRaises, ResumeDelivers, ResumeEnds, ResumeCompletes, MarkError,
         MarkConsumed, inboxVars
    <3>2. i \notin {k}
      BY <1>7
    <3>3. Pends(i) \in {0, 1} /\ Pends(i)' \in {0, 1} /\ Pends(i)' <= Pends(i)
      BY <3>1, <3>2, PendsMove DEF Base
    <3>. QED
      BY <3>3
  <2>2. Claims(i)' <= Claims(i) + 0
    BY <1>4, <1>5, <1>7, ClaimsMove
  <2>. QED
    BY <1>6, <2>1, <2>2
<1>8. Pends(k) \in {0, 1} /\ Pends(k)' \in {0, 1}
  BY DEF Pends
<1>9. /\ c \notin Holders(k)' \/ c \in Holders(k) => Claims(k)' <= Claims(k) + 0
      /\ Claims(k)' <= Claims(k) + 1
      /\ c \in Holders(k) /\ c \notin Holders(k)' => Claims(k)' <= Claims(k) + (-1) /\ Claims(k) >= 1
  BY <1>4, ClaimsMove
<1>10. /\ UNCHANGED inboxVars \/ Raised \/ MarkConsumed({k}) => Pends(k)' <= Pends(k) + 0
       /\ Pends(k)' <= Pends(k) + 1
  <2>1. UNCHANGED inboxVars \/ Raised \/ MarkConsumed({k}) => Pends(k)' <= Pends(k)
    BY <1>5, <1>8, PendsMove DEF MarkConsumed, Base
  <2>. QED
    BY <1>8, <2>1
<1>11. /\ Claims(k)' <= Claims(k) + 0 /\ Pends(k)' <= Pends(k) + 0 => More(k, 0)
       /\ Claims(k)' <= Claims(k) + 0 => More(k, 1)
       /\ Claims(k)' <= Claims(k) + 1 /\ Pends(k)' <= Pends(k) + 0 => More(k, 1)
       /\ Claims(k)' <= Claims(k) + (-1) => More(k, 0)
       /\ Claims(k)' <= Claims(k) + (-1) /\ Pends(k)' <= Pends(k) + 0 => More(k, -1)
  <2>1. Claims(k)' <= Claims(k) + 0 /\ Pends(k)' <= Pends(k) + 0 => More(k, 0)
    BY <1>5, <1>6
  <2>2. Claims(k)' <= Claims(k) + 0 => More(k, 1)
    BY <1>5, <1>6, <1>10
  <2>3. Claims(k)' <= Claims(k) + 1 /\ Pends(k)' <= Pends(k) + 0 => More(k, 1)
    BY <1>5, <1>6
  <2>4. Claims(k)' <= Claims(k) + (-1) => More(k, 0)
    BY <1>5, <1>6, <1>10
  <2>5. Claims(k)' <= Claims(k) + (-1) /\ Pends(k)' <= Pends(k) + 0 => More(k, -1)
    BY <1>5, <1>6
  <2>. QED
    BY <2>1, <2>2, <2>3, <2>4, <2>5
<1>12. ASSUME openings' = openings, More(k, 0) PROVE Backed'
  BY <1>7, <1>12, StayingBacks
<1>13. ASSUME openings' = Opened({k}), More(k, 1) PROVE Backed'
  <2>1. \A i \in Items : More(i, IF i \in {k} THEN 1 ELSE 0)
    BY <1>7, <1>13
  <2>. QED
    BY <1>13, <2>1, OpeningBacks
<1>14. Opened({}) = openings
  BY DEF Opened, Backed
<1>15. Retry(c) => job'[c] = IF RetriesLeft(c) THEN "waiting" ELSE "done"
  BY DEF Retry, Base, Types
<1>16. Returns(c) => job'[c] = "returned"
  BY DEF Returns, Base, Types
\* The retry of a job opens the item for it, and no more for a marked item.
<1>O. ASSUME RetryOpens(c),
             \/ c \in Holders(k)
             \/ Pends(k)' <= Pends(k) + 0
      PROVE  Backed'
  <2>1. CASE RetriesLeft(c)
    <3>1. More(k, 1)
      BY <1>O, <1>9, <1>11
    <3>. QED
      BY <1>13, <1>O, <2>1, <3>1, <1>2 DEF RetryOpens, Again
  <2>2. CASE ~RetriesLeft(c)
    <3>1. c \notin Holders(k)' /\ openings' = openings
      BY <1>5, <1>14, <1>15, <1>O, <2>2, <1>2 DEF RetryOpens, Again
    <3>2. More(k, 0)
      BY <1>O, <1>9, <1>11, <3>1
    <3>. QED
      BY <1>12, <3>1, <3>2
  <2>. QED
    BY <2>1, <2>2
<1>17. CASE ResumeChecks(c)
  <2>1. More(k, 0)
    BY <1>5, <1>9, <1>10, <1>11, <1>17, <1>2 DEF ResumeChecks, inboxVars
  <2>. QED
    BY <1>12, <1>17, <2>1, <1>2 DEF ResumeChecks, history, acts
<1>18. CASE ResumeRefused(c)
  <2>1. c \in Holders(k)
    BY <1>5, <1>18, <1>2 DEF ResumeRefused
  <2>2. Claims(k)' <= Claims(k) + (-1)
    BY <1>5, <1>9, <1>16, <1>18, <2>1 DEF ResumeRefused
  <2>3. More(k, 0)
    BY <1>11, <2>2
  <2>. QED
    BY <1>12, <1>18, <2>3 DEF ResumeRefused, history, acts
<1>19. CASE ResumeRaises(c)
  <2>1. c \in Holders(k)
    BY <1>5, <1>19, <1>2 DEF ResumeRaises
  <2>2. CASE (Raised \/ UNCHANGED <<inboxVars, lost>>) /\ UNCHANGED acts
    <3>1. More(k, 0)
      BY <1>5, <1>9, <1>10, <1>11, <2>1, <2>2
    <3>. QED
      BY <1>12, <2>2, <3>1 DEF acts
  <2>. QED
    BY <1>O, <1>19, <2>1, <2>2 DEF ResumeRaises
<1>20. CASE ResumeDelivers(c)
  <2>1. /\ c \in Holders(k) /\ c \notin Holders(k)'
        /\ UNCHANGED inboxVars /\ openings' = Used({k})
    BY <1>5, <1>20, <1>2 DEF ResumeDelivers, Decide, ActOn, inboxVars, Base, Types
  <2>2. More(k, -1)
    BY <1>5, <1>9, <1>10, <1>11, <2>1
  <2>3. Outstanding(k) >= 1
    <3>1. Cardinality(Commands) \in Nat
      BY ApprovalConstants, FS_CardinalityType
    <3>2. Claims(k) \in Nat
      BY <3>1, ClaimsAreCounted DEF CountedClaims
    <3>. QED
      BY <1>3, <1>8, <1>9, <2>1, <3>2, OutstandingIsSum
  <2>4. \A i \in Items : (i \in {k} => Outstanding(i) >= 1) /\ More(i, IF i \in {k} THEN -1 ELSE 0)
    BY <1>7, <2>2, <2>3
  <2>. QED
    BY <2>1, <2>4, ActingBacks
<1>21. CASE ResumeEnds(c)
  <2>1. c \notin Holders(k)
    BY <1>5, <1>21, <1>2 DEF ResumeEnds, ResumeCompletes
  <2>2. CASE MarkConsumed({k}) /\ Returns(c) /\ UNCHANGED history
    <3>1. c \notin Holders(k)'
      BY <1>5, <1>16, <2>2
    <3>2. More(k, 0)
      BY <1>5, <1>9, <1>10, <1>11, <2>2, <3>1
    <3>. QED
      BY <1>12, <2>2, <3>2 DEF history, acts
  <2>3. CASE MarkError(k) /\ Returns(c) /\ Again({k})
    <3>1. c \notin Holders(k)'
      BY <1>5, <1>16, <2>3
    <3>2. More(k, 1)
      BY <1>5, <1>9, <1>10, <1>11, <3>1
    <3>. QED
      BY <1>13, <2>3, <3>2 DEF Again
  <2>4. CASE Raised /\ RetryOpens(c)
    BY <1>10, <1>O, <2>4
  <2>. QED
    BY <1>21, <2>2, <2>3, <2>4, <1>2 DEF ResumeEnds, ResumeCompletes
<1>22. CASE ResumeCompletes(c)
  <2>1. Pends(k)' <= Pends(k) + 0
    BY <1>10, <1>22 DEF ResumeCompletes, inboxVars
  <2>2. CASE RetryOpens(c)
    BY <1>O, <2>1, <2>2
  <2>3. CASE job' = [job EXCEPT ![c] = "done"] /\ UNCHANGED acts
    <3>1. c \notin Holders(k)'
      BY <1>5, <2>3 DEF Base, Types
    <3>2. More(k, 0)
      BY <1>5, <1>9, <1>11, <2>1, <3>1
    <3>. QED
      BY <1>12, <2>3, <3>2 DEF acts
  <2>. QED
    BY <1>22, <2>2, <2>3 DEF ResumeCompletes
<1>. QED
  BY <1>17, <1>18, <1>19, <1>20, <1>21, <1>22 DEF Resume

-----------------------------------------------------------------------------
(* The theorems.                                                           *)

\* An item that was not opened again has been opened once, when it was first
\* written.
OpenedOnce ==
    \A i \in Items \ again :
        /\ openings[i] + (IF i \in acted THEN 1 ELSE 0) <= 1
        /\ written[i] = "no" => openings[i] = 0 /\ i \notin acted

LEMMA OpenedOnceNext ==
    ASSUME Base, Backed, OpenedOnce, [Next]_vars PROVE OpenedOnce'
<1>1. ASSUME UNCHANGED acts, \A i \in Items : written'[i] = "no" => written[i] = "no" PROVE OpenedOnce'
  BY <1>1 DEF OpenedOnce, acts
<1>2. ASSUME NEW S, Again(S), \A i \in Items : written'[i] = "no" => written[i] = "no" PROVE OpenedOnce'
  BY <1>2 DEF OpenedOnce, Again, Opened
<1>3. ASSUME NEW i \in Items, FirstWrite(i), written'[i] # "no", \A k \in Items \ {i} : written'[k] = written[k]
      PROVE  OpenedOnce'
  BY <1>3 DEF OpenedOnce, FirstWrite, Opened
\* Who acts was to act, so that the item is open.
<1>4. ASSUME NEW S \in SUBSET Items, ActOn(S), written' = written, \A i \in S : openings[i] >= 1
      PROVE  OpenedOnce'
  <2> SUFFICES ASSUME NEW i \in Items \ again'
               PROVE  /\ openings'[i] + (IF i \in acted' THEN 1 ELSE 0) <= 1
                      /\ written'[i] = "no" => openings'[i] = 0 /\ i \notin acted'
    BY DEF OpenedOnce
  <2>1. i \notin again /\ openings[i] \in Nat
    BY <1>4, ApprovalConstants DEF ActOn, Backed
  <2>. QED
    BY <1>4, <2>1 DEF OpenedOnce, ActOn, Used
<1>5. ASSUME NEW i \in Items, NEW n \in 1..1, n <= Outstanding(i) PROVE openings[i] >= 1
  <2>1. Outstanding(i) <= openings[i] /\ openings[i] \in Nat
    BY ApprovalConstants DEF Backed, Covered
  <2>2. Outstanding(i) \in Nat
    <3>1. Cardinality(Commands) \in Nat
      BY ApprovalConstants, FS_CardinalityType
    <3>2. Claims(i) \in Nat
      BY <3>1, ClaimsAreCounted DEF CountedClaims
    <3>. QED
      BY <3>2, OutstandingIsSum
  <2>. QED
    BY <1>5, <2>1, <2>2
<1>6. \A c \in Commands : \A i \in Items : c \in Holders(i) => openings[i] >= 1
  <2> SUFFICES ASSUME NEW c \in Commands, NEW i \in Items, c \in Holders(i) PROVE openings[i] >= 1
    OBVIOUS
  <2>1. Claims(i) # 0 /\ Claims(i) \in Nat
    <3>1. Cardinality(Commands) \in Nat
      BY ApprovalConstants, FS_CardinalityType
    <3>. QED
      BY <3>1, ClaimsAreCounted, FS_EmptySet DEF CountedClaims, Claims
  <2>2. 1 <= Outstanding(i)
    BY <2>1, OutstandingIsSum
  <2>. QED
    BY <1>5, <2>2
<1>7. ASSUME NEW i \in Items, WriteItem(i) \/ BridgeWrites(i) \/ Age(i) PROVE OpenedOnce'
  <2>1. CASE WriteItem(i) \/ (BridgeWrites(i) /\ FirstWrite(i))
    <3>1. FirstWrite(i)
      BY <2>1 DEF WriteItem
    <3>2. written'[i] # "no" /\ \A k \in Items \ {i} : written'[k] = written[k]
      BY <2>1 DEF WriteItem, BridgeWrites, Base, Types
    <3>. QED
      BY <1>3, <3>1, <3>2
  <2>2. CASE BridgeWrites(i) /\ ~FirstWrite(i)
    <3>1. \A k \in Items : written'[k] = "no" => written[k] = "no"
      BY <2>2 DEF BridgeWrites, Base, Types
    <3>. QED
      BY <1>1, <1>2, <2>2, <3>1 DEF BridgeWrites
  <2>3. CASE Age(i)
    BY <1>1, <2>3 DEF Age, history
  <2>. QED
    BY <1>7, <2>1, <2>2, <2>3
<1>8. CASE ListItems \/ CallerTears \/ SensorLoads \/ SensorWrites \/ Crash \/ UNCHANGED vars
  <2>1. \A k \in Items : written'[k] = "no" => written[k] = "no"
    BY <1>8 DEF ListItems, CallerTears, SensorLoads, SensorWrites, Crash, vars
  <2>. QED
    BY <1>1, <1>2, <1>8, <2>1 DEF ListItems, CallerTears, SensorLoads, SensorWrites, Crash, vars, history
<1>9. CASE Heartbeat
  <2>1. written' = written
    BY <1>9 DEF Heartbeat, HeartbeatFetch, HeartbeatDispatch, HeartbeatEnds, HeartbeatFails
  <2>2. CASE HeartbeatDispatch
    <3>1. PICK S \in SUBSET hbItems : ActOn(S)
      BY <2>2 DEF HeartbeatDispatch
    <3>2. S \in SUBSET Items
      BY <3>1 DEF Base, Types
    <3>3. \A i \in S : openings[i] >= 1
      <4> SUFFICES ASSUME NEW i \in S PROVE openings[i] >= 1
        OBVIOUS
      <4>1. i \in Items /\ Beats(i) = 1 /\ Pends(i) \in {0, 1}
        BY <2>2, <3>1, <3>2 DEF HeartbeatDispatch, Beats, Pends
      <4>2. Claims(i) \in Nat
        <5>1. Cardinality(Commands) \in Nat
          BY ApprovalConstants, FS_CardinalityType
        <5>. QED
          BY <5>1, ClaimsAreCounted DEF CountedClaims
      <4>3. 1 <= Outstanding(i)
        BY <4>1, <4>2, OutstandingIsSum
      <4>. QED
        BY <1>5, <4>1, <4>3
    <3>. QED
      BY <1>4, <2>1, <3>1, <3>2, <3>3
  <2>3. CASE HeartbeatFetch \/ HeartbeatEnds \/ HeartbeatFails
    BY <1>1, <1>2, <2>1, <2>3 DEF HeartbeatFetch, HeartbeatEnds, HeartbeatFails, history
  <2>. QED
    BY <1>9, <2>2, <2>3 DEF Heartbeat
<1>10. ASSUME NEW c \in Commands, Command(c) PROVE OpenedOnce'
  <2>1. written' = written
    BY <1>10 DEF Command, CommandClaims, CommandGivesBack, CommandDecides, CommandMarks, CommandSubmitsResume
  <2>2. CASE CommandDecides(c)
    <3>1. cmd[c].item \in Items /\ c \in Holders(cmd[c].item) /\ ActOn({cmd[c].item})
      BY <2>2 DEF CommandDecides, Decide, Holders, Base, Roles
    <3>. QED
      BY <1>4, <1>6, <2>1, <3>1
  <2>3. CASE (\E i \in Items : CommandClaims(c, i)) \/ CommandGivesBack(c) \/ CommandMarks(c) \/ CommandSubmitsResume(c)
    BY <1>1, <1>2, <2>1, <2>3 DEF CommandClaims, CommandGivesBack, CommandMarks, CommandSubmitsResume, history
  <2>. QED
    BY <1>10, <2>2, <2>3 DEF Command
<1>11. ASSUME NEW c \in Commands, Resume(c) PROVE OpenedOnce'
  <2>1. written' = written
    BY <1>11 DEF Resume, ResumeChecks, ResumeRefused, ResumeRaises, ResumeDelivers, ResumeEnds, ResumeCompletes
  <2>2. CASE ResumeDelivers(c)
    <3>1. cmd[c].item \in Items /\ c \in Holders(cmd[c].item) /\ ActOn({cmd[c].item})
      BY <2>2 DEF ResumeDelivers, Decide, Holders, Base, Roles, Active
    <3>. QED
      BY <1>4, <1>6, <2>1, <3>1
  <2>3. CASE ResumeChecks(c) \/ ResumeRefused(c) \/ ResumeRaises(c) \/ ResumeEnds(c) \/ ResumeCompletes(c)
    BY <1>1, <1>2, <2>1, <2>3 DEF ResumeChecks, ResumeRefused, ResumeRaises, ResumeEnds, ResumeCompletes, RetryOpens, Returns, history
  <2>. QED
    BY <1>11, <2>2, <2>3 DEF Resume
<1>. QED
  BY <1>7, <1>8, <1>9, <1>10, <1>11 DEF Next

IInv == Base /\ DecidedInv /\ Backed /\ OpenedOnce

LEMMA IInvHolds == Spec => []IInv
<1>1. Init => IInv
  <2> SUFFICES ASSUME Init PROVE IInv
    OBVIOUS
  <2>1. DecidedInv
    BY DEF Init, InboxInit, DecidedInv, ConfirmationsDecided, OfKind
  <2>2. \A i \in Items : Outstanding(i) = 0
    <3>1. \A i \in Items : Holders(i) = {}
      BY DEF Init, Holders
    <3>2. Cardinality({}) = 0
      BY FS_EmptySet
    <3>3. \A i \in Items : status[i] # "PENDING"
      BY DEF Init, InboxInit
    <3>4. hb # "fetched"
      BY DEF Init
    <3>. QED
      BY <3>1, <3>2, <3>3, <3>4 DEF Outstanding
  <2>3. OpenedOnce
    BY DEF Init, OpenedOnce
  <2>4. openings \in [Items -> 0..MaxOpenings] /\ \A i \in Items : openings[i] = 0
    BY ApprovalConstants, FS_CardinalityType DEF Init
  <2>. QED
    BY <2>1, <2>2, <2>3, <2>4, BaseInit DEF IInv, Backed, Covered
<1>2. IInv /\ [Next]_vars => IInv'
  <2> SUFFICES ASSUME IInv, [Next]_vars PROVE Backed'
    BY BaseNext, DecidedNext, OpenedOnceNext DEF IInv
  <2>. QED
    BY WritersBack, HeartbeatBacks, CommandBacks, ResumeBacks DEF IInv, Next
<1>. QED
  BY <1>1, <1>2, PTL DEF Spec

\* Every variable has its type; the openings never run below zero.
THEOREM TypeCorrect == Spec => []TypeOK
<1>1. IInv => TypeOK
  BY DEF IInv, Base, Types, Backed, TypeOK
<1>. QED
  BY <1>1, IInvHolds, PTL

\* A confirmation is consumed only when somebody approved or rejected it,
\* and vanishes undecided only in a file torn by a write or overwritten by
\* the other store, for any faults, kills and expiring claims.
THEOREM ConfirmationsAreDecided == Spec => []ConfirmationsDecided
<1>1. IInv => ConfirmationsDecided
  BY DEF IInv, DecidedInv
<1>. QED
  BY <1>1, IInvHolds, PTL

\* Nobody is about to act on an item without an opening of his own, and an
\* item that none of the named causes opened again is acted on at most once.
THEOREM ActsAreBacked == Spec => []ActsBacked
<1>1. IInv => ActsBacked
  <2> SUFFICES ASSUME IInv, NEW i \in Items
               PROVE  /\ Outstanding(i) <= openings[i]
                      /\ i \notin again => Outstanding(i) + (IF i \in acted THEN 1 ELSE 0) <= 1
    BY DEF ActsBacked
  <2>1. Outstanding(i) <= openings[i] /\ openings[i] \in Nat
    BY ApprovalConstants DEF IInv, Backed, Covered
  <2>2. Outstanding(i) \in Int
    <3>1. Cardinality(Commands) \in Nat
      BY ApprovalConstants, FS_CardinalityType
    <3>2. Claims(i) \in Int
      BY <3>1, ClaimsAreCounted DEF CountedClaims
    <3>. QED
      BY <3>2, OutstandingIsSum
  <2>3. i \notin again => openings[i] + (IF i \in acted THEN 1 ELSE 0) <= 1
    BY DEF IInv, OpenedOnce
  <2>. QED
    BY <2>1, <2>2, <2>3
<1>. QED
  BY <1>1, IInvHolds, PTL
=============================================================================
