------------------------------- MODULE Inbox -------------------------------
(***************************************************************************)
(* SessionInboxStore (src/autonomy/inbox.py) of one worker, on the file    *)
(* backend.  Every operation reads, changes and writes the items under the *)
(* worker's lock, so each of them is one step.  This module holds the      *)
(* operations; Approvals composes them with the parts that call them.      *)
(* The file is written in place: a write that raises or is killed half way *)
(* tears it, and a torn file is read as an empty one.                      *)
(*                                                                         *)
(* An item is PENDING, PROCESSING while somebody holds a claim on it, and  *)
(* CONSUMED.  A claim is a timestamp, not a token: stale[i] says that it   *)
(* is older than the processing timeout, and the next fetch, list or claim *)
(* returns every stale item to PENDING.  Nothing checks who updates an     *)
(* item, nor from which status.                                            *)
(***************************************************************************)
EXTENDS Integers, FiniteSets

CONSTANTS
    Items,      \* inbox_ids
    NoItem,     \* no inbox_id
    Rank,       \* fetch order: priority_hint, then created_at, then inbox_id
    FetchLimit  \* the limit of fetch_pending

ASSUME InboxConstants ==
    /\ IsFiniteSet(Items)
    /\ NoItem \notin Items
    /\ Rank \in [Items -> Nat]
    /\ \A i, k \in Items : Rank[i] = Rank[k] => i = k
    /\ FetchLimit \in Nat

VARIABLES
    status,  \* status of an item, "absent" before its first write
    stale    \* processing_at is at least the processing timeout ago

inboxVars == <<status, stale>>

ItemStatus == {"absent", "PENDING", "PROCESSING", "CONSUMED"}

InboxInit ==
    /\ status = [i \in Items |-> "absent"]
    /\ stale = [i \in Items |-> FALSE]

-----------------------------------------------------------------------------
\* Faulty variant: stale claims are not returned.
ExpiredNever == {}

\* The items _rollback_stale_items returns to PENDING.
Expired == {i \in Items : status[i] = "PROCESSING" /\ stale[i]}

StatusAfterRollback ==
    [i \in Items |-> IF i \in Expired THEN "PENDING" ELSE status[i]]

\* Faulty variant: an item that is being processed is fetched again.
FetchableTwice(excluded) ==
    {i \in Items \ excluded : status[i] \in {"PENDING", "PROCESSING"}}

\* The pending items, after the rollback, of the event types wanted.
Fetchable(excluded) ==
    {i \in Items \ excluded : StatusAfterRollback[i] = "PENDING"}

\* The items of S claimed, after the rollback every reader performs.
RollbackAndClaim(S) ==
    /\ status' = [i \in Items |-> IF i \in S THEN "PROCESSING" ELSE StatusAfterRollback[i]]
    /\ stale' = [i \in Items |-> stale[i] /\ i \notin Expired]

\* S is what fetch_pending selects: the FetchLimit first ones.
Selected(excluded, S) ==
    /\ S \subseteq Fetchable(excluded)
    /\ Cardinality(S) <= FetchLimit
    /\ Cardinality(S) < FetchLimit => S = Fetchable(excluded)
    /\ \A i \in S, k \in Fetchable(excluded) \ S : Rank[i] < Rank[k]

FetchPending(excluded, S) == Selected(excluded, S) /\ RollbackAndClaim(S)

ListPending == RollbackAndClaim({})

\* Faulty variant: an item somebody holds may be claimed.
ClaimPendingHeld(i) == status[i] \in {"PENDING", "PROCESSING"} /\ RollbackAndClaim({i})

\* claim_pending: only a PENDING item is claimed; the rollback is kept even
\* when the claim fails.
ClaimPending(i) == i \in Fetchable({}) /\ RollbackAndClaim({i})
ClaimFails(i)   == i \notin Fetchable({}) /\ ListPending

\* _update_status and mark_error look at no status.
SetStatus(S, s) ==
    LET there == {i \in S : status[i] # "absent"}
    IN  /\ status' = [i \in Items |-> IF i \in there THEN s ELSE status[i]]
        /\ stale' = [i \in Items |-> stale[i] /\ i \notin there]

MarkConsumed(S)      == SetStatus(S, "CONSUMED")
RequeueProcessing(S) == SetStatus(S, "PENDING")
MarkError(i)         == SetStatus({i}, "PENDING")

\* write: the stored item is replaced, its status included.
Write(i) ==
    /\ status' = [status EXCEPT ![i] = "PENDING"]
    /\ stale' = [stale EXCEPT ![i] = FALSE]

\* write_text raises or is killed half way: json.loads fails from then on, the
\* error is swallowed, and the next write starts from no items.
Torn ==
    /\ status' = [i \in Items |-> "absent"]
    /\ stale' = [i \in Items |-> FALSE]

\* Another store object writes the items it loaded earlier.
WriteCopy(copy) == status' = copy.status /\ stale' = copy.stale

\* Time passes: a claim gets older than the processing timeout.
ClaimAges(i) ==
    /\ status[i] = "PROCESSING"
    /\ ~stale[i]
    /\ stale' = [stale EXCEPT ![i] = TRUE]
    /\ UNCHANGED status

InboxTypeOK ==
    /\ status \in [Items -> ItemStatus]
    /\ stale \in [Items -> BOOLEAN]
=============================================================================
