----------------------------- MODULE MCSessions -----------------------------
(* Two threads of a service worker: a task stream and a reset of one, two  *)
(* chats of the other.                                                     *)
EXTENDS Sessions, TLC

CONSTANTS a, x, b, c, n1

MCRequests == {a, x, b, c}
MCKind == [r \in MCRequests |-> CASE r = a -> "task" [] r = x -> "reset" [] OTHER -> "chat"]
MCThread == [r \in MCRequests |-> IF r \in {a, x} THEN "t1" ELSE "t2"]
MCSpawner == [n \in {n1} |-> a]

\* Only the two chats are alike.
MCSymmetry == Permutations({b, c})
=============================================================================
