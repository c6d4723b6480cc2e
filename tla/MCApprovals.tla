---------------------------- MODULE MCApprovals ----------------------------
(* A confirmation and the interrupt of a graph, which heartbeats take for  *)
(* a fact; two command calls.                                              *)
EXTENDS Approvals, TLC

CONSTANTS t1, g1, a, b

MCItems == {t1, g1}
MCRank == (t1 :> 1 @@ g1 :> 2)
MCKind == (t1 :> "confirmation" @@ g1 :> "interrupt")
MCCommands == {a, b}
Mode(raises, redis, retries, calls, kills) ==
    [raises |-> raises, redis |-> redis, retries |-> retries,
     calls |-> calls, kills |-> kills]
MCModes == {Mode(TRUE, FALSE, 1, 2, 0), Mode(FALSE, FALSE, 1, 2, 1), Mode(FALSE, TRUE, 0, 1, 0)}
MCFaultless == {Mode(FALSE, FALSE, 0, 2, 0)}
=============================================================================
