---------------------------- MODULE MCScheduler ----------------------------
(* Three jobs of different urgency and one as urgent as the first.         *)
EXTENDS Scheduler, TLC

CONSTANTS j1, j2, j3, j4

MCJobs == {j1, j2, j3, j4}
MCPriority == (j1 :> 30 @@ j2 :> 30 @@ j3 :> 10 @@ j4 :> 20)
=============================================================================
