------------------------------ MODULE MCDedup ------------------------------
(* A platform that delivers a message three times, among two others.       *)
EXTENDS Dedup, TLC

CONSTANTS x1, x2, x3, y1, z1

MCDeliveries == {x1, x2, x3, y1, z1}
MCMsg == [d \in MCDeliveries |-> IF d = y1 THEN "y" ELSE IF d = z1 THEN "z" ELSE "x"]
Symmetric == Permutations({x1, x2, x3})
=============================================================================
