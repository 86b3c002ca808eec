------------------------------ MODULE MCSync ------------------------------
(* Instances of Sync for TLC. *)
EXTENDS Sync, TLC

CONSTANTS clk, k1, p1, p2, l1, l2, c1, s1, b1, b2

OrderMixed == <<clk, k1, p1, p2>>
OneSem == (s1 :> 1)
TwoAndThree == (b1 :> 2) @@ (b2 :> 3)
WithTheSecond == (c1 :> l2)
NoObject == <<>>
============================================================================
