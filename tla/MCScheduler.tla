---------------------------- MODULE MCScheduler ----------------------------
(* Instances of Scheduler for TLC. *)
EXTENDS Scheduler

CONSTANTS clk, k1, k2, p1, p2

OrderMixed == <<clk, k1, p1>>
OrderFour == <<p1, clk, k1, p2>>
=============================================================================
