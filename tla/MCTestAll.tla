------------------------------ MODULE MCTestAll ------------------------------
(* The image of test_all, with few iterations, for TLC. *)
EXTENDS TestAll, TLC

CONSTANTS clk, barrier1, barrier2, barrier3, num, caps, scroll_th, plane, b, f0, f1, f2

\* The order of init_process().
SpawnOrder == SelectSeq(<<barrier1, barrier2, barrier3, clk, thread2, thread3, num, caps, scroll_th, plane>>,
                        LAMBDA t : t \in Tasks)
OneMonitor == (c0mod3 :> l) @@ (cnot0mod3 :> l)
TwoMembers == (b :> 2)
ThreeMembers == (b :> 3)
ThreePhilosophers == (0 :> num) @@ (1 :> caps) @@ (2 :> scroll_th)
ThreeForks == (0 :> f0) @@ (1 :> f1) @@ (2 :> f2)
ForksFree == (f0 :> 1) @@ (f1 :> 1) @@ (f2 :> 1)
FourteenAndSeven == (thread2 :> 14) @@ (thread3 :> 7)
ThreeAndFour == (thread2 :> 3) @@ (thread3 :> 4)
=============================================================================
