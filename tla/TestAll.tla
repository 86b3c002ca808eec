-------------------------------- MODULE TestAll --------------------------------
(***************************************************************************)
(* The test image built from test_all: the threads of the barrier test, of *)
(* the monitor and of the philosophers, the clock thread and processes     *)
(* that only draw (sleep(50) is less than a tick and returns at once), on  *)
(* one CPU and one ready queue.                                            *)
(***************************************************************************)
EXTENDS Sync

CONSTANTS
    BarrierThreads, First, TheBarrier, NUM_ITERATIONS, SleepTicks,
    thread2, thread3, l, c0mod3, cnot0mod3, Iterations, YieldEvery,
    NUM_PHILOSOPHERS, phil, fork, ThinkTicks, EatTicks

VARIABLES
    barrier_pc, value, barrier_initialized,
    monitor_pc, i, tmp, shared_var, exit_count, init,
    phil_pc, eating, forks_initialized

barrierVars == <<barrier_pc, value, barrier_initialized>>
monitorVars == <<monitor_pc, i, tmp, shared_var, exit_count, init>>
philVars == <<phil_pc, eating, forks_initialized>>
allVars == <<vars, barrierVars, monitorVars, philVars>>

Barrier == INSTANCE BarrierTest WITH pc <- barrier_pc
Mon == INSTANCE Monitor WITH pc <- monitor_pc
Phil == INSTANCE Philosophers WITH pc <- phil_pc

ASSUME TestAllAssumption ==
    /\ Barrier!BarrierTestConstants
    /\ Mon!MonitorConstants
    /\ Phil!PhilosophersConstants
    /\ SleepTicks \cup ThinkTicks \cup EatTicks \subseteq Delays

Init == Barrier!Init /\ Mon!Init /\ Phil!Init

System ==
    /\ scheduler \/ timer_irq \/ \E t \in Clock : clock_thread(t)
    /\ UNCHANGED <<syncVars, barrierVars, monitorVars, philVars>>

barrier_step(t) == Barrier!barrier_thread(t) /\ UNCHANGED <<monitorVars, philVars>>
monitor_step(t) == Mon!worker(t) /\ UNCHANGED <<barrierVars, philVars>>
philosopher_step(id) == Phil!philosopher(id) /\ UNCHANGED <<barrierVars, monitorVars>>

Next ==
    \/ System
    \/ \E t \in BarrierThreads : barrier_step(t)
    \/ \E t \in Mon!Workers : monitor_step(t)
    \/ \E id \in Phil!Ids : philosopher_step(id)

\* A kernel thread keeps the CPU until it gives it up.
Fairness ==
    /\ WF_allVars(scheduler /\ System)
    /\ SF_allVars(timer_irq /\ System)
    /\ WF_allVars((\E t \in Clock : clock_thread(t)) /\ System)
    /\ \A t \in BarrierThreads : WF_allVars(barrier_step(t))
    /\ \A t \in Mon!Workers : WF_allVars(monitor_step(t))
    /\ \A id \in Phil!Ids : WF_allVars(philosopher_step(id))

Spec == Init /\ [][Next]_allVars /\ Fairness

-----------------------------------------------------------------------------
(***************************************************************************)
(* What each test is to show, beside the others.                           *)
(***************************************************************************)
(* The ASSERT of barrier_test.c:39.                                        *)
AssertionHolds == Barrier!AssertionHolds

(* "Barrier thread %d: Passed" (barrier_test.c:46) of every member.        *)
AllPass == Barrier!AllPass

(* "Both passed" (th2.c:160).                                              *)
BothPass == Mon!BothPass

(* The ASSERTs of philosophers.c:62-63.                                    *)
NeighboursDoNotEat == Phil!NeighboursDoNotEat

(* A hungry philosopher eats, although every thread of the other tests     *)
(* takes its turns in the same queue.                                      *)
HungryEats == Phil!HungryEats
=============================================================================
