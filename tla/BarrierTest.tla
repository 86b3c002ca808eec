------------------------------ MODULE BarrierTest ------------------------------
(***************************************************************************)
(* The threads of test_barrier/barrier_test.c: NUM_ITERATIONS rounds, each  *)
(* with two waits at one barrier of all the threads.                       *)
(*                                                                         *)
(* A thread's local i equals value[id] at the head of its loop, so value   *)
(* stands for both.                                                        *)
(***************************************************************************)
EXTENDS Sync, FiniteSets

CONSTANTS
    BarrierThreads,     \* one for each id
    First,              \* the thread whose id is 0: it initialises the barrier
    TheBarrier,
    NUM_ITERATIONS,
    SleepTicks          \* what rand() % MAX_SLEEP may be, in ticks

\* What the constants are.
BarrierTestConstants ==
    /\ First \in BarrierThreads /\ BarrierThreads \subseteq Threads \ Clock
    /\ IsFiniteSet(BarrierThreads)
    /\ TheBarrier \in Barriers
    /\ Members[TheBarrier] = Cardinality(BarrierThreads)
    /\ NUM_ITERATIONS \in Nat
    /\ SleepTicks \subseteq Nat

VARIABLES
    pc,                     \* where each thread is in barrier_thread()
    value,
    barrier_initialized

Init ==
    /\ SyncInit
    /\ pc = [t \in BarrierThreads |-> "start"]
    /\ value = [t \in BarrierThreads |-> 0]
    /\ barrier_initialized = FALSE

Goto(t, from, to) == Running(t) /\ pc[t] = from /\ pc' = [pc EXCEPT ![t] = to]

\* if (0 == id) barrier_init(), for NUM_TOTAL members
initialize(t) ==
    /\ t = First
    /\ Goto(t, "start", "round")
    /\ barrier_initialized' = TRUE
    /\ UNCHANGED <<vars, value>>

\* while (!barrier_initialized) do_yield()
await_init(t) ==
    /\ t # First
    /\ IF barrier_initialized
       THEN Goto(t, "start", "round") /\ UNCHANGED vars
       ELSE Goto(t, "start", "start") /\ do_yield(t) /\ UNCHANGED syncVars
    /\ UNCHANGED <<value, barrier_initialized>>

\* ++value[id] and the first barrier_wait() of a round
arrive(t) ==
    /\ value[t] < NUM_ITERATIONS
    /\ Goto(t, "round", "met")
    /\ value' = [value EXCEPT ![t] = @ + 1]
    /\ barrier_wait(TheBarrier)
    /\ UNCHANGED barrier_initialized

\* do_sleep(rand() % MAX_SLEEP): less than a tick does not sleep
sleep(t) ==
    /\ Goto(t, "met", "check")
    /\ \/ 0 \in SleepTicks /\ UNCHANGED vars
       \/ \E d \in SleepTicks : do_sleep(t, d) /\ UNCHANGED syncVars
    /\ UNCHANGED <<value, barrier_initialized>>

\* the ASSERTs (see AssertionHolds) and the second barrier_wait()
leave(t) ==
    /\ Goto(t, "check", "round")
    /\ barrier_wait(TheBarrier)
    /\ UNCHANGED <<value, barrier_initialized>>

finish(t) ==
    /\ value[t] = NUM_ITERATIONS
    /\ Goto(t, "round", "passed")
    /\ do_exit(t)
    /\ UNCHANGED <<syncVars, value, barrier_initialized>>

barrier_thread(t) ==
    \/ initialize(t) \/ await_init(t)
    \/ arrive(t) \/ sleep(t) \/ leave(t) \/ finish(t)

-----------------------------------------------------------------------------
(* "ASSERT(value[j] == value[id])" (barrier_test.c:39): nobody is past the *)
(* first wait of a round while another has not begun the round, or has     *)
(* begun the next one.                                                     *)
AssertionHolds ==
    \A t, u \in BarrierThreads : pc[t] = "check" => value[t] = value[u]

(* Every thread gets through all its rounds: "Barrier thread %d: Passed"   *)
(* (barrier_test.c:46); barrier_wait() blocks only "until all n threads    *)
(* have called barrier_wait" (sync.c:157).                                 *)
AllPass == <>(\A t \in BarrierThreads : pc[t] = "passed")
=============================================================================
