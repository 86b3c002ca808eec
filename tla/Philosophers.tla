----------------------------- MODULE Philosophers -----------------------------
(***************************************************************************)
(* The dining philosophers of test_all/philosophers.c: kernel threads that *)
(* sleep while they think and, holding two semaphores, while they eat.     *)
(***************************************************************************)
EXTENDS Sync

CONSTANTS
    NUM_PHILOSOPHERS,
    phil,               \* the thread of each id
    fork,               \* the semaphore fork[id]
    ThinkTicks,         \* 5000..9999 ms in ticks
    EatTicks            \* 2000..3999 ms in ticks

Ids == 0..(NUM_PHILOSOPHERS - 1)

\* What the constants are.
PhilosophersConstants ==
    /\ NUM_PHILOSOPHERS \in Nat \ {0, 1}
    /\ phil \in [Ids -> Threads \ Clock]
    /\ \A i, j \in Ids : phil[i] = phil[j] => i = j
    /\ fork \in [Ids -> Semaphores]
    /\ \A i, j \in Ids : fork[i] = fork[j] => i = j
    /\ \A i \in Ids : SemInit[fork[i]] = 1
    /\ ThinkTicks \subseteq Nat \ {0} /\ EatTicks \subseteq Nat \ {0}

VARIABLES
    pc,                     \* where philosopher id is in philosopher()
    eating,
    forks_initialized

Init ==
    /\ SyncInit
    /\ pc = [i \in Ids |-> "start"]
    /\ eating = [i \in Ids |-> FALSE]
    /\ forks_initialized = FALSE

Goto(i, from, to) ==
    Running(phil[i]) /\ pc[i] = from /\ pc' = [pc EXCEPT ![i] = to]

\* The forks philosopher i takes, and puts back, in this order.
forks_of(i) ==
    IF i = 0 THEN <<fork[0], fork[NUM_PHILOSOPHERS - 1]>>
             ELSE <<fork[i - 1], fork[i]>>

initialize(i) ==
    /\ i = 0
    /\ Goto(i, "start", "thinking")
    /\ forks_initialized' = TRUE
    /\ UNCHANGED <<vars, eating>>

await_init(i) ==
    /\ i # 0
    /\ IF forks_initialized
       THEN Goto(i, "start", "thinking") /\ UNCHANGED vars
       ELSE Goto(i, "start", "start") /\ do_yield(phil[i]) /\ UNCHANGED syncVars
    /\ UNCHANGED <<eating, forks_initialized>>

think(i) ==
    /\ Goto(i, "thinking", "hungry")
    /\ \E d \in ThinkTicks : do_sleep(phil[i], d)
    /\ UNCHANGED <<syncVars, eating, forks_initialized>>

take_first(i) ==
    /\ Goto(i, "hungry", "one_fork")
    /\ semaphore_down(forks_of(i)[1])
    /\ UNCHANGED <<eating, forks_initialized>>

take_second(i) ==
    /\ Goto(i, "one_fork", "two_forks")
    /\ semaphore_down(forks_of(i)[2])
    /\ UNCHANGED <<eating, forks_initialized>>

eat(i) ==
    /\ Goto(i, "two_forks", "ate")
    /\ eating' = [eating EXCEPT ![i] = TRUE]
    /\ \E d \in EatTicks : do_sleep(phil[i], d)
    /\ UNCHANGED <<syncVars, forks_initialized>>

put_first(i) ==
    /\ Goto(i, "ate", "put_one")
    /\ eating' = [eating EXCEPT ![i] = FALSE]
    /\ semaphore_up(forks_of(i)[1])
    /\ UNCHANGED forks_initialized

put_second(i) ==
    /\ Goto(i, "put_one", "thinking")
    /\ semaphore_up(forks_of(i)[2])
    /\ UNCHANGED <<eating, forks_initialized>>

philosopher(i) ==
    \/ initialize(i) \/ await_init(i) \/ think(i) \/ take_first(i)
    \/ take_second(i) \/ eat(i) \/ put_first(i) \/ put_second(i)

-----------------------------------------------------------------------------
(* The ASSERTs of philosophers.c:62-63: neighbours never eat together.     *)
NeighboursDoNotEat ==
    \A i \in Ids : eating[i] =>
        /\ ~eating[(i + 1) % NUM_PHILOSOPHERS]
        /\ ~eating[(i - 1 + NUM_PHILOSOPHERS) % NUM_PHILOSOPHERS]

(* Who is hungry eats, whatever the thinking and eating times: no cycle of *)
(* waits, no wakeup lost, and a semaphore wakes its waiters in turn.       *)
HungryEats ==
    \A i \in Ids : pc[i] \in {"hungry", "one_fork", "two_forks"} ~> eating[i]
=============================================================================
