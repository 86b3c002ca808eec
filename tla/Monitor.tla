------------------------------- MODULE Monitor -------------------------------
(***************************************************************************)
(* The producer and consumer of test_all/th2.c: thread2() and thread3()    *)
(* take turns on shared_var in a monitor made of a lock and two condition  *)
(* variables.  thread2 works while shared_var % 3 # 0, thread3 while it is *)
(* 0; each yields now and then inside the monitor.                         *)
(*                                                                         *)
(* print_trace() sleeps 100 ms, less than a tick: it does not sleep.       *)
(***************************************************************************)
EXTENDS Sync

CONSTANTS
    thread2, thread3,
    l,                  \* the lock of the monitor
    c0mod3,             \* thread3 waits for this one
    cnot0mod3,          \* thread2 waits for this one
    Iterations,         \* 200 of thread2, 100 of thread3
    YieldEvery          \* 13 and 17: an iteration that many divide yields

Workers == {thread2, thread3}

\* What the constants are.
MonitorConstants ==
    /\ Workers \subseteq Threads \ Clock /\ thread2 # thread3
    /\ l \in Locks /\ {c0mod3, cnot0mod3} \subseteq Conditions /\ c0mod3 # cnot0mod3
    /\ Iterations \in [Workers -> Nat]
    /\ YieldEvery \in [Workers -> Nat \ {0}]

VARIABLES
    pc,                 \* where each thread is in its function
    i,                  \* its loop counter
    tmp,                \* its copy of shared_var
    shared_var,
    exit_count,
    init

Init ==
    /\ SyncInit
    /\ pc = [t \in Workers |-> "start"]
    /\ i = [t \in Workers |-> 0]
    /\ tmp = [t \in Workers |-> 0]
    /\ shared_var = 0
    /\ exit_count = 0
    /\ init = FALSE

Goto(t, from, to) == Running(t) /\ pc[t] = from /\ pc' = [pc EXCEPT ![t] = to]

\* It is not t's turn while shared_var has this value.
must_wait(t, v) == IF t = thread2 THEN v % 3 = 0 ELSE v % 3 # 0

own_condition(t) == IF t = thread2 THEN cnot0mod3 ELSE c0mod3
other_condition(t) == IF t = thread2 THEN c0mod3 ELSE cnot0mod3

initialize(t) ==
    /\ t = thread2
    /\ Goto(t, "start", "enter")
    /\ init' = TRUE
    /\ UNCHANGED <<vars, i, tmp, shared_var, exit_count>>

await_init(t) ==
    /\ t = thread3
    /\ IF init
       THEN Goto(t, "start", "enter") /\ UNCHANGED vars
       ELSE Goto(t, "start", "start") /\ do_yield(t) /\ UNCHANGED syncVars
    /\ UNCHANGED <<i, tmp, shared_var, exit_count, init>>

enter(t) ==
    /\ i[t] < Iterations[t]
    /\ Goto(t, "enter", "monitor")
    /\ lock_acquire(t, l)
    /\ UNCHANGED <<i, tmp, shared_var, exit_count, init>>

wait(t) ==
    /\ must_wait(t, shared_var)
    /\ Goto(t, "monitor", "monitor")
    /\ condition_wait(l, own_condition(t))
    /\ UNCHANGED <<i, tmp, shared_var, exit_count, init>>

read(t) ==
    /\ ~must_wait(t, shared_var)
    /\ Goto(t, "monitor", "use")
    /\ tmp' = [tmp EXCEPT ![t] = shared_var]
    /\ IF i[t] % YieldEvery[t] = 0
       THEN do_yield(t) /\ UNCHANGED syncVars
       ELSE UNCHANGED vars
    /\ UNCHANGED <<i, shared_var, exit_count, init>>

add(t) ==
    /\ Goto(t, "use", "leave")
    /\ shared_var' = tmp[t] + 1
    /\ IF must_wait(t, shared_var')
       THEN IF shared_var' < 20 THEN condition_signal(other_condition(t))
                                ELSE condition_broadcast(other_condition(t))
       ELSE UNCHANGED vars
    /\ UNCHANGED <<i, tmp, exit_count, init>>

leave(t) ==
    /\ Goto(t, "leave", "enter")
    /\ lock_release(t, l)
    /\ i' = [i EXCEPT ![t] = @ + 1]
    /\ UNCHANGED <<tmp, shared_var, exit_count, init>>

enter_last(t) ==
    /\ i[t] = Iterations[t]
    /\ Goto(t, "enter", "count")
    /\ lock_acquire(t, l)
    /\ UNCHANGED <<i, tmp, shared_var, exit_count, init>>

count(t) ==
    /\ Goto(t, "count", "done")
    /\ exit_count' = exit_count + 1
    /\ lock_release(t, l)
    /\ UNCHANGED <<i, tmp, shared_var, init>>

exit(t) ==
    /\ Goto(t, "done", "exited")
    /\ do_exit(t)
    /\ UNCHANGED <<syncVars, i, tmp, shared_var, exit_count, init>>

worker(t) ==
    \/ initialize(t) \/ await_init(t) \/ enter(t) \/ wait(t) \/ read(t)
    \/ add(t) \/ leave(t) \/ enter_last(t) \/ count(t) \/ exit(t)

-----------------------------------------------------------------------------
(* Both threads get through, and the last of them finds every increment in *)
(* shared_var: "Both passed" (th2.c:160; 300 for 200 and 100).             *)
BothPass ==
    <>(/\ \A t \in Workers : pc[t] = "exited"
       /\ exit_count = 2
       /\ shared_var = Iterations[thread2] + Iterations[thread3])
=============================================================================
