----------------------- MODULE NonPreemptiveKernel -----------------------
(***************************************************************************)
(* The kernel of P2: scheduler.c, lock.c and the threads that use them.    *)
(* Nothing interrupts a task: one action is what the running task does up  *)
(* to its next call of the kernel, and only the running task acts.         *)
(***************************************************************************)
EXTENDS RingQueue, TaskQueue

CONSTANT Locks

VARIABLES
  ready_queue, blocked_queue,   \* rings of tasks
  current_running,              \* the task that runs, NULL when none is left
  state,                        \* the state of each PCB
  lock,                         \* the status of each lock
  at, wants                     \* where each task is; the lock it asks for or holds

kernelVars == <<ready_queue, blocked_queue, current_running, state, lock, at, wants>>

Places == {"outside", "asking", "inside", "yielded", "unblocking", "released"}

\* _stat() pushes every task and schedules the first
KernelInit ==
  /\ LET all == [pcbs |-> [i \in Slots |-> i], head |-> 0, tail |-> 0, isEmpty |-> FALSE]
     IN ready_queue = queue_pop(all) /\ current_running = Popped(all)
  /\ blocked_queue = queue_init
  /\ state = [t \in Tasks |-> IF t = 0 THEN "RUNNING" ELSE "READY"]
  /\ lock = [l \in Locks |-> "UNLOCKED"]
  /\ at = [t \in Tasks |-> "outside"]
  /\ wants = [t \in Tasks |-> NULL]

-----------------------------------------------------------------------------
(***************************************************************************)
(* scheduler.c                                                             *)
(***************************************************************************)
\* scheduler(): the head of the ready queue rq runs; NULL, if it is empty
Schedule(rq, st) ==
  /\ current_running' = Popped(rq)
  /\ ready_queue' = queue_pop(rq)
  /\ state' = [t \in Tasks |-> IF t = Popped(rq) THEN "RUNNING" ELSE st[t]]

\* Faulty: the task that yields goes on.
YieldsToItself(t) == UNCHANGED <<ready_queue, blocked_queue, current_running, state>>

do_yield(t) ==
  /\ Schedule(queue_push(ready_queue, t), [state EXCEPT ![t] = "READY"])
  /\ UNCHANGED blocked_queue

do_exit(t) ==
  /\ Schedule(ready_queue, [state EXCEPT ![t] = "EXITED"])
  /\ UNCHANGED blocked_queue

block(t) ==
  /\ blocked_queue' = queue_push(blocked_queue, t)
  /\ Schedule(ready_queue, [state EXCEPT ![t] = "BLOCKED"])

\* one turn of the loop of unblock(): the state of the task is left BLOCKED
unblock_one ==
  /\ ready_queue' = queue_push(ready_queue, Popped(blocked_queue))
  /\ blocked_queue' = queue_pop(blocked_queue)
  /\ UNCHANGED <<current_running, state>>

-----------------------------------------------------------------------------
(***************************************************************************)
(* lock.c, and the threads of th2.c and th4.c: each takes a lock, yields   *)
(* once or not while it holds it, releases it, and yields or exits.        *)
(***************************************************************************)
Running(t)     == t = current_running
Goes(t, place) == at' = [at EXCEPT ![t] = place]

Yield(t) ==
  /\ Running(t)
  /\ at[t] \in {"outside", "inside", "released"}
  /\ Goes(t, IF at[t] = "inside" THEN "yielded" ELSE "outside")
  /\ do_yield(t)
  /\ UNCHANGED <<lock, wants>>

Exit(t) ==
  /\ Running(t)
  /\ at[t] \in {"outside", "released"}
  /\ do_exit(t)
  /\ UNCHANGED <<lock, at, wants>>

\* Faulty: a task that was blocked takes the lock without looking again.
TakesWhenWoken(t, l) ==
  /\ Running(t)
  /\ \/ at[t] = "outside"
     \/ at[t] = "asking" /\ wants[t] = l
  /\ wants' = [wants EXCEPT ![t] = l]
  /\ IF lock[l] = "LOCKED" /\ at[t] = "outside"
       THEN Goes(t, "asking") /\ block(t) /\ UNCHANGED lock
       ELSE /\ Goes(t, "inside") /\ lock' = [lock EXCEPT ![l] = "LOCKED"]
            /\ UNCHANGED <<ready_queue, blocked_queue, current_running, state>>

\* a task that was blocked looks at the lock again
lock_acquire(t, l) ==
  /\ Running(t)
  /\ \/ at[t] = "outside"
     \/ at[t] = "asking" /\ wants[t] = l
  /\ wants' = [wants EXCEPT ![t] = l]
  /\ IF lock[l] = "LOCKED"
       THEN Goes(t, "asking") /\ block(t) /\ UNCHANGED lock
       ELSE /\ Goes(t, "inside") /\ lock' = [lock EXCEPT ![l] = "LOCKED"]
            /\ UNCHANGED <<ready_queue, blocked_queue, current_running, state>>

\* Faulty: one task of the blocked queue is moved, whichever lock it waits for.
WakesOne(t) ==
  /\ Running(t)
  /\ at[t] \in {"inside", "yielded"}
  /\ Goes(t, "released")
  /\ lock' = [lock EXCEPT ![wants[t]] = "UNLOCKED"]
  /\ IF blocked_queue.isEmpty
       THEN UNCHANGED <<ready_queue, blocked_queue, current_running, state>>
       ELSE unblock_one
  /\ wants' = [wants EXCEPT ![t] = NULL]

\* Faulty: the waiters are left on the blocked queue.
ReleasesQuietly(t) ==
  /\ Running(t)
  /\ at[t] \in {"inside", "yielded"}
  /\ Goes(t, "released")
  /\ lock' = [lock EXCEPT ![wants[t]] = "UNLOCKED"]
  /\ wants' = [wants EXCEPT ![t] = NULL]
  /\ UNCHANGED <<ready_queue, blocked_queue, current_running, state>>

lock_release(t) ==
  /\ Running(t)
  /\ at[t] \in {"inside", "yielded"}
  /\ Goes(t, "unblocking")
  /\ lock' = [lock EXCEPT ![wants[t]] = "UNLOCKED"]
  /\ wants' = [wants EXCEPT ![t] = NULL]
  /\ UNCHANGED <<ready_queue, blocked_queue, current_running, state>>

unblock(t) ==
  /\ Running(t)
  /\ at[t] = "unblocking"
  /\ IF blocked_queue.isEmpty
       THEN Goes(t, "released")
            /\ UNCHANGED <<ready_queue, blocked_queue, current_running, state>>
       ELSE unblock_one /\ UNCHANGED at
  /\ UNCHANGED <<lock, wants>>

KernelNext ==
  \E t \in Tasks :
    \/ Yield(t) \/ Exit(t)
    \/ \E l \in Locks : lock_acquire(t, l)
    \/ lock_release(t) \/ unblock(t)

KernelSpec == KernelInit /\ [][KernelNext]_kernelVars

\* the processor executes the running task
KernelFairSpec == KernelSpec /\ WF_kernelVars(KernelNext)

-----------------------------------------------------------------------------
IsReady(t)   == In(t, Waiting(ready_queue))
IsBlocked(t) == In(t, Waiting(blocked_queue))
Holds(t, l)  == at[t] \in {"inside", "yielded"} /\ wants[t] = l

(***************************************************************************)
(* No task is lost or doubled by the rings, full, empty or wrapped around: *)
(* it runs, or is in one queue once, until it exits.                       *)
(***************************************************************************)
TasksInOnePlace ==
  /\ NoDup(Waiting(ready_queue)) /\ NoDup(Waiting(blocked_queue))
  /\ \A t \in Tasks :
       /\ ~(IsReady(t) /\ IsBlocked(t))
       /\ Running(t) => ~IsReady(t) /\ ~IsBlocked(t)
       /\ state[t] # "EXITED" <=> Running(t) \/ IsReady(t) \/ IsBlocked(t)

(***************************************************************************)
(* A lock is held by one task, although it is free while its waiters move  *)
(* to the ready queue and each takes another look.                         *)
(***************************************************************************)
OneHolder ==
  \A l \in Locks :
    /\ lock[l] = "LOCKED" <=> \E t \in Tasks : Holds(t, l)
    /\ \A t, u \in Tasks : Holds(t, l) /\ Holds(u, l) => t = u

(***************************************************************************)
(* No wakeup is lost: a blocked task waits for a lock that is held, by a   *)
(* task that is not blocked itself, or is being moved to the ready queue.  *)
(***************************************************************************)
BlockedTasksWait ==
  \A t \in Tasks : IsBlocked(t) =>
    /\ at[t] = "asking"
    /\ \/ \E u \in Tasks : Holds(u, wants[t]) /\ ~IsBlocked(u) /\ state[u] # "EXITED"
       \/ \E u \in Tasks : Running(u) /\ at[u] = "unblocking"

(***************************************************************************)
(* scheduler_entry() restores the registers of current_running, which      *)
(* scheduler() may have set to NULL: only when all tasks have exited.      *)
(***************************************************************************)
RunsOutWhenDone ==
  current_running = NULL => \A t \in Tasks : state[t] = "EXITED"

(***************************************************************************)
(* Every task that does not exit runs again and again.                     *)
(***************************************************************************)
EachTaskRuns == \A t \in Tasks : []<>(Running(t) \/ state[t] = "EXITED")
=============================================================================
