------------------------------ MODULE Scheduler ------------------------------
(***************************************************************************)
(* The scheduler of the preemptive kernel (P4 t3.0: scheduler.c, queue.c,  *)
(* and the timer interrupt of interrupt.c).                                *)
(*                                                                         *)
(* One CPU.  A kernel thread is never preempted (its nested_count is 1), a *)
(* process is preempted only in user code: system calls run with           *)
(* interrupts masked, so every operation below is one step up to the point *)
(* where it blocks.  scheduler() runs between two tasks: in_scheduler is   *)
(* TRUE from the call of scheduler_entry() until a task is dispatched, and *)
(* current_running still points to the task that called it.                *)
(*                                                                         *)
(* Data abstraction: instead of time_elapsed and absolute deadlines, each  *)
(* task has the number of ticks left until its deadline (0 once it is      *)
(* due); the code only ever compares the two.                              *)
(***************************************************************************)
EXTENDS TaskQueue

CONSTANTS
    Tasks,      \* the tasks in the pcb[] table
    Threads,    \* those whose task_type is KERNEL_THREAD
    Clock,      \* those running clock_thread(), which only ever yields
    Boot,       \* garbage_registers, the PCB current before the first task
    Queues,     \* the wait queues of the synchronisation objects
    Delays,     \* arguments of do_sleep, in ticks (milliseconds/1000)
    Order       \* the order in which the first tasks were spawned

ASSUME ThreadsAssumption == Threads \subseteq Tasks
ASSUME ClockAssumption == Clock \subseteq Threads
ASSUME BootAssumption == Boot \notin Tasks
ASSUME DelaysAssumption == Delays \subseteq Nat
ASSUME OrderAssumption ==
    /\ Order \in Seq(Tasks)
    /\ \A i, j \in 1..Len(Order) : Order[i] = Order[j] => i = j

VARIABLES
    current_running,    \* the task whose PCB current_running points to
    in_scheduler,       \* the CPU is inside scheduler()
    status,             \* pcb->status
    ready_queue,
    sleep_wait_queue,
    wait_queue,         \* the wait queue of each synchronisation object
    delay               \* pcb->deadline - time_elapsed, 0 when due

schedVars == <<current_running, in_scheduler, status, ready_queue,
               sleep_wait_queue, wait_queue, delay>>

Status == {"FIRST_TIME", "READY", "BLOCKED", "EXITED", "SLEEPING"}

SchedTypeOK ==
    /\ current_running \in Tasks \cup {Boot}
    /\ in_scheduler \in BOOLEAN
    /\ status \in [Tasks -> Status]
    /\ ready_queue \in Seq(Tasks)
    /\ sleep_wait_queue \in Seq(Tasks)
    /\ wait_queue \in [Queues -> Seq(Tasks)]
    /\ delay \in [Tasks -> Nat]

(***************************************************************************)
(* _start() and init(): the tasks of Order have been spawned, the other    *)
(* slots of the table are free, and the first call of scheduler_entry() is *)
(* under way.                                                              *)
(***************************************************************************)
SchedInit ==
    /\ current_running = Boot
    /\ in_scheduler = TRUE
    /\ status = [t \in Tasks |-> IF In(t, Order) THEN "FIRST_TIME" ELSE "EXITED"]
    /\ ready_queue = Order
    /\ sleep_wait_queue = <<>>
    /\ wait_queue = [q \in Queues |-> <<>>]
    /\ delay = [t \in Tasks |-> 0]

\* t executes its own code (user code, or a kernel thread outside scheduler()).
Running(t) == current_running = t /\ ~in_scheduler

Runnable == {"FIRST_TIME", "READY"}

-----------------------------------------------------------------------------
(***************************************************************************)
(* The services the synchronisation primitives are made of.                *)
(***************************************************************************)

\* block(): the current task goes to the end of queue q and the CPU to
\* scheduler().
block(q) ==
    /\ status' = [status EXCEPT ![current_running] = "BLOCKED"]
    /\ wait_queue' = [wait_queue EXCEPT ![q] = Append(@, current_running)]
    /\ in_scheduler' = TRUE
    /\ UNCHANGED <<current_running, ready_queue, sleep_wait_queue, delay>>

\* Faulty: the woken task jumps the ready queue.
unblock_head_first(q) ==
    /\ wait_queue[q] # <<>>
    /\ status' = [status EXCEPT ![Head(wait_queue[q])] = "READY"]
    /\ wait_queue' = [wait_queue EXCEPT ![q] = Tail(@)]
    /\ ready_queue' = <<Head(wait_queue[q])>> \o ready_queue
    /\ UNCHANGED <<current_running, in_scheduler, sleep_wait_queue, delay>>

\* Faulty: what dequeue() returned is not tested for NULL.
unblock_head_null(q) ==
    LET head == IF wait_queue[q] = <<>> THEN "NULL" ELSE Head(wait_queue[q])
    IN /\ status' = [t \in Tasks |-> IF t = head THEN "READY" ELSE status[t]]
       /\ wait_queue' = [wait_queue EXCEPT ![q] = IF @ = <<>> THEN @ ELSE Tail(@)]
       /\ ready_queue' = Append(ready_queue, head)
       /\ UNCHANGED <<current_running, in_scheduler, sleep_wait_queue, delay>>

\* unblock(dequeue(q)) of sync.c's unblock_one(), when q is not empty.
unblock_head(q) ==
    /\ wait_queue[q] # <<>>
    /\ status' = [status EXCEPT ![Head(wait_queue[q])] = "READY"]
    /\ wait_queue' = [wait_queue EXCEPT ![q] = Tail(@)]
    /\ ready_queue' = Append(ready_queue, Head(wait_queue[q]))
    /\ UNCHANGED <<current_running, in_scheduler, sleep_wait_queue, delay>>

\* unblock_one(): wakes the head of q, if there is one.
unblock_one(q) ==
    \/ unblock_head(q)
    \/ wait_queue[q] = <<>> /\ UNCHANGED schedVars

\* unblock_one(m) and then block(c) in one critical section: what
\* condition_wait() does to the scheduler.
unblock_one_and_block(m, c) ==
    /\ m # c
    /\ IF wait_queue[m] = <<>>
       THEN block(c)
       ELSE /\ status' = [status EXCEPT ![Head(wait_queue[m])] = "READY",
                                        ![current_running] = "BLOCKED"]
            /\ wait_queue' = [wait_queue EXCEPT ![m] = Tail(@),
                                                ![c] = Append(@, current_running)]
            /\ ready_queue' = Append(ready_queue, Head(wait_queue[m]))
            /\ in_scheduler' = TRUE
            /\ UNCHANGED <<current_running, sleep_wait_queue, delay>>

-----------------------------------------------------------------------------
(***************************************************************************)
(* Calls a running task makes of its own.                                  *)
(***************************************************************************)

\* Faulty: the yielding task stays first.
do_yield_first(t) ==
    /\ Running(t)
    /\ status' = [status EXCEPT ![t] = "READY"]
    /\ ready_queue' = <<t>> \o ready_queue
    /\ in_scheduler' = TRUE
    /\ UNCHANGED <<current_running, sleep_wait_queue, wait_queue, delay>>

\* do_yield(): put_current_running() and scheduler_entry().
do_yield(t) ==
    /\ Running(t)
    /\ status' = [status EXCEPT ![t] = "READY"]
    /\ ready_queue' = Append(ready_queue, t)
    /\ in_scheduler' = TRUE
    /\ UNCHANGED <<current_running, sleep_wait_queue, wait_queue, delay>>

\* do_sleep(): a deadline that is not in the future returns at once.
do_sleep(t, d) ==
    /\ Running(t)
    /\ d > 0
    /\ delay' = [delay EXCEPT ![t] = d]
    /\ status' = [status EXCEPT ![t] = "SLEEPING"]
    /\ sleep_wait_queue' = Append(sleep_wait_queue, t)
    /\ in_scheduler' = TRUE
    /\ UNCHANGED <<current_running, ready_queue, wait_queue>>

do_exit(t) ==
    /\ Running(t)
    /\ status' = [status EXCEPT ![t] = "EXITED"]
    /\ in_scheduler' = TRUE
    /\ UNCHANGED <<current_running, ready_queue, sleep_wait_queue,
                   wait_queue, delay>>

-----------------------------------------------------------------------------
(***************************************************************************)
(* scheduler() and the timer.                                              *)
(***************************************************************************)

\* Faulty: check_sleeping() is not called.
DuePrefix_none(n) == n = 0

\* The loop of check_sleeping() stops at the first sleeper that is not due:
\* it wakes exactly the first n of them.
DuePrefix(n) ==
    /\ \A i \in 1..n : delay[sleep_wait_queue[i]] = 0
    /\ n < Len(sleep_wait_queue) => delay[sleep_wait_queue[n + 1]] > 0

Woken(n) == {sleep_wait_queue[i] : i \in 1..n}

ready_after(n) == ready_queue \o SubSeq(sleep_wait_queue, 1, n)

\* Faulty: the task that runs is peeked at, not dequeued.
dispatch_peek(n) ==
    /\ in_scheduler
    /\ DuePrefix(n)
    /\ ready_after(n) # <<>>
    /\ current_running' = Head(ready_after(n))
    /\ ready_queue' = ready_after(n)
    /\ sleep_wait_queue' = SubSeq(sleep_wait_queue, n + 1, Len(sleep_wait_queue))
    /\ status' = [t \in Tasks |-> IF t \in Woken(n) THEN "READY" ELSE status[t]]
    /\ in_scheduler' = FALSE
    /\ UNCHANGED <<wait_queue, delay>>

\* scheduler(): check_sleeping() wakes n sleepers, then the head of the ready
\* queue runs.  With nothing ready the CPU stays in the idle loop: no step
\* but a tick.
dispatch(n) ==
    /\ in_scheduler
    /\ DuePrefix(n)
    /\ ready_after(n) # <<>>
    /\ current_running' = Head(ready_after(n))
    /\ ready_queue' = Tail(ready_after(n))
    /\ sleep_wait_queue' = SubSeq(sleep_wait_queue, n + 1, Len(sleep_wait_queue))
    /\ status' = [t \in Tasks |-> IF t \in Woken(n) THEN "READY" ELSE status[t]]
    /\ in_scheduler' = FALSE
    /\ UNCHANGED <<wait_queue, delay>>

scheduler == \E n \in 0..Len(sleep_wait_queue) : dispatch(n)

\* ++time_elapsed, seen from the deadlines.
tick == delay' = [t \in Tasks |-> IF delay[t] = 0 THEN 0 ELSE delay[t] - 1]

\* timer_irq() with nested_count 0: a process in user code is preempted.
timer_irq_process ==
    /\ ~in_scheduler
    /\ current_running \in Tasks \ Threads
    /\ tick
    /\ status' = [status EXCEPT ![current_running] = "READY"]
    /\ ready_queue' = Append(ready_queue, current_running)
    /\ in_scheduler' = TRUE
    /\ UNCHANGED <<current_running, sleep_wait_queue, wait_queue>>

\* scheduler() waits in its idle loop: nobody is ready or due.
Idle ==
    /\ in_scheduler
    /\ ready_queue = <<>>
    /\ sleep_wait_queue # <<>> => delay[Head(sleep_wait_queue)] > 0

\* timer_irq() with nested_count 1: only the clock advances.  It is taken
\* while a kernel thread runs, and in the idle loop (between its
\* leave_critical() and enter_critical()) when a kernel thread called it; a
\* process reaches the idle loop from an exception handler, whose EXL bit
\* masks the timer for good.
timer_irq_thread ==
    /\ current_running \in Threads
    /\ ~in_scheduler \/ Idle
    /\ tick
    /\ UNCHANGED <<current_running, in_scheduler, status, ready_queue,
                   sleep_wait_queue, wait_queue>>

timer_irq == timer_irq_process \/ timer_irq_thread

-----------------------------------------------------------------------------
(***************************************************************************)
(* The scheduler under arbitrary clients: clock_thread() yields for ever,   *)
(* any other running task makes any call.                                  *)
(***************************************************************************)
clock_thread(t) == t \in Clock /\ do_yield(t)

SchedCall(t) ==
    /\ t \notin Clock
    /\ \/ do_yield(t)
       \/ \E d \in Delays : do_sleep(t, d)
       \/ do_exit(t)

WaitQueueCall(t) ==
    /\ Running(t)
    /\ t \notin Clock
    /\ \/ \E q \in Queues : block(q)
       \/ \E q \in Queues : unblock_head(q)
       \/ \E m, c \in Queues : unblock_one_and_block(m, c)

SchedNext ==
    \/ scheduler
    \/ timer_irq
    \/ \E t \in Tasks : clock_thread(t) \/ SchedCall(t) \/ WaitQueueCall(t)

SchedSpec == SchedInit /\ [][SchedNext]_schedVars

(***************************************************************************)
(* Fairness.  scheduler() runs to its end.  A timer interrupt that becomes *)
(* due while interrupts are masked stays pending and is taken as soon as   *)
(* they are not: strong fairness.  clock_thread() gets back to its         *)
(* do_yield(); so does any other kernel thread in ThreadsYield, the        *)
(* cooperation a non-preemptible thread owes.                              *)
(***************************************************************************)
ThreadsYield ==
    \A t \in Threads \ Clock : WF_schedVars(SchedCall(t) \/ WaitQueueCall(t))

SchedFair ==
    /\ WF_schedVars(scheduler)
    /\ SF_schedVars(timer_irq)
    /\ \A t \in Clock : WF_schedVars(clock_thread(t))
    /\ ThreadsYield

SchedFairSpec == SchedSpec /\ SchedFair

-----------------------------------------------------------------------------
(***************************************************************************)
(* Properties.                                                             *)
(***************************************************************************)
(* A queue holds no task twice: enqueue() of a node already linked would   *)
(* cut the list.                                                           *)
QueuesAreSets ==
    /\ NoDup(ready_queue)
    /\ NoDup(sleep_wait_queue)
    /\ \A q \in Queues : NoDup(wait_queue[q])

(* The one node of a PCB is linked where its status says and nowhere else: *)
(* a runnable task that does not run is in the ready queue, a sleeping one *)
(* in the sleep queue, a blocked one in one wait queue; a running or       *)
(* exited task is in none.                                                 *)
StatusMatchesQueue ==
    \A t \in Tasks :
        /\ In(t, ready_queue) <=> status[t] \in Runnable /\ ~Running(t)
        /\ In(t, sleep_wait_queue) <=> status[t] = "SLEEPING"
        /\ (\E q \in Queues : In(t, wait_queue[q])) <=> status[t] = "BLOCKED"

OneWaitQueue ==
    \A t \in Tasks, p, q \in Queues :
        In(t, wait_queue[p]) /\ In(t, wait_queue[q]) => p = q

(* The task that executes is one that may: never blocked, asleep, exited.  *)
RunningIsRunnable ==
    ~in_scheduler => current_running \in Tasks
                     /\ status[current_running] \in Runnable

(* No task is lost, queued twice or run while it should wait: every        *)
(* block(), unblock(), sleep, wakeup, yield and preemption hands the one   *)
(* node of the PCB from one list to another and sets the status to match.  *)
EachTaskInOnePlace ==
    /\ QueuesAreSets
    /\ StatusMatchesQueue
    /\ OneWaitQueue
    /\ RunningIsRunnable

(* No starvation: a task in the ready queue gets the CPU.                  *)
ReadyRuns == \A t \in Tasks : In(t, ready_queue) ~> Running(t)

(* A sleeper wakes up, however many sleepers are before it in the queue.   *)
SleeperRuns == \A t \in Tasks : status[t] = "SLEEPING" ~> Running(t)

Ahead(t, u) ==
    /\ In(t, ready_queue)
    /\ \A j \in 1..Len(ready_queue) :
           ready_queue[j] = u => \E i \in 1..(j - 1) : ready_queue[i] = t

(* Round robin: a task in the ready queue stays ahead of every task behind *)
(* it and of every task that joins later (woken, preempted or yielding),   *)
(* and none of them runs before it does.                                   *)
FifoReady ==
    [][\A t, u \in Tasks :
          t # u /\ Ahead(t, u)
          => \/ Running(t)'
             \/ Ahead(t, u)' /\ (Running(u)' => Running(u))]_schedVars
=============================================================================
