------------------------------ MODULE SyncProofs ------------------------------
(***************************************************************************)
(* The scheduler: every task is in one place and the ready queue is served *)
(* in turn, for any tasks, wait queues, delays and clients.  Then the      *)
(* primitives: Sync implements Scheduler, its locks exclude each other and *)
(* its semaphores account for every waiter, for any objects and clients    *)
(* that keep the rules of SyncCall.                                        *)
(***************************************************************************)
EXTENDS Sync, TaskQueueLemmas

-----------------------------------------------------------------------------
(***************************************************************************)
(* Type correctness.                                                       *)
(***************************************************************************)

\* A task that executes is in the table: the boot PCB never leaves scheduler().
BootInv == ~in_scheduler => current_running \in Tasks

(* The task is known when an operation of a task runs.                     *)
LEMMA EnqueueType ==
    ASSUME NEW s \in Seq(Tasks), NEW t \in Tasks
    PROVE  Append(s, t) \in Seq(Tasks)
BY EnqueueLemma

(* scheduler() takes its next task from the table.                         *)
LEMMA DispatchType ==
    ASSUME SchedTypeOK, NEW n \in 0..Len(sleep_wait_queue), dispatch(n)
    PROVE  SchedTypeOK' /\ BootInv'
<1>1. /\ SubSeq(sleep_wait_queue, 1, n) \in Seq(Tasks)
      /\ SubSeq(sleep_wait_queue, n + 1, Len(sleep_wait_queue)) \in Seq(Tasks)
  BY SplitLemma DEF SchedTypeOK
<1>2. ready_after(n) \in Seq(Tasks)
  BY <1>1, ConcatLemma DEF SchedTypeOK, ready_after
<1>3. Head(ready_after(n)) \in Tasks /\ Tail(ready_after(n)) \in Seq(Tasks)
  BY <1>2, DequeueLemma DEF dispatch
<1>4. status' \in [Tasks -> Status]
  BY DEF dispatch, SchedTypeOK, Status
<1>5. QED
  BY <1>1, <1>3, <1>4 DEF dispatch, SchedTypeOK, BootInv

(* No other step leaves the types either.                                  *)
LEMMA TypeStep ==
    ASSUME SchedTypeOK, BootInv, [SchedNext]_schedVars
    PROVE  SchedTypeOK' /\ BootInv'
<1>1. CASE scheduler
  BY <1>1, DispatchType DEF scheduler
<1>2. ASSUME tick PROVE delay' \in [Tasks -> Nat]
  BY <1>2 DEF tick, SchedTypeOK
<1>3. CASE timer_irq
  <2>1. CASE timer_irq_process
    BY <2>1, <1>2, EnqueueType DEF timer_irq_process, SchedTypeOK, BootInv, Status
  <2>2. CASE timer_irq_thread
    BY <2>2, <1>2 DEF timer_irq_thread, SchedTypeOK, BootInv
  <2>3. QED
    BY <1>3, <2>1, <2>2 DEF timer_irq
<1>4. ASSUME NEW t \in Tasks, do_yield(t)
      PROVE  SchedTypeOK' /\ BootInv'
  BY <1>4, EnqueueType DEF do_yield, SchedTypeOK, BootInv, Status, Running
<1>5. ASSUME NEW t \in Tasks, clock_thread(t)
      PROVE  SchedTypeOK' /\ BootInv'
  BY <1>4, <1>5 DEF clock_thread
<1>6. ASSUME NEW t \in Tasks, SchedCall(t)
      PROVE  SchedTypeOK' /\ BootInv'
  <2>1. ASSUME NEW d \in Delays, do_sleep(t, d)
        PROVE  SchedTypeOK' /\ BootInv'
    BY <2>1, EnqueueType, DelaysAssumption
       DEF do_sleep, SchedTypeOK, BootInv, Status, Running
  <2>2. ASSUME do_exit(t)
        PROVE  SchedTypeOK' /\ BootInv'
    BY <2>2 DEF do_exit, SchedTypeOK, BootInv, Status, Running
  <2>3. QED
    BY <1>4, <1>6, <2>1, <2>2 DEF SchedCall
<1>7. ASSUME NEW t \in Tasks, WaitQueueCall(t)
      PROVE  SchedTypeOK' /\ BootInv'
  <2>0. Running(t) /\ current_running = t
    BY <1>7 DEF WaitQueueCall, Running
  <2>1. ASSUME NEW q \in Queues, block(q)
        PROVE  SchedTypeOK' /\ BootInv'
    BY <2>0, <2>1, EnqueueType DEF block, SchedTypeOK, BootInv, Status
  <2>2. ASSUME NEW q \in Queues, unblock_head(q)
        PROVE  SchedTypeOK' /\ BootInv'
    <3>1. Head(wait_queue[q]) \in Tasks /\ Tail(wait_queue[q]) \in Seq(Tasks)
      BY <2>2, DequeueLemma DEF unblock_head, SchedTypeOK
    <3>2. QED
      BY <2>2, <3>1, EnqueueType DEF unblock_head, SchedTypeOK, BootInv, Status
  <2>3. ASSUME NEW m \in Queues, NEW c \in Queues, unblock_one_and_block(m, c)
        PROVE  SchedTypeOK' /\ BootInv'
    <3>1. CASE wait_queue[m] = <<>>
      BY <2>1, <2>3, <3>1 DEF unblock_one_and_block
    <3>2. CASE wait_queue[m] # <<>>
      <4>1. Head(wait_queue[m]) \in Tasks /\ Tail(wait_queue[m]) \in Seq(Tasks)
        BY <3>2, DequeueLemma DEF SchedTypeOK
      <4>2. status' \in [Tasks -> Status]
        BY <2>0, <2>3, <3>2, <4>1 DEF unblock_one_and_block, SchedTypeOK, Status
      <4>3. wait_queue' \in [Queues -> Seq(Tasks)]
        <5>1. Append(wait_queue[c], current_running) \in Seq(Tasks)
          BY <2>0, EnqueueType DEF SchedTypeOK
        <5>2. QED
          BY <2>3, <3>2, <4>1, <5>1 DEF unblock_one_and_block, SchedTypeOK
      <4>4. ready_queue' \in Seq(Tasks)
        BY <2>3, <3>2, <4>1, EnqueueType DEF unblock_one_and_block, SchedTypeOK
      <4>5. QED
        BY <2>3, <3>2, <4>2, <4>3, <4>4
           DEF unblock_one_and_block, SchedTypeOK, BootInv
    <3>3. QED
      BY <3>1, <3>2
  <2>4. QED
    BY <1>7, <2>1, <2>2, <2>3 DEF WaitQueueCall
<1>8. CASE UNCHANGED schedVars
  BY <1>8 DEF schedVars, SchedTypeOK, BootInv
<1>9. QED
  BY <1>1, <1>3, <1>5, <1>6, <1>7, <1>8 DEF SchedNext

(* The variables of the scheduler keep their types.                        *)
THEOREM SchedTypeCorrect == SchedSpec => [](SchedTypeOK /\ BootInv)
<1>1. SchedInit => SchedTypeOK /\ BootInv
  BY OrderAssumption, EmptySeq DEF SchedInit, SchedTypeOK, BootInv, Status
<1>2. SchedTypeOK /\ BootInv /\ [SchedNext]_schedVars => (SchedTypeOK /\ BootInv)'
  BY TypeStep
<1>3. QED
  BY <1>1, <1>2, PTL DEF SchedSpec

-----------------------------------------------------------------------------
(***************************************************************************)
(* Every task is in exactly one place.  EachTaskInOnePlace is inductive:   *)
(* one lemma per kind of step, each saying which memberships change.       *)
(***************************************************************************)
Inv == SchedTypeOK /\ EachTaskInOnePlace

(* The task that runs is in no queue.                                      *)
LEMMA RunningIsNowhere ==
    ASSUME Inv, NEW t \in Tasks, Running(t)
    PROVE  /\ status[t] \in Runnable
           /\ ~In(t, ready_queue)
           /\ ~In(t, sleep_wait_queue)
           /\ \A q \in Queues : ~In(t, wait_queue[q])
BY DEF Inv, EachTaskInOnePlace, StatusMatchesQueue, RunningIsRunnable, Running,
       Runnable

(* do_yield() and a preemption: the running task goes to the ready queue.  *)
LEMMA RequeueStep ==
    ASSUME Inv, NEW t \in Tasks, Running(t),
           status' = [status EXCEPT ![t] = "READY"],
           ready_queue' = Append(ready_queue, t),
           in_scheduler' = TRUE,
           UNCHANGED <<current_running, sleep_wait_queue, wait_queue>>
    PROVE  EachTaskInOnePlace'
<1>1. /\ \A u : In(u, ready_queue') <=> In(u, ready_queue) \/ u = t
      /\ NoDup(ready_queue')
  BY EnqueueLemma, RunningIsNowhere
     DEF Inv, SchedTypeOK, EachTaskInOnePlace, QueuesAreSets
<1>2. \A u \in Tasks : status'[u] = IF u = t THEN "READY" ELSE status[u]
  BY DEF Inv, SchedTypeOK
<1>3. QueuesAreSets' /\ OneWaitQueue' /\ RunningIsRunnable'
  BY <1>1 DEF Inv, EachTaskInOnePlace, QueuesAreSets, OneWaitQueue, RunningIsRunnable
<1>4. StatusMatchesQueue'
  BY <1>1, <1>2, RunningIsNowhere
     DEF Inv, EachTaskInOnePlace, StatusMatchesQueue, Runnable, Running
<1>5. QED
  BY <1>3, <1>4 DEF EachTaskInOnePlace

(* do_sleep().                                                             *)
LEMMA SleepStep ==
    ASSUME Inv, NEW t \in Tasks, NEW d \in Delays, do_sleep(t, d)
    PROVE  EachTaskInOnePlace'
<1>0. Running(t)
  BY DEF do_sleep
<1>1. /\ \A u : In(u, sleep_wait_queue') <=> In(u, sleep_wait_queue) \/ u = t
      /\ NoDup(sleep_wait_queue')
  BY <1>0, EnqueueLemma, RunningIsNowhere
     DEF Inv, SchedTypeOK, EachTaskInOnePlace, QueuesAreSets, do_sleep
<1>2. \A u \in Tasks : status'[u] = IF u = t THEN "SLEEPING" ELSE status[u]
  BY DEF Inv, SchedTypeOK, do_sleep
<1>3. QueuesAreSets' /\ OneWaitQueue' /\ RunningIsRunnable'
  BY <1>1 DEF Inv, EachTaskInOnePlace, QueuesAreSets, OneWaitQueue,
              RunningIsRunnable, do_sleep
<1>4. StatusMatchesQueue'
  BY <1>0, <1>1, <1>2, RunningIsNowhere
     DEF Inv, EachTaskInOnePlace, StatusMatchesQueue, Runnable, Running, do_sleep
<1>5. QED
  BY <1>3, <1>4 DEF EachTaskInOnePlace

(* do_exit().                                                              *)
LEMMA ExitStep ==
    ASSUME Inv, NEW t \in Tasks, do_exit(t)
    PROVE  EachTaskInOnePlace'
<1>0. Running(t)
  BY DEF do_exit
<1>1. \A u \in Tasks : status'[u] = IF u = t THEN "EXITED" ELSE status[u]
  BY DEF Inv, SchedTypeOK, do_exit
<1>2. QueuesAreSets' /\ OneWaitQueue' /\ RunningIsRunnable'
  BY DEF Inv, EachTaskInOnePlace, QueuesAreSets, OneWaitQueue,
         RunningIsRunnable, do_exit
<1>3. StatusMatchesQueue'
  BY <1>0, <1>1, RunningIsNowhere
     DEF Inv, EachTaskInOnePlace, StatusMatchesQueue, Runnable, Running, do_exit
<1>4. QED
  BY <1>2, <1>3 DEF EachTaskInOnePlace

(* block().                                                                *)
LEMMA BlockStep ==
    ASSUME Inv, NEW t \in Tasks, Running(t), NEW q \in Queues, block(q)
    PROVE  EachTaskInOnePlace'
<1>0. current_running = t
  BY DEF Running
<1>1. /\ \A u : In(u, wait_queue'[q]) <=> In(u, wait_queue[q]) \/ u = t
      /\ NoDup(wait_queue'[q])
      /\ \A p \in Queues : p # q => wait_queue'[p] = wait_queue[p]
  BY <1>0, EnqueueLemma, RunningIsNowhere
     DEF Inv, SchedTypeOK, EachTaskInOnePlace, QueuesAreSets, block
<1>2. \A u \in Tasks : status'[u] = IF u = t THEN "BLOCKED" ELSE status[u]
  BY <1>0 DEF Inv, SchedTypeOK, block
<1>3. QueuesAreSets' /\ RunningIsRunnable'
  BY <1>1 DEF Inv, EachTaskInOnePlace, QueuesAreSets, RunningIsRunnable, block
<1>4. OneWaitQueue'
  BY <1>1, RunningIsNowhere DEF Inv, EachTaskInOnePlace, OneWaitQueue
<1>5. StatusMatchesQueue'
  <2> SUFFICES ASSUME NEW u \in Tasks
               PROVE  /\ In(u, ready_queue') <=> status'[u] \in Runnable /\ ~Running(u)'
                      /\ In(u, sleep_wait_queue') <=> status'[u] = "SLEEPING"
                      /\ (\E p \in Queues : In(u, wait_queue'[p])) <=> status'[u] = "BLOCKED"
    BY DEF StatusMatchesQueue
  <2>1. CASE u = t
    BY <1>0, <1>1, <1>2, <2>1, RunningIsNowhere DEF block, Runnable
  <2>2. CASE u # t
    BY <1>0, <1>1, <1>2, <2>2
       DEF Inv, EachTaskInOnePlace, StatusMatchesQueue, Running, block
  <2>3. QED
    BY <2>1, <2>2
<1>6. QED
  BY <1>3, <1>4, <1>5 DEF EachTaskInOnePlace

(* The task at the head of a wait queue is blocked there and only there.   *)
LEMMA HeadIsBlocked ==
    ASSUME Inv, NEW q \in Queues, wait_queue[q] # <<>>
    PROVE  LET h == Head(wait_queue[q])
           IN  /\ h \in Tasks /\ In(h, wait_queue[q])
               /\ status[h] = "BLOCKED"
               /\ ~In(h, ready_queue) /\ ~In(h, sleep_wait_queue)
               /\ ~Running(h)
               /\ \A p \in Queues : p # q => ~In(h, wait_queue[p])
<1>1. Head(wait_queue[q]) \in Tasks /\ In(Head(wait_queue[q]), wait_queue[q])
  BY DequeueLemma DEF Inv, SchedTypeOK
<1>2. status[Head(wait_queue[q])] = "BLOCKED"
  BY <1>1 DEF Inv, EachTaskInOnePlace, StatusMatchesQueue
<1>3. QED
  BY <1>1, <1>2 DEF Inv, EachTaskInOnePlace, StatusMatchesQueue, OneWaitQueue,
                    RunningIsRunnable, Running, Runnable

(* unblock_one() on a queue with a waiter.                                 *)
LEMMA UnblockStep ==
    ASSUME Inv, NEW q \in Queues, unblock_head(q)
    PROVE  EachTaskInOnePlace'
<1> DEFINE h == Head(wait_queue[q])
<1>0. /\ h \in Tasks /\ status[h] = "BLOCKED" /\ ~Running(h)
      /\ ~In(h, ready_queue) /\ ~In(h, sleep_wait_queue)
      /\ \A p \in Queues : p # q => ~In(h, wait_queue[p])
  BY HeadIsBlocked DEF unblock_head
<1>1. /\ \A u : In(u, wait_queue[q]) <=> In(u, wait_queue'[q]) \/ u = h
      /\ NoDup(wait_queue'[q]) /\ ~In(h, wait_queue'[q])
      /\ \A p \in Queues : p # q => wait_queue'[p] = wait_queue[p]
  BY DequeueLemma DEF Inv, SchedTypeOK, EachTaskInOnePlace, QueuesAreSets, unblock_head
<1>2. /\ \A u : In(u, ready_queue') <=> In(u, ready_queue) \/ u = h
      /\ NoDup(ready_queue')
  BY <1>0, EnqueueLemma
     DEF Inv, SchedTypeOK, EachTaskInOnePlace, QueuesAreSets, unblock_head
<1>3. /\ \A u \in Tasks : status'[u] = IF u = h THEN "READY" ELSE status[u]
      /\ UNCHANGED <<current_running, in_scheduler, sleep_wait_queue>>
  BY DEF Inv, SchedTypeOK, unblock_head
<1> HIDE DEF h
<1>4. QueuesAreSets' /\ RunningIsRunnable'
  BY <1>0, <1>1, <1>2, <1>3
     DEF Inv, EachTaskInOnePlace, QueuesAreSets, RunningIsRunnable, Runnable
<1>5. OneWaitQueue'
  BY <1>1 DEF Inv, EachTaskInOnePlace, OneWaitQueue
<1>6. StatusMatchesQueue'
  <2> SUFFICES ASSUME NEW u \in Tasks
               PROVE  /\ In(u, ready_queue') <=> status'[u] \in Runnable /\ ~Running(u)'
                      /\ In(u, sleep_wait_queue') <=> status'[u] = "SLEEPING"
                      /\ (\E p \in Queues : In(u, wait_queue'[p])) <=> status'[u] = "BLOCKED"
    BY DEF StatusMatchesQueue
  <2>1. CASE u = h
    BY <1>0, <1>1, <1>2, <1>3, <2>1 DEF Running, Runnable
  <2>2. CASE u # h
    BY <1>1, <1>2, <1>3, <2>2
       DEF Inv, EachTaskInOnePlace, StatusMatchesQueue, Running
  <2>3. QED
    BY <2>1, <2>2
<1>7. QED
  BY <1>4, <1>5, <1>6 DEF EachTaskInOnePlace

(* condition_wait(): a waiter of m wakes, the running task waits in c.     *)
LEMMA UnblockAndBlockStep ==
    ASSUME Inv, NEW t \in Tasks, Running(t), NEW m \in Queues, NEW c \in Queues,
           unblock_one_and_block(m, c), wait_queue[m] # <<>>
    PROVE  EachTaskInOnePlace'
<1> DEFINE h == Head(wait_queue[m])
<1>0. /\ h \in Tasks /\ status[h] = "BLOCKED" /\ ~Running(h)
      /\ ~In(h, ready_queue) /\ ~In(h, sleep_wait_queue)
      /\ \A p \in Queues : p # m => ~In(h, wait_queue[p])
  BY HeadIsBlocked
<1>1. /\ status[t] \in Runnable /\ ~In(t, ready_queue) /\ ~In(t, sleep_wait_queue)
      /\ \A p \in Queues : ~In(t, wait_queue[p])
  BY RunningIsNowhere
<1>2. h # t /\ current_running = t /\ m # c
  BY <1>0, <1>1 DEF Running, Runnable, unblock_one_and_block
<1>3. /\ wait_queue'[m] = Tail(wait_queue[m])
      /\ wait_queue'[c] = Append(wait_queue[c], t)
      /\ \A p \in Queues : p # m /\ p # c => wait_queue'[p] = wait_queue[p]
      /\ ready_queue' = Append(ready_queue, h)
      /\ \A u \in Tasks : status'[u] = IF u = t THEN "BLOCKED"
                                      ELSE IF u = h THEN "READY" ELSE status[u]
      /\ in_scheduler'
      /\ UNCHANGED <<current_running, sleep_wait_queue>>
  BY <1>2 DEF Inv, SchedTypeOK, unblock_one_and_block
<1>4. /\ \A u : In(u, wait_queue[m]) <=> In(u, wait_queue'[m]) \/ u = h
      /\ NoDup(wait_queue'[m]) /\ ~In(h, wait_queue'[m])
  BY <1>3, DequeueLemma DEF Inv, SchedTypeOK, EachTaskInOnePlace, QueuesAreSets
<1>5. /\ \A u : In(u, wait_queue'[c]) <=> In(u, wait_queue[c]) \/ u = t
      /\ NoDup(wait_queue'[c])
  BY <1>1, <1>3, EnqueueLemma DEF Inv, SchedTypeOK, EachTaskInOnePlace, QueuesAreSets
<1>6. /\ \A u : In(u, ready_queue') <=> In(u, ready_queue) \/ u = h
      /\ NoDup(ready_queue')
  BY <1>0, <1>3, EnqueueLemma DEF Inv, SchedTypeOK, EachTaskInOnePlace, QueuesAreSets
<1> HIDE DEF h
<1>7. QueuesAreSets' /\ RunningIsRunnable'
  BY <1>3, <1>4, <1>5, <1>6
     DEF Inv, EachTaskInOnePlace, QueuesAreSets, RunningIsRunnable
<1>8. OneWaitQueue'
  <2> SUFFICES ASSUME NEW u \in Tasks, NEW p \in Queues, NEW q \in Queues,
                      In(u, wait_queue'[p]), In(u, wait_queue'[q])
               PROVE  p = q
    BY DEF OneWaitQueue
  <2>1. CASE u = t
    BY <1>1, <1>3, <1>4, <2>1
  <2>2. CASE u # t
    <3>1. In(u, wait_queue[p]) /\ In(u, wait_queue[q])
      BY <1>3, <1>4, <1>5, <2>2
    <3>2. QED
      BY <3>1 DEF Inv, EachTaskInOnePlace, OneWaitQueue
  <2>3. QED
    BY <2>1, <2>2
<1>9. StatusMatchesQueue'
  <2> SUFFICES ASSUME NEW u \in Tasks
               PROVE  /\ In(u, ready_queue') <=> status'[u] \in Runnable /\ ~Running(u)'
                      /\ In(u, sleep_wait_queue') <=> status'[u] = "SLEEPING"
                      /\ (\E p \in Queues : In(u, wait_queue'[p])) <=> status'[u] = "BLOCKED"
    BY DEF StatusMatchesQueue
  <2>1. CASE u = t
    BY <1>1, <1>2, <1>3, <1>5, <1>6, <2>1 DEF Runnable
  <2>2. CASE u = h
    <3>1. \A p \in Queues : ~In(u, wait_queue'[p])
      BY <1>0, <1>2, <1>3, <1>4, <1>5, <2>2
    <3>2. QED
      BY <1>0, <1>2, <1>3, <1>6, <2>2, <3>1 DEF Running, Runnable
  <2>3. CASE u # t /\ u # h
    <3>1. \A p \in Queues : In(u, wait_queue'[p]) <=> In(u, wait_queue[p])
      BY <1>3, <1>4, <1>5, <2>3
    <3>2. QED
      BY <1>2, <1>3, <1>6, <2>3, <3>1
         DEF Inv, EachTaskInOnePlace, StatusMatchesQueue, Running
  <2>4. QED
    BY <2>1, <2>2, <2>3
<1>10. QED
  BY <1>7, <1>8, <1>9 DEF EachTaskInOnePlace

(* scheduler(): the due sleepers become ready, the head of the queue runs. *)
LEMMA DispatchStep ==
    ASSUME Inv, NEW n \in 0..Len(sleep_wait_queue), dispatch(n)
    PROVE  EachTaskInOnePlace'
<1> DEFINE due == SubSeq(sleep_wait_queue, 1, n)
           rest == SubSeq(sleep_wait_queue, n + 1, Len(sleep_wait_queue))
           ready == ready_after(n)
<1>1. /\ due \in Seq(Tasks) /\ rest \in Seq(Tasks)
      /\ \A u : In(u, due) <=> u \in Woken(n)
      /\ NoDup(due) /\ NoDup(rest)
  <2>1. sleep_wait_queue \in Seq(Tasks) /\ NoDup(sleep_wait_queue)
    BY DEF Inv, SchedTypeOK, EachTaskInOnePlace, QueuesAreSets
  <2>2. /\ due \in Seq(Tasks) /\ rest \in Seq(Tasks)
        /\ \A u : In(u, due) <=> \E i \in 1..n : sleep_wait_queue[i] = u
        /\ NoDup(due) /\ NoDup(rest)
    BY <2>1, SplitLemma
  <2> HIDE DEF due, rest
  <2>3. QED
    BY <2>2 DEF Woken
<1>2. \A u : In(u, rest) <=> In(u, sleep_wait_queue) /\ u \notin Woken(n)
  <2>1. \A u : In(u, rest) <=> \E i \in (n + 1)..Len(sleep_wait_queue) :
                                  sleep_wait_queue[i] = u
    BY SplitLemma DEF Inv, SchedTypeOK
  <2>2. Len(sleep_wait_queue) \in Nat /\ NoDup(sleep_wait_queue)
    BY LenProperties DEF Inv, SchedTypeOK, EachTaskInOnePlace, QueuesAreSets
  <2>3. ASSUME NEW u, In(u, rest)
        PROVE  In(u, sleep_wait_queue) /\ u \notin Woken(n)
    <3>1. PICK i \in (n + 1)..Len(sleep_wait_queue) : sleep_wait_queue[i] = u
      BY <2>1, <2>3
    <3>2. i \in 1..Len(sleep_wait_queue)
      BY <2>2
    <3>3. ASSUME NEW j \in 1..n, sleep_wait_queue[j] = u
          PROVE  FALSE
      <4>1. j \in 1..Len(sleep_wait_queue) /\ j # i
        BY <2>2
      <4>2. QED
        BY <2>2, <3>1, <3>2, <3>3, <4>1 DEF NoDup
    <3>4. QED
      BY <3>1, <3>2, <3>3 DEF In, Woken
  <2>4. ASSUME NEW u, In(u, sleep_wait_queue), u \notin Woken(n)
        PROVE  In(u, rest)
    <3>1. PICK i \in 1..Len(sleep_wait_queue) : sleep_wait_queue[i] = u
      BY <2>4 DEF In
    <3>2. i \notin 1..n
      BY <2>4, <3>1 DEF Woken
    <3>3. i \in (n + 1)..Len(sleep_wait_queue)
      BY <2>2, <3>2
    <3>4. QED
      BY <2>1, <3>1, <3>3
  <2>5. QED
    BY <2>3, <2>4
<1>3. \A u : u \in Woken(n) => In(u, sleep_wait_queue)
  <2>1. Len(sleep_wait_queue) \in Nat
    BY LenProperties DEF Inv, SchedTypeOK
  <2>2. QED
    BY <2>1 DEF Woken, In
<1>4. ready = ready_queue \o due
  BY DEF ready_after
<1>5. \A u : In(u, ready_queue) => u \in Tasks
  BY ElementOfSeq DEF In, Inv, SchedTypeOK
<1>6. \A u : In(u, sleep_wait_queue) => u \in Tasks
  BY ElementOfSeq DEF In, Inv, SchedTypeOK
<1>7. \A u : ~(In(u, ready_queue) /\ In(u, due))
  BY <1>1, <1>3, <1>5, <1>6
     DEF Inv, EachTaskInOnePlace, StatusMatchesQueue, Runnable
<1>8. /\ ready \in Seq(Tasks)
      /\ \A u : In(u, ready) <=> In(u, ready_queue) \/ u \in Woken(n)
      /\ NoDup(ready)
  <2>1. ready_queue \in Seq(Tasks) /\ NoDup(ready_queue)
    BY DEF Inv, SchedTypeOK, EachTaskInOnePlace, QueuesAreSets
  <2> HIDE DEF due, ready
  <2>2. QED
    BY <1>1, <1>4, <1>7, <2>1, ConcatLemma
<1> HIDE DEF due, rest, ready
<1>9. /\ ready # <<>>
      /\ ready_queue' = Tail(ready)
      /\ current_running' = Head(ready)
      /\ sleep_wait_queue' = rest
      /\ in_scheduler /\ ~in_scheduler'
      /\ \A u \in Tasks : status'[u] = IF u \in Woken(n) THEN "READY" ELSE status[u]
      /\ UNCHANGED wait_queue
  BY DEF dispatch, ready, rest
<1>10. /\ Head(ready) \in Tasks /\ In(Head(ready), ready)
       /\ \A u : In(u, ready) <=> In(u, ready_queue') \/ u = Head(ready)
       /\ NoDup(ready_queue') /\ ~In(Head(ready), ready_queue')
  BY <1>8, <1>9, DequeueLemma
<1>11. \A u \in Tasks : In(u, ready) <=> status'[u] \in Runnable
  BY <1>3, <1>8, <1>9
     DEF Inv, EachTaskInOnePlace, StatusMatchesQueue, Running, Runnable
<1>12. QueuesAreSets' /\ OneWaitQueue'
  BY <1>1, <1>9, <1>10 DEF Inv, EachTaskInOnePlace, QueuesAreSets, OneWaitQueue
<1>13. RunningIsRunnable'
  BY <1>9, <1>10, <1>11 DEF RunningIsRunnable
<1>14. StatusMatchesQueue'
  <2> SUFFICES ASSUME NEW u \in Tasks
               PROVE  /\ In(u, ready_queue') <=> status'[u] \in Runnable /\ ~Running(u)'
                      /\ In(u, sleep_wait_queue') <=> status'[u] = "SLEEPING"
                      /\ (\E p \in Queues : In(u, wait_queue'[p])) <=> status'[u] = "BLOCKED"
    BY DEF StatusMatchesQueue
  <2>1. In(u, ready_queue') <=> status'[u] \in Runnable /\ ~Running(u)'
    BY <1>9, <1>10, <1>11 DEF Running
  <2>2. In(u, sleep_wait_queue') <=> status'[u] = "SLEEPING"
    BY <1>2, <1>9 DEF Inv, EachTaskInOnePlace, StatusMatchesQueue
  <2>3. (\E p \in Queues : In(u, wait_queue'[p])) <=> status'[u] = "BLOCKED"
    BY <1>3, <1>9 DEF Inv, EachTaskInOnePlace, StatusMatchesQueue
  <2>4. QED
    BY <2>1, <2>2, <2>3
<1>15. QED
  BY <1>12, <1>13, <1>14 DEF EachTaskInOnePlace

(* EachTaskInOnePlace is inductive.                                        *)
LEMMA PlaceStep ==
    ASSUME Inv, [SchedNext]_schedVars
    PROVE  EachTaskInOnePlace'
<1>1. CASE scheduler
  BY <1>1, DispatchStep DEF scheduler
<1>2. CASE timer_irq_process
  <2>1. current_running \in Tasks /\ Running(current_running)
    BY <1>2 DEF timer_irq_process, Running
  <2>2. QED
    BY <1>2, <2>1, RequeueStep DEF timer_irq_process
<1>3. CASE timer_irq_thread
  BY <1>3 DEF timer_irq_thread, Inv, EachTaskInOnePlace, QueuesAreSets,
              StatusMatchesQueue, OneWaitQueue, RunningIsRunnable, Running
<1>4. ASSUME NEW t \in Tasks, do_yield(t)
      PROVE  EachTaskInOnePlace'
  BY <1>4, RequeueStep DEF do_yield
<1>5. ASSUME NEW t \in Tasks, clock_thread(t) \/ SchedCall(t)
      PROVE  EachTaskInOnePlace'
  BY <1>4, <1>5, SleepStep, ExitStep DEF clock_thread, SchedCall
<1>6. ASSUME NEW t \in Tasks, WaitQueueCall(t)
      PROVE  EachTaskInOnePlace'
  <2>0. Running(t)
    BY <1>6 DEF WaitQueueCall
  <2>1. ASSUME NEW q \in Queues, block(q)
        PROVE  EachTaskInOnePlace'
    BY <2>0, <2>1, BlockStep
  <2>2. ASSUME NEW q \in Queues, unblock_head(q)
        PROVE  EachTaskInOnePlace'
    BY <2>2, UnblockStep
  <2>3. ASSUME NEW m \in Queues, NEW c \in Queues, unblock_one_and_block(m, c)
        PROVE  EachTaskInOnePlace'
    BY <2>0, <2>1, <2>3, UnblockAndBlockStep DEF unblock_one_and_block
  <2>4. QED
    BY <1>6, <2>1, <2>2, <2>3 DEF WaitQueueCall
<1>7. CASE UNCHANGED schedVars
  BY <1>7 DEF schedVars, Inv, EachTaskInOnePlace, QueuesAreSets,
              StatusMatchesQueue, OneWaitQueue, RunningIsRunnable, Running
<1>8. QED
  BY <1>1, <1>2, <1>3, <1>5, <1>6, <1>7 DEF SchedNext, timer_irq

(* After _start() the first tasks are in the ready queue and no other.     *)
LEMMA InitPlaces == SchedInit => EachTaskInOnePlace
<1> SUFFICES ASSUME SchedInit
             PROVE  EachTaskInOnePlace
  OBVIOUS
<1>1. \A u : ~In(u, <<>>)
  BY DEF In
<1>2. NoDup(<<>>)
  BY DEF NoDup
<1>3. NoDup(Order)
  BY OrderAssumption DEF NoDup
<1>4. QED
  BY <1>1, <1>2, <1>3 DEF SchedInit, EachTaskInOnePlace, QueuesAreSets,
     StatusMatchesQueue, OneWaitQueue, RunningIsRunnable, Running, Runnable

(* The kernel never loses a task, queues it twice, or runs one that should *)
(* wait: scheduler.c, queue.c and timer_irq() under any clients.           *)
THEOREM TasksKeepTheirPlace == SchedSpec => []EachTaskInOnePlace
<1>1. SchedTypeOK /\ EachTaskInOnePlace /\ [SchedNext]_schedVars
      => EachTaskInOnePlace'
  BY PlaceStep DEF Inv
<1>2. QED
  BY InitPlaces, <1>1, SchedTypeCorrect, PTL DEF SchedSpec
-----------------------------------------------------------------------------
(***************************************************************************)
(* Round robin: tasks join the ready queue at its end and leave it at its  *)
(* head, so who is ahead stays ahead.                                      *)
(***************************************************************************)
\* Ahead(t, u), of any queue.
AheadIn(t, u, s) ==
    /\ In(t, s)
    /\ \A j \in 1..Len(s) : s[j] = u => \E i \in 1..(j - 1) : s[i] = t

(* Whoever joins at the end overtakes nobody.                              *)
LEMMA JoinersBehind ==
    ASSUME NEW S, NEW s \in Seq(S), NEW r \in Seq(S), NEW t, NEW u, AheadIn(t, u, s)
    PROVE  AheadIn(t, u, s \o r)
<1> DEFINE c == s \o r
<1>1. /\ Len(c) = Len(s) + Len(r)
      /\ \A i \in 1..(Len(s) + Len(r)) :
            c[i] = IF i <= Len(s) THEN s[i] ELSE r[i - Len(s)]
      /\ Len(s) \in Nat /\ Len(r) \in Nat
  BY ConcatProperties, LenProperties
<1> HIDE DEF c
<1>2. PICK k \in 1..Len(s) : s[k] = t
  BY DEF AheadIn, In
<1>3. k \in 1..Len(c) /\ c[k] = t
  BY <1>1, <1>2
<1>4. ASSUME NEW j \in 1..Len(c), c[j] = u
      PROVE  \E i \in 1..(j - 1) : c[i] = t
  <2>1. CASE j <= Len(s)
    <3>1. j \in 1..Len(s) /\ s[j] = u
      BY <1>1, <1>4, <2>1
    <3>2. PICK i \in 1..(j - 1) : s[i] = t
      BY <3>1 DEF AheadIn
    <3>3. i \in 1..(Len(s) + Len(r)) /\ i <= Len(s)
      BY <1>1, <2>1
    <3>4. QED
      BY <1>1, <3>2, <3>3
  <2>2. CASE ~(j <= Len(s))
    <3>1. k \in 1..(j - 1)
      BY <1>1, <2>2
    <3>2. QED
      BY <1>3, <3>1
  <2>3. QED
    BY <2>1, <2>2
<1>5. QED
  BY <1>3, <1>4 DEF AheadIn, In, c

(* The head of the queue is not behind anybody, and when it is another     *)
(* task it leaves the order of the rest as it was.                         *)
LEMMA HeadLeaves ==
    ASSUME NEW S, NEW s \in Seq(S), s # <<>>, NEW t, NEW u, AheadIn(t, u, s), Head(s) # t
    PROVE  Head(s) # u /\ AheadIn(t, u, Tail(s))
<1>1. /\ Len(Tail(s)) = Len(s) - 1
      /\ \A i \in 1..Len(Tail(s)) : Tail(s)[i] = s[i + 1]
      /\ Len(s) \in Nat \ {0}
      /\ Head(s) = s[1]
      /\ \A v : In(v, s) <=> In(v, Tail(s)) \/ v = Head(s)
  BY HeadTailProperties, EmptySeq, LenProperties, DequeueLemma
<1>2. Head(s) # u
  <2>1. SUFFICES ASSUME s[1] = u PROVE FALSE
    BY <1>1
  <2>2. 1 \in 1..Len(s) /\ ~\E i \in 1..(1 - 1) : s[i] = t
    BY <1>1
  <2>3. QED
    BY <2>1, <2>2 DEF AheadIn
<1>3. ASSUME NEW j \in 1..Len(Tail(s)), Tail(s)[j] = u
      PROVE  \E i \in 1..(j - 1) : Tail(s)[i] = t
  <2>1. j + 1 \in 1..Len(s) /\ s[j + 1] = u /\ (j + 1) - 1 = j
    BY <1>1, <1>3
  <2>2. PICK i \in 1..j : s[i] = t
    BY <2>1 DEF AheadIn
  <2>3. i # 1
    BY <1>1, <2>2
  <2>4. i - 1 \in 1..(j - 1) /\ i - 1 \in 1..Len(Tail(s)) /\ (i - 1) + 1 = i
    BY <1>1, <2>3
  <2>5. Tail(s)[i - 1] = t
    BY <1>1, <2>2, <2>4
  <2>6. QED
    BY <2>4, <2>5
<1>4. QED
  BY <1>1, <1>2, <1>3 DEF AheadIn

LEMMA AheadStep ==
    ASSUME SchedTypeOK, [SchedNext]_schedVars, NEW t \in Tasks, NEW u \in Tasks, Ahead(t, u)
    PROVE  \/ Running(t)'
           \/ Ahead(t, u)' /\ (Running(u)' => Running(u))
<1>0. AheadIn(t, u, ready_queue) /\ ready_queue \in Seq(Tasks) /\ Len(ready_queue) \in Nat
  BY LenProperties DEF Ahead, AheadIn, SchedTypeOK
<1>1. Ahead(t, u)' <=> AheadIn(t, u, ready_queue')
  BY DEF Ahead, AheadIn
<1>2. ASSUME NEW x \in Tasks, ready_queue' = Append(ready_queue, x),
             Running(u)' => Running(u)
      PROVE  Ahead(t, u)' /\ (Running(u)' => Running(u))
  <2>1. <<x>> \in Seq(Tasks) /\ Append(ready_queue, x) = ready_queue \o <<x>>
    BY <1>0
  <2>2. QED
    BY <1>0, <1>1, <1>2, <2>1, JoinersBehind
<1>3. ASSUME UNCHANGED ready_queue, Running(u)' => Running(u)
      PROVE  Ahead(t, u)' /\ (Running(u)' => Running(u))
  BY <1>0, <1>1, <1>3
<1>4. ASSUME NEW n \in 0..Len(sleep_wait_queue), dispatch(n)
      PROVE  Running(t)' \/ (Ahead(t, u)' /\ (Running(u)' => Running(u)))
  <2> DEFINE due == SubSeq(sleep_wait_queue, 1, n)
             ready == ready_queue \o due
  <2>1. due \in Seq(Tasks)
    BY SplitLemma DEF SchedTypeOK
  <2> HIDE DEF due
  <2>2. ready \in Seq(Tasks) /\ AheadIn(t, u, ready)
    BY <1>0, <2>1, JoinersBehind, ConcatProperties
  <2>3. /\ ready # <<>> /\ ready_queue' = Tail(ready)
        /\ current_running' = Head(ready) /\ ~in_scheduler'
    BY <1>4 DEF dispatch, ready_after, due
  <2> HIDE DEF ready
  <2>4. CASE Head(ready) = t
    BY <2>3, <2>4 DEF Running
  <2>5. CASE Head(ready) # t
    <3>1. Head(ready) # u /\ AheadIn(t, u, Tail(ready))
      BY <2>2, <2>3, <2>5, HeadLeaves
    <3>2. QED
      BY <1>1, <2>3, <3>1 DEF Running
  <2>6. QED
    BY <2>4, <2>5
<1>5. ASSUME NEW v \in Tasks, do_yield(v)
      PROVE  Ahead(t, u)' /\ (Running(u)' => Running(u))
  BY <1>2, <1>5 DEF do_yield, Running
<1>6. CASE timer_irq
  <2>1. CASE timer_irq_process
    BY <1>2, <2>1 DEF timer_irq_process, Running
  <2>2. CASE timer_irq_thread
    BY <1>3, <2>2 DEF timer_irq_thread, Running
  <2>3. QED
    BY <1>6, <2>1, <2>2 DEF timer_irq
<1>7. ASSUME NEW v \in Tasks, SchedCall(v)
      PROVE  Ahead(t, u)' /\ (Running(u)' => Running(u))
  BY <1>3, <1>5, <1>7 DEF SchedCall, do_sleep, do_exit, Running
<1>8. ASSUME NEW q \in Queues, block(q)
      PROVE  Ahead(t, u)' /\ (Running(u)' => Running(u))
  BY <1>3, <1>8 DEF block, Running
<1>9. ASSUME NEW q \in Queues, wait_queue[q] # <<>>
      PROVE  Head(wait_queue[q]) \in Tasks
  BY <1>9, DequeueLemma DEF SchedTypeOK
<1>10. ASSUME NEW q \in Queues, unblock_head(q)
       PROVE  Ahead(t, u)' /\ (Running(u)' => Running(u))
  BY <1>2, <1>9, <1>10 DEF unblock_head, Running
<1>11. ASSUME NEW m \in Queues, NEW c \in Queues, unblock_one_and_block(m, c)
       PROVE  Ahead(t, u)' /\ (Running(u)' => Running(u))
  BY <1>2, <1>8, <1>9, <1>11 DEF unblock_one_and_block, Running
<1>12. CASE UNCHANGED schedVars
  BY <1>3, <1>12 DEF schedVars, Running
<1>13. QED
  BY <1>4, <1>5, <1>6, <1>7, <1>8, <1>10, <1>11, <1>12
     DEF SchedNext, scheduler, clock_thread, WaitQueueCall

(* Round robin for any number of tasks: nobody in the ready queue is       *)
(* overtaken, by preemption, a wakeup or a yield.                          *)
THEOREM NobodyOvertakes == SchedSpec => FifoReady
<1>1. SchedTypeOK /\ [SchedNext]_schedVars
      => [\A t, u \in Tasks :
            t # u /\ Ahead(t, u)
            => \/ Running(t)'
               \/ Ahead(t, u)' /\ (Running(u)' => Running(u))]_schedVars
  BY AheadStep
<1>2. QED
  BY <1>1, SchedTypeCorrect, PTL DEF SchedSpec, FifoReady

-----------------------------------------------------------------------------
(***************************************************************************)
(* Sync implements Scheduler.                                              *)
(***************************************************************************)
(* A wait of the running task, or a wakeup by it, is a step of Scheduler.  *)
LEMMA CallIsSchedStep ==
    ASSUME NEW t \in Tasks, SyncCall(t)
    PROVE  [SchedNext]_schedVars
<1>0. Running(t) /\ t \notin Clock
  BY DEF SyncCall
<1>1. ASSUME NEW q \in Queues, block(q)
      PROVE  SchedNext
  BY <1>0, <1>1 DEF WaitQueueCall, SchedNext
<1>2. ASSUME NEW q \in Queues, unblock_one(q)
      PROVE  [SchedNext]_schedVars
  BY <1>0, <1>2 DEF unblock_one, WaitQueueCall, SchedNext
<1>3. CASE LockCall(t)
  <2>1. ASSUME NEW l \in Locks, lock_acquire(t, l) \/ lock_release(t, l)
        PROVE  [SchedNext]_schedVars
    BY <1>1, <1>2, <2>1, QueuesAssumption DEF lock_acquire, lock_release
  <2>2. ASSUME NEW c \in Conditions, condition_wait(LockOf[c], c)
        PROVE  SchedNext
    BY <1>0, <2>2, QueuesAssumption, LockOfAssumption
       DEF condition_wait, WaitQueueCall, SchedNext
  <2>3. QED
    BY <1>3, <2>1, <2>2 DEF LockCall
<1>4. ASSUME NEW c \in Conditions, condition_signal(c) \/ condition_broadcast(c)
      PROVE  [SchedNext]_schedVars
  BY <1>2, <1>4, QueuesAssumption DEF condition_signal, condition_broadcast, unblock_all
<1>5. ASSUME NEW s \in Semaphores, semaphore_up(s) \/ semaphore_down(s)
      PROVE  [SchedNext]_schedVars
  BY <1>1, <1>2, <1>5, QueuesAssumption DEF semaphore_up, semaphore_down
<1>6. ASSUME NEW b \in Barriers, barrier_wait(b)
      PROVE  [SchedNext]_schedVars
  BY <1>1, <1>2, <1>6, QueuesAssumption DEF barrier_wait, unblock_all
<1>7. QED
  BY <1>3, <1>4, <1>5, <1>6 DEF SyncCall

(* Sync implements Scheduler: every operation of sync.c does to the queues *)
(* and statuses what some client of Scheduler may do.                      *)
THEOREM SyncImplementsScheduler == SyncSpec => SchedulerSpec
<1>1. SyncInit => SchedInit
  BY DEF SyncInit
<1>2. [SyncNext]_vars => [SchedNext]_schedVars
  <2> SUFFICES ASSUME [SyncNext]_vars
               PROVE  [SchedNext]_schedVars
    OBVIOUS
  <2>1. CASE SchedStep
    BY <2>1 DEF SchedStep, SchedNext
  <2>2. CASE \E t \in Tasks : SyncCall(t)
    BY <2>2, CallIsSchedStep
  <2>3. CASE UNCHANGED vars
    BY <2>3 DEF vars
  <2>4. QED
    BY <2>1, <2>2, <2>3 DEF SyncNext
<1>3. QED
  BY <1>1, <1>2, PTL DEF SyncSpec, SchedSpec, SchedulerSpec

(* So the types and places of Scheduler are invariants of Sync.            *)
COROLLARY SyncPlaces == SyncSpec => [](SchedTypeOK /\ EachTaskInOnePlace)
BY SyncImplementsScheduler, SchedTypeCorrect, TasksKeepTheirPlace, PTL
   DEF SchedulerSpec

(* The types of the synchronisation objects alone. *)
ObjectTypeOK ==
    /\ lock_status \in [Locks -> {"LOCKED", "UNLOCKED"}]
    /\ sem_value \in [Semaphores -> Int]
    /\ current_members \in [Barriers -> Nat]
    /\ \A b \in Barriers : current_members[b] < Members[b]
    /\ acquiring \in [Tasks -> SUBSET Locks]

(* No call on an object spoils the type of one.                            *)
LEMMA ObjectTypeStep ==
    ASSUME ObjectTypeOK, [SyncNext]_vars
    PROVE  ObjectTypeOK'
<1>1. CASE SchedStep
  BY <1>1 DEF SchedStep, syncVars, ObjectTypeOK
<1>2. ASSUME NEW t \in Tasks, SyncCall(t)
      PROVE  ObjectTypeOK'
  <2>1. CASE LockCall(t)
    <3>0. \A l \in Locks : released_status(l) \in {"LOCKED", "UNLOCKED"}
      BY DEF ObjectTypeOK, released_status
    <3>1. ASSUME NEW l \in Locks, lock_acquire(t, l) \/ lock_release(t, l)
          PROVE  ObjectTypeOK'
      BY <3>0, <3>1 DEF ObjectTypeOK, lock_acquire, lock_release
    <3>2. ASSUME NEW c \in Conditions, condition_wait(LockOf[c], c)
          PROVE  ObjectTypeOK'
      BY <3>0, <3>2, LockOfAssumption DEF ObjectTypeOK, condition_wait
    <3>3. QED
      BY <2>1, <3>1, <3>2 DEF LockCall
  <2>2. ASSUME NEW c \in Conditions, condition_signal(c) \/ condition_broadcast(c)
        PROVE  ObjectTypeOK'
    BY <2>2 DEF ObjectTypeOK, condition_signal, condition_broadcast, syncVars
  <2>3. ASSUME NEW s \in Semaphores, semaphore_up(s) \/ semaphore_down(s)
        PROVE  ObjectTypeOK'
    BY <2>3 DEF ObjectTypeOK, semaphore_up, semaphore_down
  <2>4. ASSUME NEW b \in Barriers, barrier_wait(b)
        PROVE  ObjectTypeOK'
    BY <2>4, MembersAssumption DEF ObjectTypeOK, barrier_wait
  <2>5. QED
    BY <1>2, <2>1, <2>2, <2>3, <2>4 DEF SyncCall
<1>3. CASE UNCHANGED vars
  BY <1>3 DEF vars, syncVars, ObjectTypeOK
<1>4. QED
  BY <1>1, <1>2, <1>3 DEF SyncNext

(* The synchronisation objects keep their types.                           *)
THEOREM SyncTypeCorrect == SyncSpec => []SyncTypeOK
<1>1. SyncInit => ObjectTypeOK
  BY SemInitAssumption, MembersAssumption DEF SyncInit, ObjectTypeOK
<1>2. SchedTypeOK /\ ObjectTypeOK => SyncTypeOK
  BY DEF SyncTypeOK, ObjectTypeOK
<1>3. QED
  BY <1>1, <1>2, ObjectTypeStep, SyncPlaces, PTL DEF SyncSpec

-----------------------------------------------------------------------------
(***************************************************************************)
(* Locks.  Of a lock that is used without a condition variable, exclusion  *)
(* and status are inductive together: a free lock has no waiter (so        *)
(* lock_acquire() may take it at once), and the one holder that releases   *)
(* leaves the lock to the head of its queue.  That a lock is LOCKED only   *)
(* while it is held (IsHeld) is kept apart: it is not so where holders are *)
(* killed.  Of the locks of condition variables only OpenInv is left.      *)
(***************************************************************************)
Plain == Locks \ Monitors

Has(t, l) == l \in acquiring[t] /\ ~In(t, wait_queue[l])

(* That of a lock without a condition variable is what Holds says.         *)
LEMMA PlainHolds ==
    ASSUME NEW t, NEW l \in Plain
    PROVE  Holds(t, l) <=> Has(t, l)
BY DEF Plain, Monitors, Holds, Has

LockInv(l) ==
    /\ lock_status[l] = "UNLOCKED" => \A t \in Tasks : l \notin acquiring[t]
    /\ \A t \in Tasks : In(t, wait_queue[l]) => l \in acquiring[t]
    /\ \A t, u \in Tasks : Has(t, l) /\ Has(u, l) => t = u

IsHeld(l) == lock_status[l] = "LOCKED" => \E t \in Tasks : Has(t, l)

SyncInv == SyncTypeOK /\ EachTaskInOnePlace /\ \A l \in Plain : LockInv(l)

(* A step that leaves status, queue and users of a lock alone.             *)
LEMMA LockUntouched ==
    ASSUME NEW l \in Plain, LockInv(l),
           lock_status'[l] = lock_status[l],
           wait_queue'[l] = wait_queue[l],
           \A t \in Tasks : l \in acquiring'[t] <=> l \in acquiring[t]
    PROVE  LockInv(l)' /\ (IsHeld(l) => IsHeld(l)')
BY DEF LockInv, IsHeld, Has

(* lock_acquire().                                                         *)
LEMMA AcquireStep ==
    ASSUME SyncInv, NEW t \in Tasks, Running(t), NEW l \in Plain,
           l \notin acquiring[t], lock_acquire(t, l)
    PROVE  LockInv(l)' /\ (IsHeld(l) => IsHeld(l)')
<1>1. ~In(t, wait_queue[l])
  BY RunningIsNowhere, QueuesAssumption DEF SyncInv, SyncTypeOK, Inv, Plain
<1>2. \A u \in Tasks : l \in acquiring'[u] <=> l \in acquiring[u] \/ u = t
  BY DEF lock_acquire, SyncInv, SyncTypeOK, Plain
<1>3. LockInv(l)
  BY DEF SyncInv
<1>4. CASE lock_status[l] = "LOCKED"
  <2>0. wait_queue[l] \in Seq(Tasks) /\ NoDup(wait_queue[l])
    BY QueuesAssumption
       DEF SyncInv, SyncTypeOK, SchedTypeOK, EachTaskInOnePlace, QueuesAreSets, Plain
  <2>5. wait_queue'[l] = Append(wait_queue[l], t)
    BY <1>4, QueuesAssumption
       DEF lock_acquire, block, SyncInv, SyncTypeOK, SchedTypeOK, Running, Plain
  <2>1. \A u : In(u, wait_queue'[l]) <=> In(u, wait_queue[l]) \/ u = t
    BY <1>1, <2>0, <2>5, EnqueueLemma
  <2>2. lock_status'[l] = "LOCKED"
    BY <1>4 DEF lock_acquire
  <2>3. \A u \in Tasks : Has(u, l)' <=> Has(u, l)
    BY <1>1, <1>2, <2>1 DEF Has, SyncInv
  <2>4. QED
    BY <1>2, <1>3, <1>4, <2>1, <2>2, <2>3 DEF LockInv, IsHeld
<1>5. CASE lock_status[l] # "LOCKED"
  <2>1. lock_status[l] = "UNLOCKED" /\ lock_status'[l] = "LOCKED"
    BY <1>5 DEF lock_acquire, SyncInv, SyncTypeOK, Plain
  <2>2. wait_queue' = wait_queue
    BY <1>5 DEF lock_acquire, schedVars
  <2>3. \A u \in Tasks : Has(u, l)' <=> u = t
    BY <1>1, <1>2, <1>3, <2>1, <2>2 DEF Has, LockInv
  <2>4. QED
    BY <1>2, <1>3, <2>1, <2>2, <2>3 DEF LockInv, IsHeld
<1>6. QED
  BY <1>4, <1>5

(* What lock_release_helper() does to the lock, called by its holder.      *)
LEMMA ReleaseStep ==
    ASSUME SyncInv, NEW t \in Tasks, Running(t), NEW l \in Plain,
           l \in acquiring[t],
           lock_status' = [lock_status EXCEPT ![l] = released_status(l)],
           acquiring' = [acquiring EXCEPT ![t] = @ \ {l}],
           wait_queue'[l] = IF wait_queue[l] = <<>> THEN <<>> ELSE Tail(wait_queue[l])
    PROVE  LockInv(l)' /\ IsHeld(l)'
<1>1. ~In(t, wait_queue[l])
  BY RunningIsNowhere, QueuesAssumption DEF SyncInv, SyncTypeOK, Inv, Plain
<1>2. \A u \in Tasks : l \in acquiring'[u] <=> l \in acquiring[u] /\ u # t
  BY DEF SyncInv, SyncTypeOK
<1>3. LockInv(l) /\ Has(t, l)
  BY <1>1 DEF SyncInv, Has
<1>4. lock_status[l] = "LOCKED" /\ lock_status'[l] = released_status(l)
  BY <1>3 DEF LockInv, SyncInv, SyncTypeOK, Plain
<1>5. CASE wait_queue[l] = <<>>
  <2>1. \A u : ~In(u, wait_queue[l]) /\ ~In(u, wait_queue'[l])
    BY <1>5 DEF In
  <2>2. lock_status'[l] = "UNLOCKED"
    BY <1>4, <1>5 DEF released_status
  <2>3. \A u \in Tasks : l \notin acquiring'[u]
    BY <1>2, <1>3, <2>1 DEF LockInv, Has
  <2>4. QED
    BY <2>1, <2>2, <2>3 DEF LockInv, IsHeld, Has
<1>6. CASE wait_queue[l] # <<>>
  <2> DEFINE h == Head(wait_queue[l])
  <2>0. wait_queue[l] \in Seq(Tasks) /\ NoDup(wait_queue[l])
    BY QueuesAssumption
       DEF SyncInv, SyncTypeOK, SchedTypeOK, EachTaskInOnePlace, QueuesAreSets, Plain
  <2>1. /\ h \in Tasks /\ In(h, wait_queue[l]) /\ ~In(h, wait_queue'[l])
        /\ \A u : In(u, wait_queue[l]) <=> In(u, wait_queue'[l]) \/ u = h
    BY <1>6, <2>0, DequeueLemma
  <2> HIDE DEF h
  <2>2. lock_status'[l] = "LOCKED"
    BY <1>4, <1>6 DEF released_status
  <2>3. \A u \in Tasks : Has(u, l)' <=> u = h
    BY <1>1, <1>2, <1>3, <2>1 DEF LockInv, Has
  <2>4. QED
    BY <1>1, <1>2, <1>3, <2>1, <2>2, <2>3 DEF LockInv, IsHeld
<1>7. QED
  BY <1>5, <1>6

(* The lock's queue is that of no other object.                            *)
LEMMA OtherQueues ==
    ASSUME NEW l \in Locks, NEW q \in Conditions \cup Semaphores \cup Barriers
    PROVE  l # q /\ l \in Queues /\ q \in Queues
BY QueuesAssumption, DisjointAssumption

(* A service on one wait queue leaves the others alone.                    *)
LEMMA QueueUntouched ==
    ASSUME SchedTypeOK, NEW q \in Queues, NEW p \in Queues, p # q,
           block(q) \/ unblock_one(q)
    PROVE  wait_queue'[p] = wait_queue[p]
BY DEF block, unblock_one, unblock_head, SchedTypeOK, schedVars

(* unblock_one() leaves the tail of the queue.                             *)
LEMMA UnblockOneQueue ==
    ASSUME SchedTypeOK, NEW q \in Queues, unblock_one(q)
    PROVE  wait_queue'[q] = IF wait_queue[q] = <<>> THEN <<>> ELSE Tail(wait_queue[q])
BY DEF unblock_one, unblock_head, SchedTypeOK, schedVars

(* Every step keeps the invariant of every lock.                           *)
LEMMA LockStep ==
    ASSUME SyncInv, [SyncNext]_vars, NEW l \in Plain
    PROVE  LockInv(l)' /\ (IsHeld(l) => IsHeld(l)')
<1>0. LockInv(l) /\ SchedTypeOK /\ l \in Locks /\ l \in Queues
  BY QueuesAssumption DEF SyncInv, SyncTypeOK, Plain
<1>1. CASE SchedStep
  <2>1. UNCHANGED <<wait_queue, lock_status, acquiring>>
    BY <1>1 DEF SchedStep, scheduler, dispatch, timer_irq, timer_irq_process,
       timer_irq_thread, clock_thread, SchedCall, do_yield, do_sleep, do_exit, syncVars
  <2>2. QED
    BY <1>0, <2>1, LockUntouched
<1>2. ASSUME NEW t \in Tasks, SyncCall(t)
      PROVE  LockInv(l)' /\ (IsHeld(l) => IsHeld(l)')
  <2>0. Running(t)
    BY <1>2 DEF SyncCall
  <2>1. ASSUME NEW k \in Locks, k \notin acquiring[t], lock_acquire(t, k)
        PROVE  LockInv(l)' /\ (IsHeld(l) => IsHeld(l)')
    <3>1. CASE k = l
      BY <2>0, <2>1, <3>1, AcquireStep
    <3>2. CASE k # l
      <4>1. lock_status'[l] = lock_status[l]
        BY <1>0, <2>1, <3>2 DEF lock_acquire, SyncInv, SyncTypeOK
      <4>2. wait_queue'[l] = wait_queue[l]
        BY <1>0, <2>1, <3>2, QueueUntouched, QueuesAssumption DEF lock_acquire, schedVars
      <4>3. \A u \in Tasks : l \in acquiring'[u] <=> l \in acquiring[u]
        BY <1>0, <2>1, <3>2 DEF lock_acquire, SyncInv, SyncTypeOK
      <4>4. QED
        BY <1>0, <4>1, <4>2, <4>3, LockUntouched
    <3>3. QED
      BY <3>1, <3>2
  <2>2. ASSUME NEW k \in Locks, k \in acquiring[t], lock_release(t, k)
        PROVE  LockInv(l)' /\ (IsHeld(l) => IsHeld(l)')
    <3>1. CASE k = l
      BY <1>0, <2>0, <2>2, <3>1, ReleaseStep, UnblockOneQueue DEF lock_release
    <3>2. CASE k # l
      <4>1. lock_status'[l] = lock_status[l]
        BY <1>0, <2>2, <3>2 DEF lock_release, SyncInv, SyncTypeOK
      <4>2. wait_queue'[l] = wait_queue[l]
        BY <1>0, <2>2, <3>2, QueueUntouched, QueuesAssumption DEF lock_release
      <4>3. \A u \in Tasks : l \in acquiring'[u] <=> l \in acquiring[u]
        BY <1>0, <2>2, <3>2 DEF lock_release, SyncInv, SyncTypeOK
      <4>4. QED
        BY <1>0, <4>1, <4>2, <4>3, LockUntouched
    <3>3. QED
      BY <3>1, <3>2
  <2>3. ASSUME NEW c \in Conditions, condition_wait(LockOf[c], c)
        PROVE  LockInv(l)' /\ (IsHeld(l) => IsHeld(l)')
    <3>0. /\ l # c /\ LockOf[c] # c /\ LockOf[c] \in Locks
          /\ LockOf[c] \in Queues /\ c \in Queues /\ LockOf[c] # l
      BY <1>0, OtherQueues, LockOfAssumption DEF Plain, Monitors
    <3>1. lock_status'[l] = lock_status[l] /\ acquiring' = acquiring
      BY <1>0, <2>3, <3>0 DEF condition_wait, SyncInv, SyncTypeOK
    <3>2. wait_queue'[l] = wait_queue[l]
      BY <1>0, <2>3, <3>0
         DEF condition_wait, unblock_one_and_block, block, SchedTypeOK
    <3>3. QED
      BY <1>0, <3>1, <3>2, LockUntouched
  <2>4. ASSUME NEW q \in Conditions \cup Semaphores \cup Barriers,
               block(q) \/ unblock_one(q) \/ UNCHANGED schedVars,
               UNCHANGED <<lock_status, acquiring>>
        PROVE  LockInv(l)' /\ (IsHeld(l) => IsHeld(l)')
    <3>1. wait_queue'[l] = wait_queue[l]
      BY <1>0, <2>4, QueueUntouched, OtherQueues DEF schedVars
    <3>2. QED
      BY <1>0, <2>4, <3>1, LockUntouched
  <2>5. CASE \E c \in Conditions : condition_signal(c) \/ condition_broadcast(c)
    BY <2>4, <2>5 DEF condition_signal, condition_broadcast, unblock_all, syncVars
  <2>6. CASE \E s \in Semaphores : semaphore_up(s) \/ semaphore_down(s)
    BY <2>4, <2>6 DEF semaphore_up, semaphore_down
  <2>7. CASE \E b \in Barriers : barrier_wait(b)
    BY <2>4, <2>7 DEF barrier_wait, unblock_all
  <2>8. QED
    BY <1>2, <2>1, <2>2, <2>3, <2>5, <2>6, <2>7 DEF SyncCall, LockCall
<1>3. CASE UNCHANGED vars
  BY <1>0, <1>3, LockUntouched DEF vars, schedVars, syncVars
<1>4. QED
  BY <1>1, <1>2, <1>3 DEF SyncNext

(* All locks start free.                                                   *)
LEMMA LocksStartFree ==
    ASSUME SyncInit, NEW l \in Plain
    PROVE  LockInv(l) /\ IsHeld(l)
<1>1. lock_status[l] = "UNLOCKED" /\ \A t \in Tasks : l \notin acquiring[t]
  BY DEF SyncInit, Plain
<1>2. wait_queue[l] = <<>>
  BY QueuesAssumption DEF SyncInit, SchedInit, Plain
<1>3. \A t : ~In(t, wait_queue[l])
  BY <1>2 DEF In
<1>4. QED
  BY <1>1, <1>3 DEF LockInv, IsHeld, Has

(* The invariant of the locks holds throughout.                            *)
LEMMA LocksInvariant == SyncSpec => [](\A l \in Plain : LockInv(l) /\ IsHeld(l))
<1> DEFINE All == \A l \in Plain : LockInv(l) /\ IsHeld(l)
<1>1. SyncInit => All
  BY LocksStartFree
<1>2. SyncTypeOK /\ EachTaskInOnePlace /\ All /\ [SyncNext]_vars => All'
  BY LockStep DEF SyncInv
<1> HIDE DEF All
<1>3. SyncSpec => []All
  BY <1>1, <1>2, SyncTypeCorrect, SyncPlaces, PTL DEF SyncSpec
<1>4. QED
  BY <1>3 DEF All

(* Two tasks never hold the same lock, if no condition variable is used    *)
(* with it, whatever happens to those that one is used with.               *)
THEOREM LocksExclude == SyncSpec => []MutualExclusion
<1>1. (\A l \in Plain : LockInv(l) /\ IsHeld(l)) => MutualExclusion
  BY PlainHolds DEF LockInv, MutualExclusion, Plain
<1>2. QED
  BY <1>1, LocksInvariant, PTL

\* No lock is open while somebody waits at it.
OpenInv(l) == lock_status[l] = "UNLOCKED" => wait_queue[l] = <<>>

(* lock_release_helper() opens a lock only when nobody waits; in           *)
(* condition_wait() too, and also when it is called for a lock that        *)
(* another task has taken since.                                           *)
LEMMA OpenStep ==
    ASSUME SyncTypeOK, \A l \in Locks : OpenInv(l), [SyncNext]_vars, NEW l \in Locks
    PROVE  OpenInv(l)'
<1>0. OpenInv(l) /\ SchedTypeOK /\ l \in Queues
  BY QueuesAssumption DEF SyncTypeOK
<1>1. ASSUME wait_queue'[l] = wait_queue[l], lock_status'[l] = lock_status[l]
      PROVE  OpenInv(l)'
  BY <1>0, <1>1 DEF OpenInv
<1>2. ASSUME lock_status' = [lock_status EXCEPT ![l] = released_status(l)],
             wait_queue'[l] = IF wait_queue[l] = <<>> THEN <<>> ELSE Tail(wait_queue[l])
      PROVE  OpenInv(l)'
  BY <1>0, <1>2 DEF OpenInv, released_status, SyncTypeOK
<1>3. ASSUME NEW t \in Tasks, SyncCall(t)
      PROVE  OpenInv(l)'
  <2>1. ASSUME NEW k \in Locks, lock_acquire(t, k)
        PROVE  OpenInv(l)'
    <3>1. CASE k = l
      BY <2>1, <3>1 DEF lock_acquire, OpenInv, SyncTypeOK
    <3>2. CASE k # l
      BY <1>0, <1>1, <2>1, <3>2, QueueUntouched, QueuesAssumption
         DEF lock_acquire, schedVars, SyncTypeOK
    <3>3. QED
      BY <3>1, <3>2
  <2>2. ASSUME NEW k \in Locks, lock_release(t, k)
        PROVE  OpenInv(l)'
    <3>1. CASE k = l
      BY <1>0, <1>2, <2>2, <3>1, UnblockOneQueue DEF lock_release
    <3>2. CASE k # l
      BY <1>0, <1>1, <2>2, <3>2, QueueUntouched, QueuesAssumption
         DEF lock_release, SyncTypeOK
    <3>3. QED
      BY <3>1, <3>2
  <2>3. ASSUME NEW c \in Conditions, condition_wait(LockOf[c], c)
        PROVE  OpenInv(l)'
    <3>0. /\ l # c /\ LockOf[c] # c /\ LockOf[c] \in Locks
          /\ LockOf[c] \in Queues /\ c \in Queues
      BY OtherQueues, LockOfAssumption
    <3>1. CASE LockOf[c] = l
      <4>1. wait_queue'[l] = IF wait_queue[l] = <<>> THEN <<>> ELSE Tail(wait_queue[l])
        BY <1>0, <2>3, <3>0, <3>1
           DEF condition_wait, unblock_one_and_block, block, SchedTypeOK
      <4>2. QED
        BY <1>2, <2>3, <3>1, <4>1 DEF condition_wait
    <3>2. CASE LockOf[c] # l
      <4>1. wait_queue'[l] = wait_queue[l]
        BY <1>0, <2>3, <3>0, <3>2
           DEF condition_wait, unblock_one_and_block, block, SchedTypeOK
      <4>2. QED
        BY <1>1, <2>3, <3>2, <4>1 DEF condition_wait, SyncTypeOK
    <3>3. QED
      BY <3>1, <3>2
  <2>4. ASSUME NEW q \in Conditions \cup Semaphores \cup Barriers,
               block(q) \/ unblock_one(q) \/ UNCHANGED schedVars,
               UNCHANGED lock_status
        PROVE  OpenInv(l)'
    BY <1>0, <1>1, <2>4, QueueUntouched, OtherQueues DEF schedVars
  <2>5. CASE \E c \in Conditions : condition_signal(c) \/ condition_broadcast(c)
    BY <2>4, <2>5 DEF condition_signal, condition_broadcast, unblock_all, syncVars
  <2>6. CASE \E s \in Semaphores : semaphore_up(s) \/ semaphore_down(s)
    BY <2>4, <2>6 DEF semaphore_up, semaphore_down
  <2>7. CASE \E b \in Barriers : barrier_wait(b)
    BY <2>4, <2>7 DEF barrier_wait, unblock_all
  <2>8. QED
    BY <1>3, <2>1, <2>2, <2>3, <2>5, <2>6, <2>7 DEF SyncCall, LockCall
<1>4. CASE SchedStep
  <2>1. UNCHANGED <<wait_queue, lock_status>>
    BY <1>4 DEF SchedStep, scheduler, dispatch, timer_irq, timer_irq_process,
       timer_irq_thread, clock_thread, SchedCall, do_yield, do_sleep, do_exit, syncVars
  <2>2. QED
    BY <1>1, <2>1
<1>5. CASE UNCHANGED vars
  BY <1>1, <1>5 DEF vars, schedVars, syncVars
<1>6. QED
  BY <1>3, <1>4, <1>5 DEF SyncNext

(* Nobody waits at an open lock, also at one whose users come back from    *)
(* condition_wait() without it; and without condition variables a lock is  *)
(* LOCKED exactly while it is held.                                        *)
THEOREM LockStatusCorrect == SyncSpec => []LockStatusInv
<1> DEFINE Open == \A l \in Locks : OpenInv(l)
           Status0 == \A l \in Plain : LockInv(l) /\ IsHeld(l)
<1>1. SyncInit => Open
  BY QueuesAssumption DEF SyncInit, SchedInit, OpenInv
<1>2. SyncTypeOK /\ Open /\ [SyncNext]_vars => Open'
  BY OpenStep
<1>3. Open /\ Status0 => LockStatusInv
  BY PlainHolds DEF OpenInv, LockInv, IsHeld, LockStatusInv, LockOpenInv, Plain
<1> HIDE DEF Open, Status0
<1>4. SyncSpec => []Status0
  BY LocksInvariant DEF Status0
<1>5. QED
  BY <1>1, <1>2, <1>3, <1>4, SyncTypeCorrect, PTL DEF SyncSpec
-----------------------------------------------------------------------------
(***************************************************************************)
(* Semaphores.                                                             *)
(***************************************************************************)
SemInv(s) ==
    Len(wait_queue[s]) = IF sem_value[s] < 0 THEN -sem_value[s] ELSE 0

(* semaphore_up(): a negative value means a waiter, and one is woken.      *)
LEMMA UpStep ==
    ASSUME SyncTypeOK, NEW s \in Semaphores, SemInv(s), semaphore_up(s)
    PROVE  SemInv(s)'
<1>1. s \in Queues /\ SchedTypeOK /\ sem_value[s] \in Int
  BY QueuesAssumption DEF SyncTypeOK
<1>2. wait_queue[s] \in Seq(Tasks)
  BY <1>1 DEF SchedTypeOK
<1>3. sem_value'[s] = sem_value[s] + 1
  BY DEF semaphore_up, SyncTypeOK
<1>4. wait_queue'[s] = IF wait_queue[s] = <<>> THEN <<>> ELSE Tail(wait_queue[s])
  BY <1>1, UnblockOneQueue DEF semaphore_up
<1>5. wait_queue[s] # <<>> => Len(Tail(wait_queue[s])) = Len(wait_queue[s]) - 1
  BY <1>2
<1>6. Len(wait_queue[s]) = 0 <=> wait_queue[s] = <<>>
  BY <1>2
<1>7. QED
  BY <1>1, <1>3, <1>4, <1>5, <1>6 DEF SemInv

(* semaphore_down(): the task that makes the value negative waits.         *)
LEMMA DownStep ==
    ASSUME SyncTypeOK, NEW t \in Tasks, Running(t),
           NEW s \in Semaphores, SemInv(s), semaphore_down(s)
    PROVE  SemInv(s)'
<1>1. s \in Queues /\ SchedTypeOK /\ sem_value[s] \in Int
  BY QueuesAssumption DEF SyncTypeOK
<1>2. wait_queue[s] \in Seq(Tasks)
  BY <1>1 DEF SchedTypeOK
<1>3. sem_value'[s] = sem_value[s] - 1
  BY DEF semaphore_down, SyncTypeOK
<1>4. CASE sem_value'[s] < 0
  <2>1. wait_queue'[s] = Append(wait_queue[s], t)
    BY <1>1, <1>4 DEF semaphore_down, block, SchedTypeOK, Running
  <2>2. Len(Append(wait_queue[s], t)) = Len(wait_queue[s]) + 1
    BY <1>2
  <2>3. QED
    BY <1>1, <1>3, <1>4, <2>1, <2>2 DEF SemInv
<1>5. CASE ~(sem_value'[s] < 0)
  <2>1. wait_queue'[s] = wait_queue[s]
    BY <1>5 DEF semaphore_down, schedVars
  <2>2. QED
    BY <1>1, <1>3, <1>5, <2>1 DEF SemInv
<1>6. QED
  BY <1>4, <1>5

(* A call on an object leaves the wait queue of any other object alone.    *)
LEMMA OtherObject ==
    ASSUME SchedTypeOK, NEW t \in Tasks, NEW p \in Semaphores \cup Barriers,
           \/ LockCall(t)
           \/ \E c \in Conditions : condition_signal(c) \/ condition_broadcast(c)
           \/ \E s \in Semaphores \ {p} : semaphore_up(s) \/ semaphore_down(s)
           \/ \E b \in Barriers \ {p} : barrier_wait(b)
    PROVE  wait_queue'[p] = wait_queue[p]
<1>0. p \in Queues /\ p \notin Locks \cup Conditions
  BY QueuesAssumption, DisjointAssumption
<1>1. ASSUME NEW q \in Queues \ {p}, block(q) \/ unblock_one(q) \/ UNCHANGED schedVars
      PROVE  wait_queue'[p] = wait_queue[p]
  BY <1>0, <1>1, QueueUntouched DEF schedVars
<1>2. CASE LockCall(t)
  <2>1. ASSUME NEW l \in Locks, lock_acquire(t, l) \/ lock_release(t, l)
        PROVE  wait_queue'[p] = wait_queue[p]
    BY <1>0, <1>1, <2>1, QueuesAssumption DEF lock_acquire, lock_release
  <2>2. ASSUME NEW c \in Conditions, condition_wait(LockOf[c], c)
        PROVE  wait_queue'[p] = wait_queue[p]
    BY <1>0, <2>2, QueuesAssumption, LockOfAssumption
       DEF condition_wait, unblock_one_and_block, block, SchedTypeOK
  <2>3. QED
    BY <1>2, <2>1, <2>2 DEF LockCall
<1>3. CASE \E c \in Conditions : condition_signal(c) \/ condition_broadcast(c)
  BY <1>0, <1>1, <1>3, QueuesAssumption
     DEF condition_signal, condition_broadcast, unblock_all
<1>4. CASE \E s \in Semaphores \ {p} : semaphore_up(s) \/ semaphore_down(s)
  BY <1>0, <1>1, <1>4, QueuesAssumption DEF semaphore_up, semaphore_down
<1>5. CASE \E b \in Barriers \ {p} : barrier_wait(b)
  BY <1>0, <1>1, <1>5, QueuesAssumption DEF barrier_wait, unblock_all
<1>6. QED
  BY <1>2, <1>3, <1>4, <1>5

(* The steps of the scheduler touch no wait queue.                         *)
LEMMA SchedStepQueues ==
    ASSUME SchedStep
    PROVE  wait_queue' = wait_queue
BY DEF SchedStep, scheduler, dispatch, timer_irq, timer_irq_process,
   timer_irq_thread, clock_thread, SchedCall, do_yield, do_sleep, do_exit

(* A semaphore's value counts its waiters, for any number of tasks.        *)
THEOREM SemaphoresCount == SyncSpec => []SemaphoreCountsWaiters
<1>1. SyncInit => SemaphoreCountsWaiters
  <2> SUFFICES ASSUME SyncInit, NEW s \in Semaphores
               PROVE  SemInv(s)
    BY DEF SemaphoreCountsWaiters, SemInv
  <2>1. wait_queue[s] = <<>> /\ sem_value[s] \in Nat
    BY QueuesAssumption, SemInitAssumption DEF SyncInit, SchedInit
  <2>2. QED
    BY <2>1 DEF SemInv
<1>2. SyncTypeOK /\ SemaphoreCountsWaiters /\ [SyncNext]_vars
      => SemaphoreCountsWaiters'
  <2> SUFFICES ASSUME SyncTypeOK, SemaphoreCountsWaiters, [SyncNext]_vars,
                      NEW s \in Semaphores
               PROVE  SemInv(s)'
    BY DEF SemaphoreCountsWaiters, SemInv
  <2>0. SemInv(s) /\ SchedTypeOK
    BY DEF SemaphoreCountsWaiters, SemInv, SyncTypeOK
  <2>1. CASE SchedStep
    BY <2>0, <2>1, SchedStepQueues DEF SchedStep, syncVars, SemInv
  <2>2. ASSUME NEW t \in Tasks, SyncCall(t)
        PROVE  SemInv(s)'
    <3>1. CASE semaphore_up(s)
      BY <2>0, <3>1, UpStep
    <3>2. CASE semaphore_down(s)
      BY <2>0, <2>2, <3>2, DownStep DEF SyncCall
    <3>3. CASE \E k \in Semaphores \ {s} : semaphore_up(k) \/ semaphore_down(k)
      <4>1. wait_queue'[s] = wait_queue[s]
        BY <2>0, <3>3, OtherObject
      <4>2. sem_value'[s] = sem_value[s]
        BY <3>3 DEF semaphore_up, semaphore_down, SyncTypeOK
      <4>3. QED
        BY <2>0, <4>1, <4>2 DEF SemInv
    <3>4. CASE \/ LockCall(t)
               \/ \E c \in Conditions : condition_signal(c) \/ condition_broadcast(c)
               \/ \E b \in Barriers : barrier_wait(b)
      <4>1. wait_queue'[s] = wait_queue[s]
        <5>1. \A b \in Barriers : b # s
          BY DisjointAssumption
        <5>2. QED
          BY <2>0, <3>4, <5>1, OtherObject
      <4>2. sem_value' = sem_value
        BY <3>4 DEF LockCall, lock_acquire, lock_release, condition_wait,
           condition_signal, condition_broadcast, barrier_wait, syncVars
      <4>3. QED
        BY <2>0, <4>1, <4>2 DEF SemInv
    <3>5. QED
      BY <2>2, <3>1, <3>2, <3>3, <3>4 DEF SyncCall
  <2>3. CASE UNCHANGED vars
    BY <2>0, <2>3 DEF vars, schedVars, syncVars, SemInv
  <2>4. QED
    BY <2>1, <2>2, <2>3 DEF SyncNext
<1>3. QED
  BY <1>1, <1>2, SyncTypeCorrect, PTL DEF SyncSpec
-----------------------------------------------------------------------------
(***************************************************************************)
(* Barriers.                                                               *)
(***************************************************************************)
BarInv(b) ==
    /\ current_members[b] <= Len(wait_queue[b])
    /\ Members[b] <= 2 => current_members[b] = Len(wait_queue[b])

(* Removing the head of a queue of at most one task empties it.            *)
LEMMA TailOfOne ==
    ASSUME NEW S, NEW s \in Seq(S), s # <<>>, Len(s) <= 1
    PROVE  Len(Tail(s)) = 0
<1>1. Len(s) = 1
  <2>1. Len(s) \in Nat /\ Len(s) # 0
    OBVIOUS
  <2>2. QED
    BY <2>1
<1>2. Len(Tail(s)) = Len(s) - 1
  OBVIOUS
<1>3. QED
  BY <1>1, <1>2

(* barrier_wait(): who waits is counted, and of two members waking one is  *)
(* waking all.                                                             *)
LEMMA BarrierStep ==
    ASSUME SyncTypeOK, NEW t \in Tasks, Running(t),
           NEW b \in Barriers, BarInv(b), barrier_wait(b)
    PROVE  BarInv(b)'
<1>1. /\ b \in Queues /\ SchedTypeOK /\ Members[b] \in Nat \ {0}
      /\ current_members[b] \in Nat /\ current_members[b] < Members[b]
  BY QueuesAssumption, MembersAssumption DEF SyncTypeOK
<1>2. wait_queue[b] \in Seq(Tasks) /\ Len(wait_queue[b]) \in Nat
  BY <1>1 DEF SchedTypeOK
<1>3. CASE current_members[b] + 1 = Members[b]
  <2>1. current_members'[b] = 0 /\ unblock_one(b)
    BY <1>3 DEF barrier_wait, unblock_all, SyncTypeOK
  <2>2. wait_queue'[b] = IF wait_queue[b] = <<>> THEN <<>> ELSE Tail(wait_queue[b])
    BY <1>1, <2>1, UnblockOneQueue
  <2>3. wait_queue'[b] \in Seq(Tasks) /\ Len(wait_queue'[b]) \in Nat
    BY <1>2, <2>2, DequeueLemma
  <2>4. Members[b] <= 2 => Len(wait_queue'[b]) = 0
    <3>1. CASE wait_queue[b] = <<>>
      BY <2>2, <3>1
    <3>2. CASE wait_queue[b] # <<>>
      <4>1. Members[b] <= 2 => Len(wait_queue[b]) <= 1
        BY <1>1, <1>2, <1>3 DEF BarInv
      <4>2. QED
        BY <1>2, <2>2, <3>2, <4>1, TailOfOne
    <3>3. QED
      BY <3>1, <3>2
  <2>5. QED
    BY <2>1, <2>3, <2>4 DEF BarInv
<1>4. CASE current_members[b] + 1 # Members[b]
  <2>1. current_members'[b] = current_members[b] + 1 /\ block(b)
    BY <1>4 DEF barrier_wait, SyncTypeOK
  <2>2. wait_queue'[b] = Append(wait_queue[b], t)
    BY <1>1, <2>1 DEF block, SchedTypeOK, Running
  <2>3. Len(Append(wait_queue[b], t)) = Len(wait_queue[b]) + 1
    BY <1>2
  <2>4. QED
    BY <1>1, <1>2, <1>4, <2>1, <2>2, <2>3 DEF BarInv
<1>5. QED
  BY <1>3, <1>4

(* Whom a barrier counts waits at it, for any number of members; with two  *)
(* nobody else does: then the "if" of unblock_all() does no harm.          *)
THEOREM BarriersCount == SyncSpec => []BarrierCountsWaiters
<1> DEFINE All == \A b \in Barriers : BarInv(b)
<1>1. SyncInit => All
  <2> SUFFICES ASSUME SyncInit, NEW b \in Barriers
               PROVE  BarInv(b)
    OBVIOUS
  <2>1. wait_queue[b] = <<>> /\ current_members[b] = 0
    BY QueuesAssumption DEF SyncInit, SchedInit
  <2>2. QED
    BY <2>1 DEF BarInv
<1>2. SyncTypeOK /\ All /\ [SyncNext]_vars => All'
  <2> SUFFICES ASSUME SyncTypeOK, All, [SyncNext]_vars, NEW b \in Barriers
               PROVE  BarInv(b)'
    OBVIOUS
  <2>0. BarInv(b) /\ SchedTypeOK
    BY DEF SyncTypeOK
  <2> HIDE DEF All
  <2>1. CASE SchedStep
    BY <2>0, <2>1, SchedStepQueues DEF SchedStep, syncVars, BarInv
  <2>2. ASSUME NEW t \in Tasks, SyncCall(t)
        PROVE  BarInv(b)'
    <3>1. CASE barrier_wait(b)
      BY <2>0, <2>2, <3>1, BarrierStep DEF SyncCall
    <3>2. CASE \E k \in Barriers \ {b} : barrier_wait(k)
      <4>1. wait_queue'[b] = wait_queue[b]
        BY <2>0, <3>2, OtherObject
      <4>2. current_members'[b] = current_members[b]
        BY <3>2 DEF barrier_wait, SyncTypeOK
      <4>3. QED
        BY <2>0, <4>1, <4>2 DEF BarInv
    <3>3. CASE \/ LockCall(t)
               \/ \E c \in Conditions : condition_signal(c) \/ condition_broadcast(c)
               \/ \E s \in Semaphores : semaphore_up(s) \/ semaphore_down(s)
      <4>1. wait_queue'[b] = wait_queue[b]
        <5>1. \A s \in Semaphores : s # b
          BY DisjointAssumption
        <5>2. QED
          BY <2>0, <3>3, <5>1, OtherObject
      <4>2. current_members' = current_members
        BY <3>3 DEF LockCall, lock_acquire, lock_release, condition_wait,
           condition_signal, condition_broadcast, semaphore_up, semaphore_down, syncVars
      <4>3. QED
        BY <2>0, <4>1, <4>2 DEF BarInv
    <3>4. QED
      BY <2>2, <3>1, <3>2, <3>3 DEF SyncCall
  <2>3. CASE UNCHANGED vars
    BY <2>0, <2>3 DEF vars, schedVars, syncVars, BarInv
  <2>4. QED
    BY <2>1, <2>2, <2>3 DEF SyncNext
<1>3. All => BarrierCountsWaiters
  BY DEF BarInv, BarrierCountsWaiters
<1> HIDE DEF All
<1>4. QED
  BY <1>1, <1>2, <1>3, SyncTypeCorrect, PTL DEF SyncSpec
=============================================================================
