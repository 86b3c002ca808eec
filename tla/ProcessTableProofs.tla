-------------------------- MODULE ProcessTableProofs --------------------------
(***************************************************************************)
(* The process table stays consistent under spawn, kill, wait and exit,    *)
(* for any size of the table, locks and delays.                            *)
(***************************************************************************)
EXTENDS ProcessTable, SyncProofs

(* Nobody waits for himself.                                               *)
WaitsAreForOthers == \A p \in Tasks : ~In(p, wait_queue[wait_of(p)])

TableInv == Inv /\ BootInv /\ WaitsAreForOthers

-----------------------------------------------------------------------------
(* The waiters of two tasks, and of a task and a lock, are in two queues.  *)
LEMMA WaitQueues ==
    ASSUME NEW p \in Tasks
    PROVE  /\ wait_of(p) \in Queues
           /\ \A u \in Tasks : wait_of(u) = wait_of(p) => u = p
           /\ \A l \in Locks \cup Conditions : l # wait_of(p) /\ l \in Queues
BY TableAssumption, QueuesAssumption DEF wait_of

(* unlinked() takes one task out of a queue, if it is there.               *)
LEMMA UnlinkedLemma ==
    ASSUME NEW p \in Tasks, NEW s \in Seq(Tasks), NoDup(s)
    PROVE  /\ unlinked(p, s) \in Seq(Tasks)
           /\ \A u : In(u, unlinked(p, s)) <=> In(u, s) /\ u # p
           /\ NoDup(unlinked(p, s))
<1>1. CASE In(p, s)
  <2> DEFINE k == CHOOSE i \in 1..Len(s) : s[i] = p
  <2>1. k \in 1..Len(s) /\ s[k] = p
    BY <1>1 DEF In
  <2>2. unlinked(p, s) = Without(s, k)
    BY <1>1 DEF unlinked
  <2> HIDE DEF k
  <2>3. QED
    BY <2>1, <2>2, UnlinkLemma
<1>2. CASE ~In(p, s)
  BY <1>2 DEF unlinked
<1>3. QED
  BY <1>1, <1>2

-----------------------------------------------------------------------------
(* do_spawn() puts a task where none was.                                  *)
LEMMA SpawnStep ==
    ASSUME TableInv, NEW t \in Tasks, NEW p \in Tasks,
           Unwatched(p), do_spawn(t, p)
    PROVE  TableInv' /\ wait_queue' = wait_queue
<1>0. /\ Inv /\ SchedTypeOK /\ EachTaskInOnePlace /\ Running(t) /\ status[p] = "EXITED"
      /\ wait_queue[wait_of(p)] = <<>> /\ wait_of(p) \in Queues
  BY WaitQueues DEF TableInv, Inv, Unwatched, do_spawn, free
<1>1. /\ wait_queue' = wait_queue
      /\ UNCHANGED <<current_running, in_scheduler, sleep_wait_queue, delay>>
  BY <1>0 DEF do_spawn, SchedTypeOK
<1>2. /\ ~In(p, ready_queue) /\ ~In(p, sleep_wait_queue) /\ ~Running(p)
      /\ \A q \in Queues : ~In(p, wait_queue[q])
  BY <1>0 DEF EachTaskInOnePlace, StatusMatchesQueue, RunningIsRunnable, Running, Runnable
<1>3. /\ ready_queue' \in Seq(Tasks)
      /\ \A u : In(u, ready_queue') <=> In(u, ready_queue) \/ u = p
      /\ NoDup(ready_queue')
  BY <1>0, <1>2, EnqueueLemma DEF do_spawn, SchedTypeOK, EachTaskInOnePlace, QueuesAreSets
<1>4. /\ status' \in [Tasks -> Status]
      /\ \A u \in Tasks : status'[u] = IF u = p THEN "FIRST_TIME" ELSE status[u]
  BY <1>0 DEF do_spawn, SchedTypeOK, Status
<1>5. SchedTypeOK'
  BY <1>0, <1>1, <1>3, <1>4 DEF SchedTypeOK
<1>6. QueuesAreSets' /\ OneWaitQueue' /\ RunningIsRunnable'
  BY <1>0, <1>1, <1>3, <1>4
     DEF EachTaskInOnePlace, QueuesAreSets, OneWaitQueue, RunningIsRunnable, Runnable
<1>7. StatusMatchesQueue'
  BY <1>0, <1>1, <1>2, <1>3, <1>4
     DEF EachTaskInOnePlace, StatusMatchesQueue, Running, Runnable
<1>8. WaitsAreForOthers'
  BY <1>1, <1>4 DEF TableInv, WaitsAreForOthers
<1>9. BootInv'
  BY <1>1 DEF TableInv, BootInv
<1>10. QED
  BY <1>1, <1>5, <1>6, <1>7, <1>8, <1>9 DEF TableInv, Inv, EachTaskInOnePlace

(* do_kill() leaves the victim nowhere and its waiters in the ready queue. *)
LEMMA KillStep ==
    ASSUME TableInv, NEW t \in Tasks, NEW p \in Tasks, do_kill(t, p)
    PROVE  /\ TableInv'
           /\ \A u : In(u, wait_queue[wait_of(p)]) => In(u, ready_queue')
           /\ status'[p] = "EXITED"
           /\ \A u \in Tasks \ {p} : status'[u] = "EXITED" <=> status[u] = "EXITED"
           /\ \A q \in Queues \ {wait_of(p)} : \A u \in Tasks \ {p} :
                 In(u, wait_queue'[q]) <=> In(u, wait_queue[q])
<1> DEFINE woken == wait_queue[wait_of(p)]
<1>0. /\ Inv /\ SchedTypeOK /\ EachTaskInOnePlace /\ WaitsAreForOthers
      /\ QueuesAreSets /\ StatusMatchesQueue /\ OneWaitQueue /\ RunningIsRunnable
      /\ Running(t) /\ p # t
      /\ wait_of(p) \in Queues
  BY WaitQueues DEF TableInv, Inv, EachTaskInOnePlace, do_kill
<1>1. woken \in Seq(Tasks) /\ NoDup(woken) /\ ~In(p, woken)
  BY <1>0 DEF SchedTypeOK, QueuesAreSets, WaitsAreForOthers
<1>2. \A u : In(u, woken) => /\ u \in Tasks /\ status[u] = "BLOCKED" /\ u # t
                             /\ ~In(u, ready_queue) /\ ~In(u, sleep_wait_queue)
  <2>1. \A u : In(u, woken) => u \in Tasks
    BY <1>1, ElementOfSeq DEF In
  <2>2. QED
    BY <1>0, <2>1, RunningIsNowhere DEF StatusMatchesQueue, Runnable
<1>3. /\ UNCHANGED <<current_running, in_scheduler, delay>>
      /\ status' = [u \in Tasks |-> IF In(u, woken) THEN "READY"
                                    ELSE IF u = p THEN "EXITED" ELSE status[u]]
      /\ ready_queue' = unlinked(p, ready_queue \o woken)
      /\ sleep_wait_queue' = unlinked(p, sleep_wait_queue)
      /\ wait_queue' = [q \in Queues |-> IF q = wait_of(p) THEN <<>>
                                         ELSE unlinked(p, wait_queue[q])]
  BY DEF do_kill
<1> HIDE DEF woken
<1>4. /\ ready_queue' \in Seq(Tasks) /\ NoDup(ready_queue')
      /\ \A u : In(u, ready_queue') <=> (In(u, ready_queue) \/ In(u, woken)) /\ u # p
  <2>1. /\ ready_queue \o woken \in Seq(Tasks) /\ NoDup(ready_queue \o woken)
        /\ \A u : In(u, ready_queue \o woken) <=> In(u, ready_queue) \/ In(u, woken)
    BY <1>0, <1>1, <1>2, ConcatLemma DEF SchedTypeOK, QueuesAreSets
  <2>2. QED
    BY <1>3, <2>1, UnlinkedLemma
<1>5. /\ sleep_wait_queue' \in Seq(Tasks) /\ NoDup(sleep_wait_queue')
      /\ \A u : In(u, sleep_wait_queue') <=> In(u, sleep_wait_queue) /\ u # p
  BY <1>0, <1>3, UnlinkedLemma DEF SchedTypeOK, QueuesAreSets
<1>6. \A q \in Queues :
         /\ wait_queue'[q] \in Seq(Tasks) /\ NoDup(wait_queue'[q])
         /\ \A u : In(u, wait_queue'[q]) <=> In(u, wait_queue[q]) /\ u # p /\ q # wait_of(p)
  <2> SUFFICES ASSUME NEW q \in Queues
               PROVE  /\ wait_queue'[q] \in Seq(Tasks) /\ NoDup(wait_queue'[q])
                      /\ \A u : In(u, wait_queue'[q])
                                <=> In(u, wait_queue[q]) /\ u # p /\ q # wait_of(p)
    OBVIOUS
  <2>1. CASE q = wait_of(p)
    <3>1. wait_queue'[q] = <<>>
      BY <1>3, <2>1
    <3>2. <<>> \in Seq(Tasks) /\ NoDup(<<>>) /\ \A u : ~In(u, <<>>)
      BY DEF NoDup, In
    <3>3. QED
      BY <2>1, <3>1, <3>2
  <2>2. CASE q # wait_of(p)
    <3>1. wait_queue'[q] = unlinked(p, wait_queue[q])
      BY <1>3, <2>2
    <3>2. wait_queue[q] \in Seq(Tasks) /\ NoDup(wait_queue[q])
      BY <1>0 DEF SchedTypeOK, QueuesAreSets
    <3>3. QED
      BY <2>2, <3>1, <3>2, UnlinkedLemma
  <2>3. QED
    BY <2>1, <2>2
<1>7. \A u \in Tasks : status'[u] = IF In(u, woken) THEN "READY"
                                    ELSE IF u = p THEN "EXITED" ELSE status[u]
  BY <1>3
<1>8. SchedTypeOK'
  <2>1. wait_queue' \in [Queues -> Seq(Tasks)]
    BY <1>3, <1>6
  <2>2. status' \in [Tasks -> Status]
    BY <1>0, <1>3 DEF SchedTypeOK, Status
  <2>3. QED
    BY <1>0, <1>3, <1>4, <1>5, <2>1, <2>2 DEF SchedTypeOK
<1>9. QueuesAreSets' /\ OneWaitQueue'
  BY <1>0, <1>4, <1>5, <1>6 DEF QueuesAreSets, OneWaitQueue
<1>10. RunningIsRunnable'
  BY <1>0, <1>2, <1>3, <1>7 DEF RunningIsRunnable, Running
<1>11. StatusMatchesQueue'
  <2> SUFFICES ASSUME NEW u \in Tasks
               PROVE  /\ In(u, ready_queue') <=> status'[u] \in Runnable /\ ~Running(u)'
                      /\ In(u, sleep_wait_queue') <=> status'[u] = "SLEEPING"
                      /\ (\E q \in Queues : In(u, wait_queue'[q])) <=> status'[u] = "BLOCKED"
    BY DEF StatusMatchesQueue
  <2>0. Running(u)' <=> Running(u)
    BY <1>3 DEF Running
  <2>1. CASE In(u, woken)
    <3>1. status'[u] = "READY" /\ u # p /\ ~Running(u)
      BY <1>0, <1>1, <1>2, <1>7, <2>1 DEF Running
    <3>2. \A q \in Queues : ~In(u, wait_queue'[q])
      BY <1>0, <1>6, <2>1 DEF OneWaitQueue, woken
    <3>3. In(u, ready_queue') /\ ~In(u, sleep_wait_queue')
      BY <1>2, <1>4, <1>5, <2>1, <3>1
    <3>4. QED
      BY <2>0, <3>1, <3>2, <3>3 DEF Runnable
  <2>2. CASE u = p
    BY <1>1, <1>4, <1>5, <1>6, <1>7, <2>2 DEF Runnable
  <2>3. CASE ~In(u, woken) /\ u # p
    <3>1. status'[u] = status[u]
      BY <1>7, <2>3
    <3>2. /\ In(u, ready_queue') <=> In(u, ready_queue)
          /\ In(u, sleep_wait_queue') <=> In(u, sleep_wait_queue)
      BY <1>4, <1>5, <2>3
    <3>3. (\E q \in Queues : In(u, wait_queue'[q])) <=> (\E q \in Queues : In(u, wait_queue[q]))
      BY <1>6, <2>3 DEF woken
    <3>4. QED
      BY <1>0, <2>0, <3>1, <3>2, <3>3 DEF StatusMatchesQueue
  <2>4. QED
    BY <2>1, <2>2, <2>3
<1>12. \A u \in Tasks \ {p} : status'[u] = "EXITED" <=> status[u] = "EXITED"
  BY <1>2, <1>7
<1>13. WaitsAreForOthers'
  BY <1>0, <1>6, WaitQueues DEF WaitsAreForOthers
<1>14. BootInv'
  BY <1>3 DEF TableInv, BootInv
<1>15. TableInv'
  BY <1>8, <1>9, <1>10, <1>11, <1>13, <1>14 DEF TableInv, Inv, EachTaskInOnePlace
<1>16. \A u : In(u, woken) => In(u, ready_queue')
  BY <1>1, <1>4
<1>17. status'[p] = "EXITED"
  BY <1>1, <1>7
<1>18. QED
  BY <1>6, <1>12, <1>15, <1>16, <1>17 DEF woken

-----------------------------------------------------------------------------
(* Calls that are not about the life of a task.                            *)
QuietCall(t) ==
    \/ do_yield(t) /\ UNCHANGED syncVars
    \/ \E d \in Delays : do_sleep(t, d) /\ UNCHANGED syncVars
    \/ Running(t) /\ LockCall(t)

(* What is left is a step of Scheduler.                                    *)
LEMMA PlainStep ==
    ASSUME \/ System
           \/ \E t \in Tasks \ Clock : \/ QuietCall(t)
                                       \/ do_exit(t)
                                       \/ \E p \in Tasks : do_wait(t, p)
           \/ UNCHANGED vars
    PROVE  [SchedNext]_schedVars
<1>1. CASE System
  BY <1>1, ClockAssumption, ThreadsAssumption DEF System, SchedNext
<1>2. ASSUME NEW t \in Tasks \ Clock, QuietCall(t)
      PROVE  [SchedNext]_schedVars
  <2>1. CASE Running(t) /\ LockCall(t)
    BY <2>1, CallIsSchedStep DEF SyncCall
  <2>2. CASE do_yield(t) \/ \E d \in Delays : do_sleep(t, d)
    BY <2>2 DEF SchedCall, SchedNext
  <2>3. QED
    BY <1>2, <2>1, <2>2 DEF QuietCall
<1>3. ASSUME NEW t \in Tasks \ Clock, do_exit(t)
      PROVE  [SchedNext]_schedVars
  BY <1>3 DEF SchedCall, SchedNext
<1>4. ASSUME NEW t \in Tasks \ Clock, NEW p \in Tasks, do_wait(t, p)
      PROVE  [SchedNext]_schedVars
  BY <1>4, WaitQueues DEF do_wait, WaitQueueCall, SchedNext
<1>5. CASE UNCHANGED vars
  BY <1>5 DEF vars
<1>6. QED
  BY <1>1, <1>2, <1>3, <1>4, <1>5

(* The system and the calls that are not about the life of a task neither  *)
(* touch the queues of those who wait for a task nor bring one to life.    *)
LEMMA QuietStep ==
    ASSUME TableInv,
           \/ System
           \/ \E t \in Tasks \ Clock : QuietCall(t)
           \/ UNCHANGED vars
    PROVE  \A p \in Tasks :
              /\ wait_queue'[wait_of(p)] = wait_queue[wait_of(p)]
              /\ status'[p] = "EXITED" <=> status[p] = "EXITED"
<1> DEFINE Same == \A p \in Tasks :
                      /\ wait_queue'[wait_of(p)] = wait_queue[wait_of(p)]
                      /\ status'[p] = "EXITED" <=> status[p] = "EXITED"
<1>0. Inv /\ SchedTypeOK /\ EachTaskInOnePlace
  BY DEF TableInv, Inv
<1>1. ASSUME scheduler PROVE Same
  <2>1. PICK n \in 0..Len(sleep_wait_queue) : dispatch(n)
    BY <1>1 DEF scheduler
  <2>2. \A u \in Tasks : u \in Woken(n) => status[u] = "SLEEPING"
    <3>1. Len(sleep_wait_queue) \in Nat
      BY <1>0, LenProperties DEF SchedTypeOK
    <3>2. \A u : u \in Woken(n) => In(u, sleep_wait_queue)
      BY <3>1 DEF Woken, In
    <3>3. QED
      BY <1>0, <3>2 DEF EachTaskInOnePlace, StatusMatchesQueue
  <2>3. QED
    BY <2>1, <2>2 DEF dispatch
<1>2. ASSUME NEW t \in Tasks, Running(t), UNCHANGED wait_queue,
             NEW s \in {"READY", "SLEEPING"}, status' = [status EXCEPT ![t] = s]
      PROVE  Same
  <2>1. status[t] \in Runnable
    BY <1>0, <1>2, RunningIsNowhere
  <2>2. \A p \in Tasks : status'[p] = "EXITED" <=> status[p] = "EXITED"
    BY <1>0, <1>2, <2>1 DEF SchedTypeOK, Runnable
  <2>3. QED
    BY <1>2, <2>2
<1>3. ASSUME timer_irq PROVE Same
  <2>1. CASE timer_irq_process
    BY <1>2, <2>1 DEF timer_irq_process, Running
  <2>2. CASE timer_irq_thread
    BY <2>2 DEF timer_irq_thread
  <2>3. QED
    BY <1>3, <2>1, <2>2 DEF timer_irq
<1>4. ASSUME NEW t \in Tasks, do_yield(t) \/ \E d \in Delays : do_sleep(t, d)
      PROVE  Same
  BY <1>2, <1>4 DEF do_yield, do_sleep
<1>5. ASSUME NEW t \in Tasks, Running(t), NEW q \in Locks \cup Conditions, block(q)
      PROVE  Same
  <2>1. current_running = t /\ status[t] \in Runnable
    BY <1>0, <1>5, RunningIsNowhere DEF Running
  <2>2. \A p \in Tasks : status'[p] = "EXITED" <=> status[p] = "EXITED"
    BY <1>0, <1>5, <2>1 DEF block, SchedTypeOK, Runnable
  <2>3. \A p \in Tasks : wait_queue'[wait_of(p)] = wait_queue[wait_of(p)]
    BY <1>0, <1>5, WaitQueues DEF block, SchedTypeOK
  <2>4. QED
    BY <2>2, <2>3
<1>6. ASSUME NEW q \in Locks, unblock_head(q)
      PROVE  Same
  <2>1. q \in Queues /\ wait_queue[q] # <<>>
    BY <1>6, QueuesAssumption DEF unblock_head
  <2>2. status[Head(wait_queue[q])] = "BLOCKED"
    BY <1>0, <2>1, HeadIsBlocked
  <2>3. \A p \in Tasks : status'[p] = "EXITED" <=> status[p] = "EXITED"
    BY <1>0, <1>6, <2>2 DEF unblock_head, SchedTypeOK
  <2>4. \A p \in Tasks : wait_queue'[wait_of(p)] = wait_queue[wait_of(p)]
    BY <1>0, <1>6, WaitQueues DEF unblock_head, SchedTypeOK
  <2>5. QED
    BY <2>3, <2>4
<1>7. ASSUME NEW t \in Tasks, Running(t), NEW m \in Locks, NEW c \in Conditions,
             unblock_one_and_block(m, c)
      PROVE  Same
  <2>1. CASE wait_queue[m] = <<>>
    BY <1>5, <1>7, <2>1 DEF unblock_one_and_block
  <2>2. CASE wait_queue[m] # <<>>
    <3>1. m \in Queues /\ c \in Queues /\ current_running = t
      BY <1>7, QueuesAssumption DEF Running
    <3>2. status[Head(wait_queue[m])] = "BLOCKED" /\ status[t] \in Runnable
      BY <1>0, <1>7, <2>2, <3>1, HeadIsBlocked, RunningIsNowhere
    <3>3. status' = [status EXCEPT ![Head(wait_queue[m])] = "READY", ![t] = "BLOCKED"]
      BY <1>7, <2>2, <3>1 DEF unblock_one_and_block
    <3>4. \A p \in Tasks : status'[p] = "EXITED" <=> status[p] = "EXITED"
      BY <1>0, <3>2, <3>3 DEF SchedTypeOK, Runnable
    <3>5. wait_queue' = [wait_queue EXCEPT ![m] = Tail(@), ![c] = Append(@, t)]
      BY <1>7, <2>2, <3>1 DEF unblock_one_and_block
    <3>6. \A p \in Tasks : wait_queue'[wait_of(p)] = wait_queue[wait_of(p)]
      BY <1>0, <3>5, WaitQueues DEF SchedTypeOK
    <3>7. QED
      BY <3>4, <3>6
  <2>3. QED
    BY <2>1, <2>2
<1>8. ASSUME UNCHANGED schedVars PROVE Same
  BY <1>8 DEF schedVars
<1> HIDE DEF Same
<1>9. ASSUME NEW t \in Tasks, Running(t), LockCall(t) PROVE Same
  <2>1. ASSUME NEW l \in Locks, lock_acquire(t, l) PROVE Same
    BY <1>5, <1>8, <1>9, <2>1 DEF lock_acquire
  <2>2. ASSUME NEW l \in Locks, lock_release(t, l) PROVE Same
    BY <1>6, <1>8, <2>2 DEF lock_release, unblock_one
  <2>3. ASSUME NEW c \in Conditions, condition_wait(LockOf[c], c) PROVE Same
    BY <1>7, <1>9, <2>3, LockOfAssumption DEF condition_wait
  <2>4. QED
    BY <1>9, <2>1, <2>2, <2>3 DEF LockCall
<1>10. ASSUME System PROVE Same
  BY <1>1, <1>3, <1>4, <1>10, ClockAssumption, ThreadsAssumption DEF System, clock_thread
<1>11. ASSUME NEW t \in Tasks \ Clock, QuietCall(t) PROVE Same
  BY <1>4, <1>9, <1>11 DEF QuietCall
<1>12. ASSUME UNCHANGED vars PROVE Same
  BY <1>8, <1>12 DEF vars
<1>13. Same
  BY <1>10, <1>11, <1>12
<1>14. QED
  BY <1>13 DEF Same

-----------------------------------------------------------------------------
(* What one step does to those who wait, and to those who are gone.        *)
EndsWait(p, u) ==
    In(u, wait_queue[wait_of(p)]) /\ status'[u] # "EXITED"
    => (In(u, ready_queue') <=> Exists(p) /\ status'[p] = "EXITED" /\ ~Running(p))

StepKeepsPromises ==
    /\ \A p, u \in Tasks : EndsWait(p, u)
    /\ \A p \in Tasks :
          status[p] = "EXITED" /\ status'[p] # "EXITED" => \E t \in Tasks : do_spawn(t, p)

(* Who still waits is not ready.                                           *)
LEMMA StillWaits ==
    ASSUME TableInv', NEW p \in Tasks, NEW u \in Tasks,
           In(u, wait_queue'[wait_of(p)]),
           ~(Exists(p) /\ status'[p] = "EXITED" /\ ~Running(p))
    PROVE  EndsWait(p, u)
<1>1. status'[u] = "BLOCKED"
  BY WaitQueues DEF TableInv, Inv, EachTaskInOnePlace, StatusMatchesQueue
<1>2. ~In(u, ready_queue')
  BY <1>1 DEF TableInv, Inv, EachTaskInOnePlace, StatusMatchesQueue, Runnable
<1>3. QED
  BY <1>2 DEF EndsWait

(* Every step keeps the invariant of the table, and its promises.          *)
LEMMA TableStep ==
    ASSUME TableInv, [ProcessNext]_vars
    PROVE  TableInv' /\ StepKeepsPromises
<1>0. Inv /\ BootInv /\ SchedTypeOK /\ EachTaskInOnePlace /\ WaitsAreForOthers
  BY DEF TableInv, Inv
<1>1. ASSUME [SchedNext]_schedVars
      PROVE  Inv' /\ BootInv'
  BY <1>0, <1>1, TypeStep, PlaceStep DEF Inv
<1>2. ASSUME Inv' /\ BootInv',
             \A p \in Tasks : /\ wait_queue'[wait_of(p)] = wait_queue[wait_of(p)]
                              /\ status'[p] = "EXITED" <=> status[p] = "EXITED"
      PROVE  TableInv' /\ StepKeepsPromises
  <2>1. TableInv'
    BY <1>0, <1>2 DEF TableInv, WaitsAreForOthers
  <2>2. \A p, u \in Tasks : EndsWait(p, u)
    <3> SUFFICES ASSUME NEW p \in Tasks, NEW u \in Tasks, In(u, wait_queue[wait_of(p)])
                 PROVE  EndsWait(p, u)
      BY DEF EndsWait
    <3>1. QED
      BY <1>2, <2>1, StillWaits DEF Exists
  <2>3. QED
    BY <1>2, <2>1, <2>2 DEF StepKeepsPromises
<1>3. ASSUME NEW t \in Tasks \ Clock, NEW p \in Tasks, Unwatched(p), do_spawn(t, p)
      PROVE  TableInv' /\ StepKeepsPromises
  <2>1. \A u \in Tasks : status'[u] = IF u = p THEN "FIRST_TIME" ELSE status[u]
    BY <1>0, <1>3 DEF do_spawn, SchedTypeOK
  <2>2. TableInv' /\ wait_queue' = wait_queue
    BY <1>3, SpawnStep
  <2>3. \A k, u \in Tasks : EndsWait(k, u)
    <3> SUFFICES ASSUME NEW k \in Tasks, NEW u \in Tasks, In(u, wait_queue[wait_of(k)])
                 PROVE  EndsWait(k, u)
      BY DEF EndsWait
    <3>1. QED
      BY <2>1, <2>2, StillWaits DEF Exists
  <2>4. QED
    BY <1>3, <2>1, <2>2, <2>3 DEF StepKeepsPromises
<1>4. ASSUME NEW t \in Tasks \ Clock, NEW p \in Tasks \ {t}, do_wait(t, p)
      PROVE  TableInv' /\ StepKeepsPromises
  <2>1. Inv' /\ BootInv'
    BY <1>1, <1>4, PlainStep
  <2>2. /\ current_running = t /\ status[t] \in Runnable
        /\ block(wait_of(p))
    BY <1>0, <1>4, RunningIsNowhere DEF do_wait, Running
  <2>3. \A u \in Tasks : status'[u] = "EXITED" <=> status[u] = "EXITED"
    BY <1>0, <2>2 DEF block, SchedTypeOK, Runnable
  <2>4. /\ \A u \in Tasks \ {p} : wait_queue'[wait_of(u)] = wait_queue[wait_of(u)]
        /\ wait_queue'[wait_of(p)] = Append(wait_queue[wait_of(p)], t)
    BY <1>0, <2>2, WaitQueues DEF block, SchedTypeOK
  <2>5. \A u : In(u, wait_queue'[wait_of(p)]) <=> In(u, wait_queue[wait_of(p)]) \/ u = t
    <3>1. wait_queue[wait_of(p)] \in Seq(Tasks)
      BY <1>0, WaitQueues DEF SchedTypeOK
    <3>2. QED
      BY <2>4, <3>1, EnqueueLemma
  <2>6. TableInv'
    BY <1>0, <1>4, <2>1, <2>4, <2>5 DEF TableInv, WaitsAreForOthers
  <2>7. \A k, u \in Tasks : EndsWait(k, u)
    <3> SUFFICES ASSUME NEW k \in Tasks, NEW u \in Tasks, In(u, wait_queue[wait_of(k)])
                 PROVE  EndsWait(k, u)
      BY DEF EndsWait
    <3>1. In(u, wait_queue'[wait_of(k)])
      BY <2>4, <2>5
    <3>2. QED
      BY <2>3, <2>6, <3>1, StillWaits DEF Exists
  <2>8. QED
    BY <2>3, <2>6, <2>7 DEF StepKeepsPromises
<1>5. ASSUME NEW t \in Tasks \ Clock, Kill(t)
      PROVE  TableInv' /\ StepKeepsPromises
  <2>1. PICK p \in Tasks : Exists(p) /\ do_kill(t, p)
    BY <1>5 DEF Kill
  <2>2. /\ TableInv' /\ status'[p] = "EXITED"
        /\ \A u : In(u, wait_queue[wait_of(p)]) => In(u, ready_queue')
        /\ \A u \in Tasks \ {p} : status'[u] = "EXITED" <=> status[u] = "EXITED"
        /\ \A q \in Queues \ {wait_of(p)} : \A u \in Tasks \ {p} :
              In(u, wait_queue'[q]) <=> In(u, wait_queue[q])
    BY <2>1, KillStep
  <2>3. Exists(p) /\ ~Running(p)
    BY <2>1 DEF do_kill, Running
  <2>4. \A k, u \in Tasks : EndsWait(k, u)
    <3> SUFFICES ASSUME NEW k \in Tasks, NEW u \in Tasks, In(u, wait_queue[wait_of(k)]),
                        status'[u] # "EXITED"
                 PROVE  EndsWait(k, u)
      BY DEF EndsWait
    <3>1. CASE k = p
      BY <2>2, <2>3, <3>1 DEF EndsWait
    <3>2. CASE k # p
      <4>1. wait_of(k) \in Queues \ {wait_of(p)} /\ u # p
        BY <2>2, <3>2, WaitQueues
      <4>2. In(u, wait_queue'[wait_of(k)])
        BY <2>2, <4>1
      <4>3. QED
        BY <2>2, <3>2, <4>2, StillWaits DEF Exists
    <3>3. QED
      BY <3>1, <3>2
  <2>5. QED
    BY <2>2, <2>4 DEF StepKeepsPromises
<1>6. ASSUME NEW t \in Tasks \ Clock, Exit(t)
      PROVE  TableInv' /\ StepKeepsPromises
  <2>1. do_exit(t) /\ Running(t)
    BY <1>6 DEF Exit, do_exit
  <2>2. Inv' /\ BootInv'
    BY <1>1, <2>1, PlainStep
  <2>3. /\ wait_queue' = wait_queue
        /\ \A u \in Tasks : status'[u] = IF u = t THEN "EXITED" ELSE status[u]
    BY <1>0, <2>1 DEF do_exit, SchedTypeOK
  <2>4. TableInv'
    BY <1>0, <2>2, <2>3 DEF TableInv, WaitsAreForOthers
  <2>5. \A k, u \in Tasks : EndsWait(k, u)
    <3> SUFFICES ASSUME NEW k \in Tasks, NEW u \in Tasks, In(u, wait_queue[wait_of(k)])
                 PROVE  EndsWait(k, u)
      BY DEF EndsWait
    <3>1. QED
      BY <2>1, <2>3, <2>4, StillWaits DEF Exists
  <2>6. QED
    BY <2>3, <2>4, <2>5 DEF StepKeepsPromises
<1>7. CASE System \/ (\E t \in Tasks \ Clock : QuietCall(t)) \/ UNCHANGED vars
  BY <1>1, <1>2, <1>7, PlainStep, QuietStep
<1>8. QED
  BY <1>3, <1>4, <1>5, <1>6, <1>7 DEF ProcessNext, LifeCall, QuietCall

(* The table starts with the first tasks in the ready queue.               *)
LEMMA TableInitHolds == SyncInit => TableInv
<1> SUFFICES ASSUME SyncInit PROVE TableInv
  OBVIOUS
<1>1. SchedInit /\ SchedTypeOK /\ BootInv
  BY OrderAssumption, EmptySeq DEF SyncInit, SchedInit, SchedTypeOK, BootInv, Status
<1>2. EachTaskInOnePlace
  BY <1>1, InitPlaces
<1>3. WaitsAreForOthers
  <2>1. \A p \in Tasks : wait_queue[wait_of(p)] = <<>>
    BY <1>1, WaitQueues DEF SchedInit
  <2>2. QED
    BY <2>1 DEF WaitsAreForOthers, In
<1>4. QED
  BY <1>1, <1>2, <1>3 DEF TableInv, Inv

-----------------------------------------------------------------------------
(* No task is lost, queued twice or run while it waits, although tasks are *)
(* killed wherever they are and their slots taken again.                   *)
THEOREM TableKeepsPlaces == ProcessSpec => []EachTaskInOnePlace
<1>1. TableInv => EachTaskInOnePlace
  BY DEF TableInv, Inv
<1>2. QED
  BY TableInitHolds, TableStep, <1>1, PTL DEF ProcessSpec

(* A task that waits for another is ready again in the step that kills the *)
(* other, and in no other, whatever the state of both.                     *)
THEOREM KillBringsWaitersBack == ProcessSpec => KillEndsWait
<1>1. TableInv /\ [ProcessNext]_vars =>
        \A p, t \in Tasks :
           In(t, wait_queue[wait_of(p)]) /\ status'[t] # "EXITED"
           => (In(t, ready_queue') <=> Exists(p) /\ status'[p] = "EXITED" /\ ~Running(p))
  BY TableStep DEF StepKeepsPromises, EndsWait
<1>2. QED
  BY TableInitHolds, TableStep, <1>1, PTL DEF ProcessSpec, KillEndsWait

(* Nothing but spawn() brings a dead task's slot to life.                  *)
THEOREM OnlySpawnRevives == ProcessSpec => DeadStayDead
<1>1. TableInv /\ [ProcessNext]_vars =>
        \A p \in Tasks :
           status[p] = "EXITED" /\ status'[p] # "EXITED" => \E t \in Tasks : do_spawn(t, p)
  BY TableStep DEF StepKeepsPromises
<1>2. QED
  BY TableInitHolds, TableStep, <1>1, PTL DEF ProcessSpec, DeadStayDead

-----------------------------------------------------------------------------
(***************************************************************************)
(* The death of tasks, holders among them, can leave a lock LOCKED for     *)
(* ever, but never lets two tasks in, nor leaves somebody waiting at an    *)
(* open lock.                                                              *)
(***************************************************************************)
TableLocksInv ==
    /\ ObjectTypeOK
    /\ \A l \in Plain : LockInv(l)
    /\ \A l \in Locks : OpenInv(l)

(* With the types and places of the table this is the invariant of Sync.   *)
LEMMA TableHasSyncInv ==
    ASSUME TableInv, TableLocksInv
    PROVE  SyncInv
BY DEF TableInv, Inv, TableLocksInv, SyncInv, SyncTypeOK, ObjectTypeOK

(* do_spawn(), do_wait() and do_exit() concern no lock that a task other   *)
(* than the caller has asked for.                                          *)
LEMMA LifeKeepsLocks ==
    ASSUME TableInv, TableLocksInv, NEW t \in Tasks, NEW p \in Tasks,
           do_spawn(t, p) \/ do_wait(t, p) \/ Exit(t)
    PROVE  TableLocksInv'
<1>1. /\ UNCHANGED <<lock_status, sem_value, current_members>>
      /\ acquiring' = acquiring \/ acquiring' = [acquiring EXCEPT ![t] = {}]
      /\ Running(t) /\ SchedTypeOK /\ wait_of(p) \in Queues
  BY WaitQueues DEF do_spawn, do_wait, block, Exit, do_exit, syncVars, TableInv, Inv
<1>2. ASSUME NEW l \in Locks
      PROVE  wait_queue'[l] = wait_queue[l]
  BY <1>1, <1>2, WaitQueues DEF do_spawn, do_wait, block, Exit, do_exit, SchedTypeOK
<1>3. ASSUME NEW l \in Plain
      PROVE  LockInv(l)'
  <2>1. LockInv(l) /\ l \in Locks /\ l \in Queues
    BY QueuesAssumption DEF TableLocksInv, Plain
  <2>2. \A u \in Tasks : l \in acquiring'[u] => l \in acquiring[u]
    BY <1>1 DEF TableLocksInv, ObjectTypeOK
  <2>3. ~In(t, wait_queue[l])
    BY <1>1, <2>1, RunningIsNowhere DEF TableInv
  <2>4. \A u \in Tasks : In(u, wait_queue[l]) => l \in acquiring'[u]
    BY <1>1, <2>1, <2>3 DEF LockInv, TableLocksInv, ObjectTypeOK
  <2>5. QED
    BY <1>1, <1>2, <2>1, <2>2, <2>4 DEF LockInv, Has
<1>4. \A l \in Locks : OpenInv(l)'
  BY <1>1, <1>2 DEF TableLocksInv, OpenInv
<1>5. QED
  BY <1>1, <1>3, <1>4 DEF TableLocksInv, ObjectTypeOK

(* do_kill() gives nobody a lock.                                          *)
LEMMA KillKeepsLocks ==
    ASSUME TableInv, TableLocksInv, NEW t \in Tasks, NEW p \in Tasks, do_kill(t, p)
    PROVE  TableLocksInv'
<1>1. /\ UNCHANGED <<lock_status, sem_value, current_members>>
      /\ acquiring' = [acquiring EXCEPT ![p] = {}]
  BY DEF do_kill
<1>2. ObjectTypeOK'
  BY <1>1 DEF TableLocksInv, ObjectTypeOK
<1>3. ASSUME NEW l \in Locks
      PROVE  /\ wait_queue'[l] = unlinked(p, wait_queue[l])
             /\ \A u : In(u, wait_queue'[l]) <=> In(u, wait_queue[l]) /\ u # p
  <2>1. l \in Queues /\ l # wait_of(p)
    BY <1>3, WaitQueues
  <2>2. wait_queue[l] \in Seq(Tasks) /\ NoDup(wait_queue[l])
    BY <2>1 DEF TableInv, Inv, SchedTypeOK, EachTaskInOnePlace, QueuesAreSets
  <2>3. wait_queue'[l] = unlinked(p, wait_queue[l])
    BY <2>1 DEF do_kill
  <2>4. QED
    BY <2>2, <2>3, UnlinkedLemma
<1>4. ASSUME NEW l \in Plain
      PROVE  LockInv(l)'
  <2>1. LockInv(l) /\ l \in Locks
    BY <1>4 DEF TableLocksInv, Plain
  <2>2. \A u \in Tasks : l \in acquiring'[u] <=> l \in acquiring[u] /\ u # p
    BY <1>1 DEF TableLocksInv, ObjectTypeOK
  <2>3. \A u : In(u, wait_queue'[l]) <=> In(u, wait_queue[l]) /\ u # p
    BY <1>3, <2>1
  <2>4. QED
    BY <1>1, <2>1, <2>2, <2>3 DEF LockInv, Has
<1>5. ASSUME NEW l \in Locks
      PROVE  OpenInv(l)'
  <2>1. wait_queue[l] = <<>> => wait_queue'[l] = <<>>
    BY <1>3, <1>5 DEF unlinked, In
  <2>2. QED
    BY <1>1, <1>5, <2>1 DEF TableLocksInv, OpenInv
<1>6. QED
  BY <1>2, <1>4, <1>5 DEF TableLocksInv

(* Every step keeps the invariant of the locks.                            *)
LEMMA TableLocksStep ==
    ASSUME TableInv, TableLocksInv, [ProcessNext]_vars
    PROVE  TableLocksInv'
<1>1. ASSUME [SyncNext]_vars
      PROVE  TableLocksInv'
  <2>1. SyncInv
    BY TableHasSyncInv
  <2>2. \A l \in Locks : OpenInv(l)'
    BY <1>1, <2>1, OpenStep DEF TableLocksInv, SyncInv
  <2>3. QED
    BY <1>1, <2>1, <2>2, LockStep, ObjectTypeStep DEF TableLocksInv
<1>2. ASSUME System
      PROVE  [SyncNext]_vars
  BY <1>2, ClockAssumption, ThreadsAssumption DEF System, SyncNext, SchedStep
<1>3. ASSUME NEW t \in Tasks \ Clock, QuietCall(t)
      PROVE  [SyncNext]_vars
  BY <1>3 DEF QuietCall, SyncNext, SchedStep, SchedCall, SyncCall
<1>4. ASSUME NEW t \in Tasks \ Clock,
             Kill(t) \/ Exit(t) \/ \E p \in Tasks : do_spawn(t, p) \/ do_wait(t, p)
      PROVE  TableLocksInv'
  BY <1>4, LifeKeepsLocks, KillKeepsLocks DEF Kill
<1>5. QED
  BY <1>1, <1>2, <1>3, <1>4 DEF ProcessNext, LifeCall, QuietCall

(* No two tasks hold a lock, and nobody waits at an open one or has it,    *)
(* wherever tasks are killed or exit: holding it, waiting for it, woken    *)
(* and not yet run; and although their slots are taken again.              *)
THEOREM TableKeepsLocks == ProcessSpec => [](MutualExclusion /\ LockOpenInv)
<1>1. SyncInit => TableLocksInv
  BY SemInitAssumption, MembersAssumption, QueuesAssumption, LocksStartFree
     DEF TableLocksInv, ObjectTypeOK, OpenInv, SyncInit, SchedInit
<1>2. TableLocksInv => MutualExclusion /\ LockOpenInv
  BY PlainHolds
     DEF TableLocksInv, LockInv, OpenInv, MutualExclusion, LockOpenInv, Plain
<1>3. QED
  BY <1>1, <1>2, TableInitHolds, TableStep, TableLocksStep, PTL DEF ProcessSpec
=============================================================================
