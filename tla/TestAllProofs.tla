----------------------------- MODULE TestAllProofs -----------------------------
(***************************************************************************)
(* The ASSERTs of the tests hold beside each other: neighbours never eat   *)
(* together, for any number of philosophers, and no thread of the barrier  *)
(* test, however many there are, leaves a round before all have met.       *)
(***************************************************************************)
EXTENDS TestAll, SyncProofs

(* The threads of the tests are kernel threads, not the clock.             *)
LEMMA Clients ==
    /\ BarrierThreads \subseteq Tasks \ Clock
    /\ Mon!Workers \subseteq Tasks \ Clock
    /\ \A id \in Phil!Ids : phil[id] \in Tasks \ Clock
BY TestAllAssumption, ThreadsAssumption
   DEF Barrier!BarrierTestConstants, Mon!MonitorConstants, Phil!PhilosophersConstants

-----------------------------------------------------------------------------
(***************************************************************************)
(* What the image does to the kernel.                                      *)
(***************************************************************************)
\* A call on a synchronisation object by the running task, under no rules.
ObjectCall(t) ==
    /\ Running(t)
    /\ \/ \E m \in Locks : lock_acquire(t, m) \/ lock_release(t, m)
       \/ \E m \in Locks, c \in Conditions : condition_wait(m, c)
       \/ \E c \in Conditions : condition_signal(c) \/ condition_broadcast(c)
       \/ \E s \in Semaphores : semaphore_up(s) \/ semaphore_down(s)
       \/ \E bar \in Barriers : barrier_wait(bar)

KernelStep == SchedStep \/ (\E t \in Tasks \ Clock : ObjectCall(t)) \/ UNCHANGED vars

(* The operations each test is written with are those of Sync.             *)
LEMMA BarrierOps ==
    /\ \A t : Barrier!do_yield(t) <=> do_yield(t)
    /\ \A t : Barrier!do_exit(t) <=> do_exit(t)
    /\ \A t, d : Barrier!do_sleep(t, d) <=> do_sleep(t, d)
    /\ \A bar : Barrier!barrier_wait(bar) <=> barrier_wait(bar)
    /\ \A t : Barrier!Running(t) <=> Running(t)
    /\ (UNCHANGED Barrier!syncVars) <=> UNCHANGED syncVars
    /\ (UNCHANGED Barrier!vars) <=> UNCHANGED vars
BY DEF Barrier!do_yield, Barrier!do_exit, Barrier!do_sleep, Barrier!barrier_wait,
       Barrier!Running, Barrier!syncVars, Barrier!vars, Barrier!schedVars,
       Barrier!unblock_all, Barrier!unblock_one, Barrier!unblock_head, Barrier!block,
       do_yield, do_exit, do_sleep, barrier_wait, Running, syncVars, vars, schedVars,
       unblock_all, unblock_one, unblock_head, block

LEMMA PhilOps ==
    /\ \A t : Phil!do_yield(t) <=> do_yield(t)
    /\ \A t, d : Phil!do_sleep(t, d) <=> do_sleep(t, d)
    /\ \A s : Phil!semaphore_up(s) <=> semaphore_up(s)
    /\ \A s : Phil!semaphore_down(s) <=> semaphore_down(s)
    /\ \A t : Phil!Running(t) <=> Running(t)
    /\ (UNCHANGED Phil!syncVars) <=> UNCHANGED syncVars
    /\ (UNCHANGED Phil!vars) <=> UNCHANGED vars
BY DEF Phil!do_yield, Phil!do_sleep, Phil!semaphore_up, Phil!semaphore_down,
       Phil!Running, Phil!syncVars, Phil!vars, Phil!schedVars,
       Phil!unblock_one, Phil!unblock_head, Phil!block,
       do_yield, do_sleep, semaphore_up, semaphore_down, Running, syncVars, vars, schedVars,
       unblock_one, unblock_head, block

LEMMA MonOps ==
    /\ \A t : Mon!do_yield(t) <=> do_yield(t)
    /\ \A t : Mon!do_exit(t) <=> do_exit(t)
    /\ \A t, m : Mon!lock_acquire(t, m) <=> lock_acquire(t, m)
    /\ \A t, m : Mon!lock_release(t, m) <=> lock_release(t, m)
    /\ \A m, c : Mon!condition_wait(m, c) <=> condition_wait(m, c)
    /\ \A c : Mon!condition_signal(c) <=> condition_signal(c)
    /\ \A c : Mon!condition_broadcast(c) <=> condition_broadcast(c)
    /\ \A t : Mon!Running(t) <=> Running(t)
    /\ (UNCHANGED Mon!syncVars) <=> UNCHANGED syncVars
    /\ (UNCHANGED Mon!vars) <=> UNCHANGED vars
BY DEF Mon!do_yield, Mon!do_exit, Mon!lock_acquire, Mon!lock_release, Mon!condition_wait,
       Mon!condition_signal, Mon!condition_broadcast, Mon!released_status,
       Mon!Running, Mon!syncVars, Mon!vars, Mon!schedVars, Mon!unblock_one_and_block,
       Mon!unblock_all, Mon!unblock_one, Mon!unblock_head, Mon!block,
       do_yield, do_exit, lock_acquire, lock_release, condition_wait,
       condition_signal, condition_broadcast, released_status,
       Running, syncVars, vars, schedVars, unblock_one_and_block,
       unblock_all, unblock_one, unblock_head, block
(* Each test does to the kernel what its operations do.                    *)
LEMMA BarrierThreadCalls ==
    ASSUME NEW t \in BarrierThreads, barrier_step(t)
    PROVE  KernelStep
<1>0. t \in Tasks \ Clock /\ TheBarrier \in Barriers /\ SleepTicks \subseteq Delays
  BY Clients, TestAllAssumption DEF Barrier!BarrierTestConstants
<1>1. CASE UNCHANGED vars
  BY <1>1 DEF KernelStep
<1>2. CASE Running(t) /\ barrier_wait(TheBarrier)
  BY <1>0, <1>2 DEF KernelStep, ObjectCall
<1>3. CASE UNCHANGED syncVars /\ (do_yield(t) \/ do_exit(t) \/ \E d \in Delays : do_sleep(t, d))
  BY <1>0, <1>3 DEF KernelStep, SchedStep, SchedCall
<1>4. QED
  BY <1>0, <1>1, <1>2, <1>3, BarrierOps
     DEF barrier_step, Barrier!barrier_thread, Barrier!initialize, Barrier!await_init,
         Barrier!arrive, Barrier!sleep, Barrier!leave, Barrier!finish, Barrier!Goto

LEMMA WorkerCalls ==
    ASSUME NEW t \in Mon!Workers, monitor_step(t)
    PROVE  KernelStep
<1>0. t \in Tasks \ Clock /\ l \in Locks /\ c0mod3 \in Conditions /\ cnot0mod3 \in Conditions
  BY Clients, TestAllAssumption DEF Mon!MonitorConstants
<1>1. CASE UNCHANGED vars
  BY <1>1 DEF KernelStep
<1>2. ASSUME Running(t), NEW c \in Conditions,
             \/ lock_acquire(t, l) \/ lock_release(t, l) \/ condition_wait(l, c)
             \/ condition_signal(c) \/ condition_broadcast(c)
      PROVE  KernelStep
  BY <1>0, <1>2 DEF KernelStep, ObjectCall
<1>3. CASE UNCHANGED syncVars /\ (do_yield(t) \/ do_exit(t))
  BY <1>0, <1>3 DEF KernelStep, SchedStep, SchedCall
<1>4. Mon!own_condition(t) \in Conditions /\ Mon!other_condition(t) \in Conditions
  BY <1>0 DEF Mon!own_condition, Mon!other_condition
<1>5. QED
  BY <1>0, <1>1, <1>2, <1>3, <1>4, MonOps
     DEF monitor_step, Mon!worker, Mon!initialize, Mon!await_init, Mon!enter, Mon!wait,
         Mon!read, Mon!add, Mon!leave, Mon!enter_last, Mon!count, Mon!exit, Mon!Goto

\* The semaphores are the forks.
ForkSemaphores == {fork[id] : id \in Phil!Ids}

LEMMA PhilConstants ==
    /\ NUM_PHILOSOPHERS \in Nat \ {0, 1}
    /\ \A id, jd \in Phil!Ids : phil[id] = phil[jd] => id = jd
    /\ \A id, jd \in Phil!Ids : fork[id] = fork[jd] => id = jd
    /\ \A id \in Phil!Ids : fork[id] \in Semaphores /\ SemInit[fork[id]] = 1
    /\ ThinkTicks \subseteq Delays /\ EatTicks \subseteq Delays
BY TestAllAssumption DEF Phil!PhilosophersConstants

(* A philosopher takes two different forks of the table.                   *)
LEMMA TwoForks ==
    ASSUME NEW id \in Phil!Ids
    PROVE  /\ Phil!forks_of(id)[1] \in ForkSemaphores
           /\ Phil!forks_of(id)[2] \in ForkSemaphores
           /\ Phil!forks_of(id)[1] # Phil!forks_of(id)[2]
           /\ ForkSemaphores \subseteq Semaphores
<1>1. CASE id = 0
  <2>1. 0 \in Phil!Ids /\ NUM_PHILOSOPHERS - 1 \in Phil!Ids /\ NUM_PHILOSOPHERS - 1 # 0
    BY PhilConstants DEF Phil!Ids
  <2>2. Phil!forks_of(id) = <<fork[0], fork[NUM_PHILOSOPHERS - 1]>>
    BY <1>1 DEF Phil!forks_of
  <2>3. QED
    BY <2>1, <2>2, PhilConstants DEF ForkSemaphores
<1>2. CASE id # 0
  <2>1. id - 1 \in Phil!Ids /\ id - 1 # id
    BY <1>2, PhilConstants DEF Phil!Ids
  <2>2. Phil!forks_of(id) = <<fork[id - 1], fork[id]>>
    BY <1>2 DEF Phil!forks_of
  <2>3. QED
    BY <2>1, <2>2, PhilConstants DEF ForkSemaphores
<1>3. QED
  BY <1>1, <1>2

LEMMA PhilosopherCalls ==
    ASSUME NEW id \in Phil!Ids, philosopher_step(id)
    PROVE  KernelStep
<1> DEFINE t == phil[id]
<1>0. t \in Tasks \ Clock /\ ThinkTicks \subseteq Delays /\ EatTicks \subseteq Delays
  BY Clients, PhilConstants
<1>1. CASE UNCHANGED vars
  BY <1>1 DEF KernelStep
<1>2. ASSUME Running(t), NEW s \in Semaphores, semaphore_up(s) \/ semaphore_down(s)
      PROVE  KernelStep
  BY <1>0, <1>2 DEF KernelStep, ObjectCall
<1>3. CASE UNCHANGED syncVars /\ (do_yield(t) \/ \E d \in Delays : do_sleep(t, d))
  BY <1>0, <1>3 DEF KernelStep, SchedStep, SchedCall
<1>4. Phil!forks_of(id)[1] \in Semaphores /\ Phil!forks_of(id)[2] \in Semaphores
  BY TwoForks
<1>5. QED
  BY <1>0, <1>1, <1>2, <1>3, <1>4, PhilOps
     DEF philosopher_step, Phil!philosopher, Phil!initialize, Phil!await_init, Phil!think,
         Phil!take_first, Phil!take_second, Phil!eat, Phil!put_first, Phil!put_second, Phil!Goto

(* So does every step of the image.                                        *)
LEMMA ImageStep ==
    ASSUME [Next]_allVars
    PROVE  KernelStep
<1>1. CASE System
  BY <1>1, ClockAssumption, ThreadsAssumption DEF System, KernelStep, SchedStep
<1>2. CASE UNCHANGED allVars
  BY <1>2 DEF allVars, KernelStep
<1>3. QED
  BY <1>1, <1>2, BarrierThreadCalls, WorkerCalls, PhilosopherCalls DEF Next

(* Whatever is called, the scheduler makes one of its steps.               *)
LEMMA KernelIsScheduler ==
    ASSUME KernelStep
    PROVE  [SchedNext]_schedVars
<1>1. CASE SchedStep
  BY <1>1 DEF SchedStep, SchedNext
<1>2. CASE UNCHANGED vars
  BY <1>2 DEF vars
<1>3. ASSUME NEW t \in Tasks \ Clock, ObjectCall(t)
      PROVE  [SchedNext]_schedVars
  <2>0. Running(t)
    BY <1>3 DEF ObjectCall
  <2>1. ASSUME NEW q \in Queues, block(q) \/ unblock_one(q)
        PROVE  [SchedNext]_schedVars
    BY <2>0, <2>1 DEF unblock_one, WaitQueueCall, SchedNext
  <2>2. ASSUME NEW m \in Queues, NEW c \in Queues, unblock_one_and_block(m, c)
        PROVE  SchedNext
    BY <2>0, <2>2 DEF WaitQueueCall, SchedNext
  <2>3. QED
    BY <1>3, <2>1, <2>2, QueuesAssumption
       DEF ObjectCall, lock_acquire, lock_release, condition_wait, condition_signal,
           condition_broadcast, semaphore_up, semaphore_down, barrier_wait, unblock_all
<1>4. QED
  BY <1>1, <1>2, <1>3 DEF KernelStep

(* barrier_wait() keeps current_members below max_members.                 *)
LEMMA BarrierTypeStep ==
    ASSUME ObjectTypeOK, NEW bar \in Barriers, barrier_wait(bar)
    PROVE  ObjectTypeOK'
BY MembersAssumption DEF ObjectTypeOK, barrier_wait

(* and the objects keep their types.                                       *)
LEMMA KernelTypes ==
    ASSUME ObjectTypeOK, KernelStep
    PROVE  ObjectTypeOK'
<1>1. CASE SchedStep \/ UNCHANGED vars
  BY <1>1 DEF SchedStep, vars, syncVars, ObjectTypeOK
<1>2. ASSUME NEW t \in Tasks \ Clock, ObjectCall(t)
      PROVE  ObjectTypeOK'
  <2>1. ASSUME NEW m \in Locks, lock_acquire(t, m) \/ lock_release(t, m)
        PROVE  ObjectTypeOK'
    <3>1. UNCHANGED <<sem_value, current_members>>
      BY <2>1 DEF lock_acquire, lock_release
    <3>2. lock_status' \in [Locks -> {"LOCKED", "UNLOCKED"}] /\ acquiring' \in [Tasks -> SUBSET Locks]
      BY <2>1 DEF ObjectTypeOK, lock_acquire, lock_release, released_status
    <3>3. QED
      BY <3>1, <3>2 DEF ObjectTypeOK
  <2>2. ASSUME NEW m \in Locks, NEW c \in Conditions, condition_wait(m, c)
        PROVE  ObjectTypeOK'
    BY <2>2 DEF ObjectTypeOK, condition_wait, released_status
  <2>3. ASSUME NEW c \in Conditions, condition_signal(c) \/ condition_broadcast(c)
        PROVE  ObjectTypeOK'
    BY <2>3 DEF ObjectTypeOK, condition_signal, condition_broadcast, syncVars
  <2>4. ASSUME NEW s \in Semaphores, semaphore_up(s) \/ semaphore_down(s)
        PROVE  ObjectTypeOK'
    BY <2>4 DEF ObjectTypeOK, semaphore_up, semaphore_down
  <2>5. ASSUME NEW bar \in Barriers, barrier_wait(bar)
        PROVE  ObjectTypeOK'
    BY <2>5, BarrierTypeStep
  <2>6. QED
    BY <1>2, <2>1, <2>2, <2>3, <2>4, <2>5 DEF ObjectCall
<1>3. QED
  BY <1>1, <1>2 DEF KernelStep

(* The image keeps the types and the places of Scheduler and Sync, although *)
(* its monitor breaks the rules of SyncCall (it releases a lock it lost in *)
(* condition_wait()).                                                      *)
THEOREM ImageKeepsTasks == Spec => [](SyncTypeOK /\ EachTaskInOnePlace)
<1>1. Init => SchedInit /\ ObjectTypeOK
  <2>1. Init => Phil!SyncInit
    BY DEF Init, Phil!Init
  <2>2. Phil!SyncInit => SyncInit
    BY DEF Phil!SyncInit, Phil!SchedInit, SyncInit, SchedInit, Phil!In, In
  <2>3. SyncInit => SchedInit /\ ObjectTypeOK
    BY SemInitAssumption, MembersAssumption DEF SyncInit, ObjectTypeOK
  <2>4. QED
    BY <2>1, <2>2, <2>3
<1>2. [Next]_allVars => [SchedNext]_schedVars
  BY ImageStep, KernelIsScheduler
<1>3. ObjectTypeOK /\ [Next]_allVars => ObjectTypeOK'
  BY ImageStep, KernelTypes
<1>4. Spec => SchedSpec
  BY <1>1, <1>2, PTL DEF Spec, SchedSpec
<1>5. Spec => []ObjectTypeOK
  BY <1>1, <1>3, PTL DEF Spec
<1>6. SchedTypeOK /\ ObjectTypeOK => SyncTypeOK
  BY DEF SyncTypeOK, ObjectTypeOK
<1>7. QED
  BY <1>4, <1>5, <1>6, SchedTypeCorrect, TasksKeepTheirPlace, PTL
-----------------------------------------------------------------------------
(***************************************************************************)
(* The philosophers.  A fork is like a lock: who has asked for it and does *)
(* not wait has it, at most one does, and its semaphore is 1 only while    *)
(* nobody has asked.                                                       *)
(***************************************************************************)
\* Philosopher id is between semaphore_down() and semaphore_up() of s.
Asked(id, s) ==
    \/ s = Phil!forks_of(id)[1] /\ phil_pc[id] \in {"one_fork", "two_forks", "ate"}
    \/ s = Phil!forks_of(id)[2] /\ phil_pc[id] \in {"two_forks", "ate", "put_one"}

\* The last thing id did was semaphore_down(s).
AsksFor(id, s) ==
    \/ s = Phil!forks_of(id)[1] /\ phil_pc[id] = "one_fork"
    \/ s = Phil!forks_of(id)[2] /\ phil_pc[id] = "two_forks"

HasFork(id, s) == Asked(id, s) /\ ~In(phil[id], wait_queue[s])

OneHasFork(s) == \A id, jd \in Phil!Ids : HasFork(id, s) /\ HasFork(jd, s) => id = jd

WaitersAsk(s) ==
    \A t \in Tasks : In(t, wait_queue[s]) => \E id \in Phil!Ids : t = phil[id] /\ AsksFor(id, s)

FreeFork(s) == sem_value[s] = 1 => \A id \in Phil!Ids : ~Asked(id, s)

ForkInv(s) ==
    /\ sem_value[s] <= 1
    /\ SemInv(s)
    /\ FreeFork(s)
    /\ WaitersAsk(s)
    /\ OneHasFork(s)

EatersAte ==
    /\ phil_pc \in [Phil!Ids -> {"start", "thinking", "hungry", "one_fork", "two_forks",
                                 "ate", "put_one"}]
    /\ eating \in [Phil!Ids -> BOOLEAN]
    /\ \A id \in Phil!Ids : eating[id] => phil_pc[id] = "ate"

ImageInv == SyncTypeOK /\ EachTaskInOnePlace

(* A running task waits for no object.                                     *)
LEMMA RunningWaitsNowhere ==
    ASSUME ImageInv, NEW t \in Tasks, Running(t), NEW q \in Queues
    PROVE  ~In(t, wait_queue[q])
BY RunningIsNowhere DEF ImageInv, SyncTypeOK, Inv

(* A step that leaves a fork alone, and by which nobody asks for it and    *)
(* who waits for it stays where it is.                                     *)
LEMMA ForkUntouched ==
    ASSUME NEW s \in ForkSemaphores, ForkInv(s),
           wait_queue'[s] = wait_queue[s], sem_value'[s] = sem_value[s],
           \A id \in Phil!Ids : Asked(id, s)' => Asked(id, s),
           \A id \in Phil!Ids : AsksFor(id, s) /\ In(phil[id], wait_queue[s]) => AsksFor(id, s)'
    PROVE  ForkInv(s)'
<1>1. sem_value'[s] <= 1 /\ SemInv(s)'
  BY DEF ForkInv, SemInv
<1>2. FreeFork(s)'
  BY DEF ForkInv, FreeFork
<1>3. WaitersAsk(s)'
  BY DEF ForkInv, WaitersAsk
<1>4. OneHasFork(s)'
  BY DEF ForkInv, OneHasFork, HasFork
<1>5. QED
  BY <1>1, <1>2, <1>3, <1>4 DEF ForkInv

(* The same of a philosopher who goes on, with what he has or less.        *)
LEMMA OtherFork ==
    ASSUME ImageInv, NEW s \in ForkSemaphores, ForkInv(s), NEW id \in Phil!Ids,
           Running(phil[id]),
           wait_queue'[s] = wait_queue[s], sem_value'[s] = sem_value[s],
           Asked(id, s)' => Asked(id, s),
           \A jd \in Phil!Ids \ {id} :
               (Asked(jd, s)' <=> Asked(jd, s)) /\ (AsksFor(jd, s)' <=> AsksFor(jd, s))
    PROVE  ForkInv(s)'
<1>1. phil[id] \in Tasks /\ s \in Queues
  BY Clients, PhilConstants, QueuesAssumption DEF ForkSemaphores
<1>2. ~In(phil[id], wait_queue[s])
  BY <1>1, RunningWaitsNowhere
<1>3. QED
  BY <1>2, ForkUntouched

(* semaphore_down(): a free fork is taken, for another the philosopher     *)
(* waits behind those who wait already.                                    *)
LEMMA TakeStep ==
    ASSUME ImageInv, NEW s \in ForkSemaphores, ForkInv(s), NEW id \in Phil!Ids,
           Running(phil[id]), semaphore_down(s), AsksFor(id, s)',
           \A jd \in Phil!Ids \ {id} :
               (Asked(jd, s)' <=> Asked(jd, s)) /\ (AsksFor(jd, s)' <=> AsksFor(jd, s))
    PROVE  ForkInv(s)'
<1>1. phil[id] \in Tasks /\ s \in Queues /\ s \in Semaphores
  BY Clients, PhilConstants, QueuesAssumption DEF ForkSemaphores
<1>2. SchedTypeOK /\ wait_queue[s] \in Seq(Tasks) /\ sem_value[s] \in Int /\ SyncTypeOK
  BY <1>1 DEF ImageInv, SyncTypeOK, SchedTypeOK
<1>3. SemInv(s)'
  BY <1>1, <1>2, DownStep DEF ForkInv
<1>4. sem_value'[s] = sem_value[s] - 1 /\ sem_value[s] <= 1
  BY <1>1 DEF semaphore_down, ImageInv, SyncTypeOK, ForkInv
<1>5. sem_value'[s] <= 1 /\ FreeFork(s)'
  BY <1>2, <1>4 DEF FreeFork
<1>6. CASE sem_value[s] = 1
  <2>1. wait_queue'[s] = wait_queue[s]
    BY <1>4, <1>6 DEF semaphore_down, schedVars
  <2>2. \A jd \in Phil!Ids : ~Asked(jd, s)
    BY <1>6 DEF ForkInv, FreeFork
  <2>3. WaitersAsk(s)'
    BY <2>1, <1>1, RunningWaitsNowhere DEF WaitersAsk, ForkInv
  <2>4. OneHasFork(s)'
    BY <2>2 DEF OneHasFork, HasFork
  <2>5. QED
    BY <1>3, <1>5, <2>3, <2>4 DEF ForkInv
<1>7. CASE sem_value[s] # 1
  <2>1. block(s)
    BY <1>2, <1>4, <1>7 DEF semaphore_down
  <2>2. wait_queue'[s] = Append(wait_queue[s], phil[id])
    BY <1>1, <1>2, <2>1 DEF block, SchedTypeOK, Running
  <2>3. \A u : In(u, wait_queue'[s]) <=> In(u, wait_queue[s]) \/ u = phil[id]
    BY <1>1, <1>2, <2>2, EnqueueLemma
  <2>4. WaitersAsk(s)'
    BY <2>3 DEF WaitersAsk, ForkInv
  <2>5. OneHasFork(s)'
    BY <2>3 DEF OneHasFork, HasFork, ForkInv
  <2>6. QED
    BY <1>3, <1>5, <2>4, <2>5 DEF ForkInv
<1>8. QED
  BY <1>6, <1>7
(* semaphore_up(): the one who has the fork hands it to the head of the    *)
(* queue, or nobody has asked for it any more.                             *)
LEMMA PutStep ==
    ASSUME ImageInv, NEW s \in ForkSemaphores, ForkInv(s), NEW id \in Phil!Ids,
           Running(phil[id]), semaphore_up(s), Asked(id, s), ~Asked(id, s)',
           \A jd \in Phil!Ids \ {id} :
               (Asked(jd, s)' <=> Asked(jd, s)) /\ (AsksFor(jd, s)' <=> AsksFor(jd, s))
    PROVE  ForkInv(s)'
<1>1. phil[id] \in Tasks /\ s \in Queues /\ s \in Semaphores
  BY Clients, PhilConstants, QueuesAssumption DEF ForkSemaphores
<1>2. SchedTypeOK /\ wait_queue[s] \in Seq(Tasks) /\ sem_value[s] \in Int /\ SyncTypeOK
  BY <1>1 DEF ImageInv, SyncTypeOK, SchedTypeOK
<1>3. SemInv(s)'
  BY <1>1, <1>2, UpStep DEF ForkInv
<1>4. sem_value'[s] = sem_value[s] + 1 /\ sem_value[s] <= 0
  <2>1. sem_value[s] <= 1 /\ sem_value[s] # 1
    BY DEF ForkInv, FreeFork
  <2>2. sem_value'[s] = sem_value[s] + 1
    BY <1>1 DEF semaphore_up, ImageInv, SyncTypeOK
  <2>3. QED
    BY <1>2, <2>1, <2>2
<1>5. HasFork(id, s) /\ \A jd \in Phil!Ids : HasFork(jd, s) => jd = id
  <2>1. ~In(phil[id], wait_queue[s])
    BY <1>1, RunningWaitsNowhere
  <2>2. QED
    BY <2>1 DEF HasFork, ForkInv, OneHasFork
<1>6. wait_queue'[s] = IF wait_queue[s] = <<>> THEN <<>> ELSE Tail(wait_queue[s])
  BY <1>1, <1>2, UnblockOneQueue DEF semaphore_up
<1>7. CASE wait_queue[s] = <<>>
  <2>1. wait_queue'[s] = wait_queue[s]
    BY <1>6, <1>7
  <2>2. \A u \in Tasks : ~In(u, wait_queue[s])
    BY <1>7 DEF In
  <2>3. \A jd \in Phil!Ids : ~Asked(jd, s)'
    BY <1>5, <2>2, Clients DEF HasFork
  <2>4. WaitersAsk(s)' /\ OneHasFork(s)' /\ FreeFork(s)'
    BY <2>1, <2>2, <2>3 DEF WaitersAsk, OneHasFork, FreeFork, HasFork
  <2>5. QED
    BY <1>2, <1>3, <1>4, <2>4 DEF ForkInv
<1>8. CASE wait_queue[s] # <<>>
  <2> DEFINE h == Head(wait_queue[s])
  <2>1. /\ h \in Tasks
        /\ \A u : In(u, wait_queue[s]) <=> In(u, Tail(wait_queue[s])) \/ u = h
    BY <1>2, <1>8, DequeueLemma
  <2>2. \A u : In(u, wait_queue[s]) <=> In(u, wait_queue'[s]) \/ u = h
    BY <1>6, <1>8, <2>1
  <2> HIDE DEF h
  <2>3. WaitersAsk(s)'
    <3> SUFFICES ASSUME NEW t \in Tasks, In(t, wait_queue'[s])
                 PROVE  \E jd \in Phil!Ids : t = phil[jd] /\ AsksFor(jd, s)'
      BY DEF WaitersAsk
    <3>1. PICK jd \in Phil!Ids : t = phil[jd] /\ AsksFor(jd, s)
      BY <2>2 DEF WaitersAsk, ForkInv
    <3>2. jd # id
      BY <2>2, <3>1, <1>5 DEF HasFork
    <3>3. QED
      BY <3>1, <3>2
  <2>4. OneHasFork(s)'
    <3> SUFFICES ASSUME NEW jd \in Phil!Ids, NEW kd \in Phil!Ids,
                        HasFork(jd, s)', HasFork(kd, s)'
                 PROVE  jd = kd
      BY DEF OneHasFork
    <3>1. jd # id /\ kd # id
      BY DEF HasFork
    <3>2. ~HasFork(jd, s) /\ ~HasFork(kd, s) /\ Asked(jd, s) /\ Asked(kd, s)
      BY <1>5, <3>1 DEF HasFork
    <3>3. phil[jd] = h /\ phil[kd] = h
      BY <2>2, <3>2 DEF HasFork
    <3>4. QED
      BY <3>3, PhilConstants
  <2>5. sem_value[s] < 0
    <3>1. Len(wait_queue[s]) # 0
      BY <1>2, <1>8
    <3>2. QED
      BY <1>2, <3>1 DEF ForkInv, SemInv
  <2>6. sem_value'[s] <= 1 /\ FreeFork(s)'
    BY <1>2, <1>4, <2>5 DEF FreeFork
  <2>7. QED
    BY <1>3, <2>3, <2>4, <2>6 DEF ForkInv
<1>9. QED
  BY <1>7, <1>8
-----------------------------------------------------------------------------
(***************************************************************************)
(* Each test uses objects of its own.                                      *)
(***************************************************************************)
LEMMA SystemQueues ==
    ASSUME System \/ UNCHANGED allVars
    PROVE  /\ wait_queue' = wait_queue
           /\ UNCHANGED <<sem_value, current_members>>
           /\ UNCHANGED <<barrier_pc, value>> /\ UNCHANGED <<phil_pc, eating>>
<1>1. CASE System
  <2>1. SchedStep
    BY <1>1, ClockAssumption, ThreadsAssumption DEF System, SchedStep
  <2>2. QED
    BY <1>1, <2>1, SchedStepQueues DEF System, syncVars, barrierVars, philVars
<1>2. CASE UNCHANGED allVars
  BY <1>2 DEF allVars, vars, schedVars, syncVars, barrierVars, philVars
<1>3. QED
  BY <1>1, <1>2

LEMMA BarrierThreadQueues ==
    ASSUME SchedTypeOK, NEW t \in BarrierThreads, barrier_step(t)
    PROVE  /\ \A q \in Queues \ {TheBarrier} : wait_queue'[q] = wait_queue[q]
           /\ UNCHANGED sem_value /\ UNCHANGED <<phil_pc, eating>>
<1>0. TheBarrier \in Queues
  BY TestAllAssumption, QueuesAssumption DEF Barrier!BarrierTestConstants
<1>1. CASE UNCHANGED vars
  BY <1>1 DEF vars, schedVars, syncVars, barrier_step, philVars
<1>2. CASE barrier_wait(TheBarrier)
  BY <1>0, <1>2, QueueUntouched DEF barrier_wait, unblock_all, barrier_step, philVars
<1>3. CASE UNCHANGED syncVars /\ (do_yield(t) \/ do_exit(t) \/ \E d \in Delays : do_sleep(t, d))
  BY <1>3 DEF syncVars, do_yield, do_exit, do_sleep, barrier_step, philVars
<1>4. SleepTicks \subseteq Delays
  BY TestAllAssumption
<1>5. QED
  BY <1>1, <1>2, <1>3, <1>4, BarrierOps
     DEF barrier_step, Barrier!barrier_thread, Barrier!initialize, Barrier!await_init,
         Barrier!arrive, Barrier!sleep, Barrier!leave, Barrier!finish, Barrier!Goto

LEMMA WorkerQueues ==
    ASSUME SchedTypeOK, NEW t \in Mon!Workers, monitor_step(t)
    PROVE  /\ \A q \in Queues \ (Locks \cup Conditions) : wait_queue'[q] = wait_queue[q]
           /\ UNCHANGED <<sem_value, current_members>>
           /\ UNCHANGED <<barrier_pc, value>> /\ UNCHANGED <<phil_pc, eating>>
<1>0. l \in Locks /\ Mon!own_condition(t) \in Conditions /\ Mon!other_condition(t) \in Conditions
  BY TestAllAssumption DEF Mon!MonitorConstants, Mon!own_condition, Mon!other_condition
<1>1. UNCHANGED <<barrier_pc, value>> /\ UNCHANGED <<phil_pc, eating>>
  BY DEF monitor_step, barrierVars, philVars
<1>2. CASE UNCHANGED vars
  BY <1>1, <1>2 DEF vars, schedVars, syncVars
<1>3. ASSUME NEW m \in Locks, NEW c \in Conditions,
             \/ lock_acquire(t, m) \/ lock_release(t, m) \/ condition_wait(m, c)
             \/ condition_signal(c) \/ condition_broadcast(c)
      PROVE  /\ \A q \in Queues \ (Locks \cup Conditions) : wait_queue'[q] = wait_queue[q]
             /\ UNCHANGED <<sem_value, current_members>>
  <2>1. UNCHANGED <<sem_value, current_members>>
    BY <1>3 DEF lock_acquire, lock_release, condition_wait, condition_signal,
       condition_broadcast, syncVars
  <2>2. ASSUME NEW q \in Queues \ (Locks \cup Conditions)
        PROVE  wait_queue'[q] = wait_queue[q]
    <3>1. m \in Queues /\ c \in Queues /\ q # m /\ q # c
      BY <2>2, QueuesAssumption
    <3>2. CASE lock_acquire(t, m) \/ lock_release(t, m)
      BY <3>1, <3>2, QueueUntouched DEF lock_acquire, lock_release, schedVars
    <3>3. CASE condition_wait(m, c)
      BY <3>1, <3>3 DEF condition_wait, unblock_one_and_block, block, SchedTypeOK
    <3>4. CASE condition_signal(c) \/ condition_broadcast(c)
      BY <3>1, <3>4, QueueUntouched DEF condition_signal, condition_broadcast, unblock_all
    <3>5. QED
      BY <1>3, <3>2, <3>3, <3>4
  <2>3. QED
    BY <2>1, <2>2
<1>4. CASE UNCHANGED syncVars /\ (do_yield(t) \/ do_exit(t))
  BY <1>1, <1>4 DEF syncVars, do_yield, do_exit
<1>5. \/ UNCHANGED vars
      \/ \E c \in Conditions :
             \/ lock_acquire(t, l) \/ lock_release(t, l) \/ condition_wait(l, c)
             \/ condition_signal(c) \/ condition_broadcast(c)
      \/ UNCHANGED syncVars /\ (do_yield(t) \/ do_exit(t))
  BY <1>0, MonOps
     DEF monitor_step, Mon!worker, Mon!initialize, Mon!await_init, Mon!enter, Mon!wait,
         Mon!read, Mon!add, Mon!leave, Mon!enter_last, Mon!count, Mon!exit
<1>6. QED
  BY <1>0, <1>1, <1>2, <1>3, <1>4, <1>5

LEMMA PhilosopherQueues ==
    ASSUME SchedTypeOK, NEW id \in Phil!Ids, philosopher_step(id)
    PROVE  /\ \A q \in Queues \ Semaphores : wait_queue'[q] = wait_queue[q]
           /\ UNCHANGED current_members /\ UNCHANGED <<barrier_pc, value>>
<1> DEFINE t == phil[id]
<1>0. UNCHANGED <<barrier_pc, value>>
  BY DEF philosopher_step, barrierVars
<1>1. CASE UNCHANGED vars
  BY <1>0, <1>1 DEF vars, schedVars, syncVars
<1>2. ASSUME NEW s \in Semaphores, semaphore_up(s) \/ semaphore_down(s)
      PROVE  /\ \A q \in Queues \ Semaphores : wait_queue'[q] = wait_queue[q]
             /\ UNCHANGED current_members
  BY <1>2, QueuesAssumption, QueueUntouched DEF semaphore_up, semaphore_down, schedVars
<1>3. CASE UNCHANGED syncVars /\ (do_yield(t) \/ \E d \in Delays : do_sleep(t, d))
  BY <1>0, <1>3 DEF syncVars, do_yield, do_sleep
<1>4. Phil!forks_of(id)[1] \in Semaphores /\ Phil!forks_of(id)[2] \in Semaphores
  BY TwoForks
<1>5. \/ UNCHANGED vars
      \/ \E s \in Semaphores : semaphore_up(s) \/ semaphore_down(s)
      \/ UNCHANGED syncVars /\ (do_yield(t) \/ \E d \in Delays : do_sleep(t, d))
  BY <1>4, PhilOps, PhilConstants
     DEF philosopher_step, Phil!philosopher, Phil!initialize, Phil!await_init, Phil!think,
         Phil!take_first, Phil!take_second, Phil!eat, Phil!put_first, Phil!put_second
<1>6. QED
  BY <1>0, <1>1, <1>2, <1>3, <1>5

-----------------------------------------------------------------------------
(***************************************************************************)
(* The steps of a philosopher.                                             *)
(***************************************************************************)
LEMMA GoesOn ==
    ASSUME EatersAte, NEW id \in Phil!Ids, NEW from, NEW to, Phil!Goto(id, from, to)
    PROVE  /\ Running(phil[id]) /\ phil_pc[id] = from /\ phil_pc'[id] = to
           /\ \A jd \in Phil!Ids \ {id} : phil_pc'[jd] = phil_pc[jd]
           /\ \A s : \A jd \in Phil!Ids \ {id} :
                  (Asked(jd, s)' <=> Asked(jd, s)) /\ (AsksFor(jd, s)' <=> AsksFor(jd, s))
<1>1. /\ Running(phil[id]) /\ phil_pc[id] = from /\ phil_pc'[id] = to
      /\ \A jd \in Phil!Ids \ {id} : phil_pc'[jd] = phil_pc[jd]
  BY PhilOps DEF Phil!Goto, EatersAte
<1>2. QED
  BY <1>1 DEF Asked, AsksFor

(* semaphore_up() and semaphore_down() of one fork leave the others alone. *)
LEMMA OtherForkQueue ==
    ASSUME SyncTypeOK, NEW s \in ForkSemaphores, NEW r \in ForkSemaphores, r # s,
           semaphore_up(r) \/ semaphore_down(r)
    PROVE  wait_queue'[s] = wait_queue[s] /\ sem_value'[s] = sem_value[s]
<1>1. s \in Queues /\ r \in Queues /\ r \in Semaphores /\ s \in Semaphores
  BY PhilConstants, QueuesAssumption DEF ForkSemaphores
<1>2. wait_queue'[s] = wait_queue[s]
  BY <1>1, QueueUntouched DEF semaphore_up, semaphore_down, schedVars, SyncTypeOK
<1>3. sem_value'[s] = sem_value[s]
  BY <1>1 DEF semaphore_up, semaphore_down, SyncTypeOK
<1>4. QED
  BY <1>2, <1>3

LEMMA PhilosopherKeepsForks ==
    ASSUME ImageInv, EatersAte, NEW s \in ForkSemaphores, ForkInv(s),
           NEW id \in Phil!Ids, philosopher_step(id)
    PROVE  ForkInv(s)'
<1> DEFINE first == Phil!forks_of(id)[1]
           second == Phil!forks_of(id)[2]
<1>0. /\ first \in ForkSemaphores /\ second \in ForkSemaphores /\ first # second
      /\ SyncTypeOK
  BY TwoForks DEF ImageInv
<1> HIDE DEF first, second
<1>1. ASSUME wait_queue' = wait_queue, sem_value' = sem_value, NEW from, NEW to,
             Phil!Goto(id, from, to),
             <<from, to>> \in {<<"start", "start">>, <<"start", "thinking">>,
                               <<"thinking", "hungry">>, <<"two_forks", "ate">>}
      PROVE  ForkInv(s)'
  <2>1. Asked(id, s)' => Asked(id, s)
    BY <1>1, GoesOn DEF Asked
  <2>2. QED
    BY <1>1, <2>1, GoesOn, OtherFork
<1>2. CASE Phil!initialize(id)
  BY <1>1, <1>2, PhilOps DEF Phil!initialize, vars, schedVars, syncVars
<1>3. CASE Phil!await_init(id)
  BY <1>1, <1>3, PhilOps DEF Phil!await_init, vars, schedVars, syncVars, do_yield
<1>4. CASE Phil!think(id)
  BY <1>1, <1>4, PhilOps DEF Phil!think, syncVars, do_sleep
<1>5. CASE Phil!eat(id)
  BY <1>1, <1>5, PhilOps DEF Phil!eat, syncVars, do_sleep
<1>6. ASSUME NEW r \in ForkSemaphores, r # s, semaphore_up(r) \/ semaphore_down(r),
             Running(phil[id]), Asked(id, s)' => Asked(id, s),
             \A jd \in Phil!Ids \ {id} :
                 (Asked(jd, s)' <=> Asked(jd, s)) /\ (AsksFor(jd, s)' <=> AsksFor(jd, s))
      PROVE  ForkInv(s)'
  BY <1>0, <1>6, OtherForkQueue, OtherFork
<1>7. CASE Phil!take_first(id)
  <2>1. Phil!Goto(id, "hungry", "one_fork") /\ semaphore_down(first)
    BY <1>7, PhilOps DEF Phil!take_first, first
  <2>2. CASE s = first
    <3>1. AsksFor(id, s)'
      BY <2>1, <2>2, GoesOn DEF AsksFor, first
    <3>2. QED
      BY <2>1, <2>2, <3>1, GoesOn, TakeStep
  <2>3. CASE s # first
    <3>1. ~Asked(id, s)'
      BY <2>1, <2>3, GoesOn DEF Asked, first
    <3>2. QED
      BY <1>0, <1>6, <2>1, <2>3, <3>1, GoesOn
  <2>4. QED
    BY <2>2, <2>3
<1>8. CASE Phil!take_second(id)
  <2>1. Phil!Goto(id, "one_fork", "two_forks") /\ semaphore_down(second)
    BY <1>8, PhilOps DEF Phil!take_second, second
  <2>2. CASE s = second
    <3>1. AsksFor(id, s)'
      BY <2>1, <2>2, GoesOn DEF AsksFor, second
    <3>2. QED
      BY <2>1, <2>2, <3>1, GoesOn, TakeStep
  <2>3. CASE s # second
    <3>1. Asked(id, s)' => Asked(id, s)
      BY <2>1, <2>3, GoesOn DEF Asked, second
    <3>2. QED
      BY <1>0, <1>6, <2>1, <2>3, <3>1, GoesOn
  <2>4. QED
    BY <2>2, <2>3
<1>9. CASE Phil!put_first(id)
  <2>1. Phil!Goto(id, "ate", "put_one") /\ semaphore_up(first)
    BY <1>9, PhilOps DEF Phil!put_first, first
  <2>2. CASE s = first
    <3>1. Asked(id, s) /\ ~Asked(id, s)'
      BY <1>0, <2>1, <2>2, GoesOn DEF Asked, first, second
    <3>2. QED
      BY <2>1, <2>2, <3>1, GoesOn, PutStep
  <2>3. CASE s # first
    <3>1. Asked(id, s)' => Asked(id, s)
      BY <2>1, <2>3, GoesOn DEF Asked, first
    <3>2. QED
      BY <1>0, <1>6, <2>1, <2>3, <3>1, GoesOn
  <2>4. QED
    BY <2>2, <2>3
<1>10. CASE Phil!put_second(id)
  <2>1. Phil!Goto(id, "put_one", "thinking") /\ semaphore_up(second)
    BY <1>10, PhilOps DEF Phil!put_second, second
  <2>2. ~Asked(id, s)'
    BY <2>1, GoesOn DEF Asked
  <2>3. CASE s = second
    <3>1. Asked(id, s)
      BY <2>1, <2>3, GoesOn DEF Asked, second
    <3>2. QED
      BY <2>1, <2>2, <2>3, <3>1, GoesOn, PutStep
  <2>4. CASE s # second
    BY <1>0, <1>6, <2>1, <2>2, <2>4, GoesOn
  <2>5. QED
    BY <2>3, <2>4
<1>11. QED
  BY <1>2, <1>3, <1>4, <1>5, <1>7, <1>8, <1>9, <1>10 DEF philosopher_step, Phil!philosopher
LEMMA EatersStep ==
    ASSUME EatersAte, [Next]_allVars
    PROVE  EatersAte'
<1>1. CASE UNCHANGED philVars
  BY <1>1 DEF philVars, EatersAte
<1>2. ASSUME NEW id \in Phil!Ids, philosopher_step(id)
      PROVE  EatersAte'
  BY <1>2 DEF philosopher_step, Phil!philosopher, Phil!initialize, Phil!await_init, Phil!think,
     Phil!take_first, Phil!take_second, Phil!eat, Phil!put_first, Phil!put_second, Phil!Goto,
     EatersAte
<1>3. QED
  BY <1>1, <1>2 DEF Next, System, barrier_step, monitor_step, allVars

LEMMA ForkStep ==
    ASSUME ImageInv, EatersAte, NEW s \in ForkSemaphores, ForkInv(s), [Next]_allVars
    PROVE  ForkInv(s)'
<1>0. s \in Queues /\ s \notin Locks \cup Conditions \cup Barriers /\ SchedTypeOK /\ SyncTypeOK
  BY PhilConstants, QueuesAssumption, DisjointAssumption
     DEF ForkSemaphores, ImageInv, SyncTypeOK
<1>1. CASE wait_queue'[s] = wait_queue[s] /\ UNCHANGED sem_value /\ UNCHANGED <<phil_pc, eating>>
  BY <1>1, ForkUntouched DEF Asked, AsksFor
<1>2. CASE System \/ UNCHANGED allVars
  BY <1>1, <1>2, SystemQueues
<1>3. ASSUME NEW t \in BarrierThreads, barrier_step(t)
      PROVE  ForkInv(s)'
  <2>1. s # TheBarrier
    BY <1>0, TestAllAssumption DEF Barrier!BarrierTestConstants
  <2>2. QED
    BY <1>0, <1>1, <1>3, <2>1, BarrierThreadQueues
<1>4. ASSUME NEW t \in Mon!Workers, monitor_step(t)
      PROVE  ForkInv(s)'
  BY <1>0, <1>1, <1>4, WorkerQueues
<1>5. ASSUME NEW id \in Phil!Ids, philosopher_step(id)
      PROVE  ForkInv(s)'
  BY <1>5, PhilosopherKeepsForks
<1>6. QED
  BY <1>2, <1>3, <1>4, <1>5 DEF Next

LEMMA ForksStartFree ==
    ASSUME Init
    PROVE  EatersAte /\ \A s \in ForkSemaphores : ForkInv(s)
<1>1. /\ phil_pc = [id \in Phil!Ids |-> "start"] /\ eating = [id \in Phil!Ids |-> FALSE]
      /\ sem_value = SemInit /\ wait_queue = [q \in Queues |-> <<>>]
  BY DEF Init, Phil!Init, Phil!SyncInit, Phil!SchedInit
<1>2. EatersAte
  BY <1>1 DEF EatersAte
<1>3. ASSUME NEW s \in ForkSemaphores
      PROVE  ForkInv(s)
  <2>1. sem_value[s] = 1 /\ wait_queue[s] = <<>>
    BY <1>1, PhilConstants, QueuesAssumption DEF ForkSemaphores
  <2>2. \A id \in Phil!Ids : ~Asked(id, s)
    BY <1>1 DEF Asked
  <2>3. \A t \in Tasks : ~In(t, wait_queue[s])
    BY <2>1 DEF In
  <2>4. SemInv(s)
    BY <2>1 DEF SemInv
  <2>5. FreeFork(s) /\ WaitersAsk(s) /\ OneHasFork(s)
    BY <2>2, <2>3 DEF FreeFork, WaitersAsk, OneHasFork, HasFork
  <2>6. QED
    BY <2>1, <2>4, <2>5 DEF ForkInv
<1>4. QED
  BY <1>2, <1>3

(* Who eats has both forks. *)
LEMMA EaterHasForks ==
    ASSUME EatersAte, \A s \in ForkSemaphores : ForkInv(s),
           NEW id \in Phil!Ids, eating[id]
    PROVE  HasFork(id, Phil!forks_of(id)[1]) /\ HasFork(id, Phil!forks_of(id)[2])
<1>1. phil_pc[id] = "ate"
  BY DEF EatersAte
<1>2. ASSUME NEW s \in ForkSemaphores
      PROVE  ~In(phil[id], wait_queue[s])
  <2>1. \A jd \in Phil!Ids : phil[jd] = phil[id] => ~AsksFor(jd, s)
    BY <1>1, PhilConstants DEF AsksFor
  <2>2. QED
    BY <2>1, Clients DEF ForkInv, WaitersAsk
<1>3. QED
  BY <1>1, <1>2, TwoForks DEF HasFork, Asked

\* The philosopher to the right of id.
Right(id) == IF id = NUM_PHILOSOPHERS - 1 THEN 0 ELSE id + 1

(* A philosopher's second fork is the first of the one to the right, but   *)
(* for the philosopher 0, whose first it is, and the last, whose second    *)
(* fork is the second of philosopher 0.                                    *)
LEMMA SharedFork ==
    ASSUME NEW id \in Phil!Ids
    PROVE  /\ Right(id) \in Phil!Ids /\ Right(id) # id
           /\ \E m, n \in {1, 2} : Phil!forks_of(id)[m] = Phil!forks_of(Right(id))[n]
<1>0. NUM_PHILOSOPHERS \in Nat \ {0, 1} /\ id \in Nat /\ id < NUM_PHILOSOPHERS
  BY PhilConstants DEF Phil!Ids
<1>1. Right(id) \in Phil!Ids /\ Right(id) # id
  BY <1>0 DEF Right, Phil!Ids
<1>2. CASE id = NUM_PHILOSOPHERS - 1
  <2>1. Phil!forks_of(id)[2] = fork[id] /\ Phil!forks_of(Right(id))[2] = fork[id]
    BY <1>0, <1>2 DEF Right, Phil!forks_of
  <2>2. QED
    BY <1>1, <2>1
<1>3. CASE id = 0
  <2>1. Phil!forks_of(id)[1] = fork[id] /\ Phil!forks_of(Right(id))[1] = fork[id]
    BY <1>0, <1>3 DEF Right, Phil!forks_of
  <2>2. QED
    BY <1>1, <2>1
<1>4. CASE id # 0 /\ id # NUM_PHILOSOPHERS - 1
  <2>1. Phil!forks_of(id)[2] = fork[id]
    BY <1>0, <1>4 DEF Phil!forks_of
  <2>2. Right(id) = id + 1 /\ Right(id) # 0 /\ Right(id) - 1 = id
    BY <1>0, <1>4 DEF Right
  <2>3. Phil!forks_of(Right(id))[1] = fork[id]
    BY <2>2 DEF Phil!forks_of
  <2>4. QED
    BY <1>1, <2>1, <2>3
<1>5. QED
  BY <1>2, <1>3, <1>4

LEMMA AroundTheTable ==
    ASSUME NEW id \in Phil!Ids
    PROVE  /\ (id + 1) % NUM_PHILOSOPHERS = Right(id)
           /\ LET left == (id - 1 + NUM_PHILOSOPHERS) % NUM_PHILOSOPHERS
              IN  left \in Phil!Ids /\ Right(left) = id
<1>0. NUM_PHILOSOPHERS \in Nat \ {0, 1} /\ id \in Nat /\ id < NUM_PHILOSOPHERS
  BY PhilConstants DEF Phil!Ids
<1>1. \A x \in 0..2 * NUM_PHILOSOPHERS - 1 :
          x % NUM_PHILOSOPHERS = IF x < NUM_PHILOSOPHERS THEN x ELSE x - NUM_PHILOSOPHERS
  BY <1>0
<1>2. (id + 1) % NUM_PHILOSOPHERS = Right(id)
  BY <1>0, <1>1 DEF Right
<1>3. (id - 1 + NUM_PHILOSOPHERS) % NUM_PHILOSOPHERS
         = IF id = 0 THEN NUM_PHILOSOPHERS - 1 ELSE id - 1
  BY <1>0, <1>1
<1>4. QED
  BY <1>0, <1>2, <1>3 DEF Right, Phil!Ids

(* Neighbours never eat together (philosophers.c:62-63), however many      *)
(* philosophers there are, how long they think and eat, and what the other *)
(* tests do: every fork has one owner at a time, handed over by            *)
(* semaphore_up() while others still wait.                                 *)
THEOREM NeighboursTakeTurns == Spec => []NeighboursDoNotEat
<1> DEFINE ForksInv == EatersAte /\ \A s \in ForkSemaphores : ForkInv(s)
<1>1. Init => ForksInv
  BY ForksStartFree
<1>2. SyncTypeOK /\ EachTaskInOnePlace /\ ForksInv /\ [Next]_allVars => ForksInv'
  BY EatersStep, ForkStep DEF ImageInv, ForkSemaphores
<1>3. ForksInv => NeighboursDoNotEat
  <2> SUFFICES ASSUME ForksInv, NEW id \in Phil!Ids, eating[id]
               PROVE  /\ ~eating[(id + 1) % NUM_PHILOSOPHERS]
                      /\ ~eating[(id - 1 + NUM_PHILOSOPHERS) % NUM_PHILOSOPHERS]
    BY DEF NeighboursDoNotEat, Phil!NeighboursDoNotEat
  <2>1. ASSUME NEW jd \in Phil!Ids
        PROVE  ~(eating[jd] /\ eating[Right(jd)])
    <3> SUFFICES ASSUME eating[jd], eating[Right(jd)]
                 PROVE  FALSE
      OBVIOUS
    <3>1. PICK m \in {1, 2}, n \in {1, 2} : Phil!forks_of(jd)[m] = Phil!forks_of(Right(jd))[n]
      BY SharedFork
    <3> DEFINE s == Phil!forks_of(jd)[m]
    <3>2. s \in ForkSemaphores
      BY TwoForks
    <3>3. Right(jd) \in Phil!Ids /\ Right(jd) # jd
      BY SharedFork
    <3>4. HasFork(jd, s) /\ HasFork(Right(jd), s)
      BY <3>1, <3>3, EaterHasForks
    <3>5. QED
      BY <3>2, <3>3, <3>4 DEF ForkInv, OneHasFork
  <2>2. QED
    BY <2>1, AroundTheTable
<1> HIDE DEF ForksInv
<1>4. QED
  BY <1>1, <1>2, <1>3, ImageKeepsTasks, PTL DEF Spec
-----------------------------------------------------------------------------
(***************************************************************************)
(* Two threads at a barrier of two: they have waited at it equally often,  *)
(* or once more the one who is waiting.                                    *)
(***************************************************************************)
TwoThreads ==
    /\ Members[TheBarrier] = 2
    /\ \E u \in BarrierThreads : u # First /\ BarrierThreads = {First, u}

\* The waits thread t has begun: two in a round.
Waits(t) == IF barrier_pc[t] \in {"met", "check"} THEN 2 * value[t] - 1 ELSE 2 * value[t]

Waiting(t) == In(t, wait_queue[TheBarrier])

RoundsTypeOK ==
    /\ barrier_pc \in [BarrierThreads -> {"start", "round", "met", "check", "passed"}]
    /\ value \in [BarrierThreads -> Nat]

\* Nobody but the threads waits, and those where barrier_wait() returns.
WaitersAreThreads ==
    \A t \in Tasks : Waiting(t) => t \in BarrierThreads /\ barrier_pc[t] \in {"met", "round"}

Level(t, u) ==
    /\ Waiting(t) => Waits(t) = Waits(u) + 1
    /\ ~Waiting(t) /\ ~Waiting(u) => Waits(t) = Waits(u)

AllLevel == \A t, u \in BarrierThreads : t # u => Level(t, u)

RoundsInv == RoundsTypeOK /\ BarInv(TheBarrier) /\ WaitersAreThreads /\ AllLevel

LEMMA BarrierConstants ==
    /\ TheBarrier \in Barriers /\ TheBarrier \in Queues
    /\ TheBarrier \notin Semaphores \cup Locks \cup Conditions
BY TestAllAssumption, QueuesAssumption, DisjointAssumption DEF Barrier!BarrierTestConstants

LEMMA WaitsType ==
    ASSUME RoundsTypeOK, NEW t \in BarrierThreads
    PROVE  Waits(t) \in Int
BY DEF Waits, RoundsTypeOK

(* A step by which no thread begins or ends a wait.                        *)
LEMMA RoundsUntouched ==
    ASSUME RoundsInv, RoundsTypeOK',
           wait_queue'[TheBarrier] = wait_queue[TheBarrier],
           current_members'[TheBarrier] = current_members[TheBarrier],
           \A t \in BarrierThreads : Waits(t)' = Waits(t),
           \A t \in BarrierThreads : Waiting(t) => barrier_pc'[t] = barrier_pc[t]
    PROVE  RoundsInv'
<1>1. BarInv(TheBarrier)'
  BY DEF RoundsInv, BarInv
<1>2. \A t \in Tasks : Waiting(t)' <=> Waiting(t)
  BY DEF Waiting
<1>3. WaitersAreThreads'
  BY <1>2 DEF WaitersAreThreads, RoundsInv
<1>4. AllLevel'
  BY <1>2, Clients DEF AllLevel, Level, RoundsInv
<1>5. QED
  BY <1>1, <1>3, <1>4 DEF RoundsInv

(* barrier_wait(): the first waits for the other, the second wakes it.     *)
LEMMA MeetStep ==
    ASSUME TwoThreads, ImageInv, RoundsInv, RoundsTypeOK', NEW x \in BarrierThreads, Running(x),
           barrier_wait(TheBarrier),
           Waits(x)' = Waits(x) + 1, barrier_pc'[x] \in {"met", "round"},
           \A t \in BarrierThreads \ {x} :
               Waits(t)' = Waits(t) /\ barrier_pc'[t] = barrier_pc[t]
    PROVE  RoundsInv'
<1>0. /\ x \in Tasks /\ SyncTypeOK /\ SchedTypeOK /\ wait_queue[TheBarrier] \in Seq(Tasks)
      /\ Members[TheBarrier] = 2 /\ current_members[TheBarrier] \in Nat
  BY Clients, BarrierConstants DEF ImageInv, SyncTypeOK, SchedTypeOK, TwoThreads
<1>1. BarInv(TheBarrier)'
  BY <1>0, BarrierConstants, BarrierStep DEF RoundsInv
<1>2. ~Waiting(x)
  BY <1>0, BarrierConstants, RunningWaitsNowhere DEF Waiting
<1>3. \A t \in BarrierThreads : Waits(t) \in Int
  BY WaitsType DEF RoundsInv
<1>4. PICK y \in BarrierThreads : y # x /\ BarrierThreads = {x, y}
  BY DEF TwoThreads
<1>5. Level(x, y) /\ Level(y, x)
  BY <1>4 DEF RoundsInv, AllLevel
<1>6. current_members[TheBarrier] = Len(wait_queue[TheBarrier])
  BY <1>0 DEF RoundsInv, BarInv
<1>7. CASE current_members[TheBarrier] + 1 = Members[TheBarrier]
  <2>1. current_members'[TheBarrier] = 0
    BY <1>0, <1>7, BarrierConstants DEF barrier_wait, SyncTypeOK
  <2>2. Len(wait_queue'[TheBarrier]) = 0
    BY <1>0, <1>1, <2>1 DEF BarInv
  <2>3. \A t : ~Waiting(t)'
    BY <2>2 DEF Waiting, In
  <2>4. Waiting(y)
    <3>1. wait_queue[TheBarrier] # <<>>
      BY <1>0, <1>6, <1>7
    <3>2. PICK t \in Tasks : Waiting(t)
      BY <1>0, <3>1, DequeueLemma DEF Waiting
    <3>3. t \in BarrierThreads
      BY <3>2 DEF RoundsInv, WaitersAreThreads
    <3>4. QED
      BY <1>2, <1>4, <3>2, <3>3
  <2>5. Waits(x)' = Waits(y)'
    BY <1>3, <1>4, <1>5, <2>4 DEF Level
  <2>6. AllLevel'
    BY <1>4, <2>3, <2>5 DEF AllLevel, Level
  <2>7. WaitersAreThreads'
    BY <2>3 DEF WaitersAreThreads
  <2>8. QED
    BY <1>1, <2>6, <2>7 DEF RoundsInv
<1>8. CASE current_members[TheBarrier] + 1 # Members[TheBarrier]
  <2>1. block(TheBarrier)
    BY <1>8 DEF barrier_wait
  <2>2. wait_queue'[TheBarrier] = Append(wait_queue[TheBarrier], x)
    BY <1>0, <2>1, BarrierConstants DEF block, SchedTypeOK, Running
  <2>3. current_members[TheBarrier] < Members[TheBarrier]
    BY <1>0, BarrierConstants DEF SyncTypeOK
  <2>4. Len(wait_queue[TheBarrier]) = 0
    BY <1>0, <1>6, <1>8, <2>3
  <2>5. \A t : ~Waiting(t)
    BY <2>4 DEF Waiting, In
  <2>6. \A t : Waiting(t)' <=> t = x
    BY <1>0, <2>2, <2>5, EnqueueLemma DEF Waiting
  <2>7. Waits(x) = Waits(y)
    BY <1>5, <2>5 DEF Level
  <2>8. AllLevel'
    BY <1>4, <2>6, <2>7 DEF AllLevel, Level
  <2>9. WaitersAreThreads'
    BY <2>6 DEF WaitersAreThreads
  <2>10. QED
    BY <1>1, <2>8, <2>9 DEF RoundsInv
<1>9. QED
  BY <1>7, <1>8

LEMMA BarrierThreadGoesOn ==
    ASSUME RoundsTypeOK, NEW x \in BarrierThreads, NEW from, NEW to, Barrier!Goto(x, from, to)
    PROVE  /\ Running(x) /\ barrier_pc[x] = from /\ barrier_pc'[x] = to
           /\ \A t \in BarrierThreads \ {x} : barrier_pc'[t] = barrier_pc[t]
BY BarrierOps DEF Barrier!Goto, RoundsTypeOK

LEMMA RoundsTypeStep ==
    ASSUME RoundsTypeOK, NEW x \in BarrierThreads, barrier_step(x)
    PROVE  RoundsTypeOK'
BY DEF RoundsTypeOK, barrier_step, Barrier!barrier_thread, Barrier!initialize,
   Barrier!await_init, Barrier!arrive, Barrier!sleep, Barrier!leave, Barrier!finish, Barrier!Goto

LEMMA ThreadKeepsRounds ==
    ASSUME TwoThreads, ImageInv, RoundsInv, NEW x \in BarrierThreads, barrier_step(x)
    PROVE  RoundsInv'
<1>0. RoundsTypeOK /\ RoundsTypeOK' /\ x \in Tasks
  BY RoundsTypeStep, Clients DEF RoundsInv
<1>1. ASSUME wait_queue' = wait_queue, current_members' = current_members, value' = value,
             NEW from, NEW to, Barrier!Goto(x, from, to),
             <<from, to>> \in {<<"start", "start">>, <<"start", "round">>,
                               <<"met", "check">>, <<"round", "passed">>}
      PROVE  RoundsInv'
  <2>1. ~Waiting(x)
    BY <1>0, <1>1, BarrierThreadGoesOn, BarrierConstants, RunningWaitsNowhere DEF Waiting
  <2>2. \A t \in BarrierThreads : Waits(t)' = Waits(t)
    BY <1>0, <1>1, BarrierThreadGoesOn DEF Waits
  <2>3. QED
    BY <1>0, <1>1, <2>1, <2>2, BarrierThreadGoesOn, RoundsUntouched
<1>2. CASE Barrier!initialize(x)
  BY <1>1, <1>2, BarrierOps DEF Barrier!initialize, vars, schedVars, syncVars
<1>3. CASE Barrier!await_init(x)
  BY <1>1, <1>3, BarrierOps DEF Barrier!await_init, vars, schedVars, syncVars, do_yield
<1>4. CASE Barrier!sleep(x)
  BY <1>1, <1>4, BarrierOps DEF Barrier!sleep, vars, schedVars, syncVars, do_sleep
<1>5. CASE Barrier!finish(x)
  BY <1>1, <1>5, BarrierOps DEF Barrier!finish, syncVars, do_exit
<1>6. CASE Barrier!arrive(x)
  <2>1. /\ Barrier!Goto(x, "round", "met") /\ barrier_wait(TheBarrier)
        /\ value'[x] = value[x] + 1 /\ value[x] \in Nat
        /\ \A t \in BarrierThreads \ {x} : value'[t] = value[t]
    BY <1>0, <1>6, BarrierOps DEF Barrier!arrive, RoundsTypeOK
  <2>2. Waits(x)' = Waits(x) + 1
    BY <1>0, <2>1, BarrierThreadGoesOn DEF Waits
  <2>3. \A t \in BarrierThreads \ {x} : Waits(t)' = Waits(t)
    BY <1>0, <2>1, BarrierThreadGoesOn DEF Waits
  <2>4. QED
    BY <1>0, <2>1, <2>2, <2>3, BarrierThreadGoesOn, MeetStep
<1>7. CASE Barrier!leave(x)
  <2>1. /\ Barrier!Goto(x, "check", "round") /\ barrier_wait(TheBarrier)
        /\ value' = value /\ value[x] \in Nat
    BY <1>0, <1>7, BarrierOps DEF Barrier!leave, RoundsTypeOK
  <2>2. Waits(x)' = Waits(x) + 1
    BY <1>0, <2>1, BarrierThreadGoesOn DEF Waits
  <2>3. \A t \in BarrierThreads \ {x} : Waits(t)' = Waits(t)
    BY <1>0, <2>1, BarrierThreadGoesOn DEF Waits
  <2>4. QED
    BY <1>0, <2>1, <2>2, <2>3, BarrierThreadGoesOn, MeetStep
<1>8. QED
  BY <1>2, <1>3, <1>4, <1>5, <1>6, <1>7 DEF barrier_step, Barrier!barrier_thread

LEMMA RoundsStep ==
    ASSUME TwoThreads, ImageInv, RoundsInv, [Next]_allVars
    PROVE  RoundsInv'
<1>0. SchedTypeOK
  BY DEF ImageInv, SyncTypeOK
<1>1. CASE /\ wait_queue'[TheBarrier] = wait_queue[TheBarrier]
           /\ UNCHANGED current_members /\ UNCHANGED <<barrier_pc, value>>
  BY <1>1, RoundsUntouched DEF RoundsInv, RoundsTypeOK, Waits
<1>2. CASE System \/ UNCHANGED allVars
  BY <1>1, <1>2, SystemQueues
<1>3. ASSUME NEW t \in BarrierThreads, barrier_step(t)
      PROVE  RoundsInv'
  BY <1>3, ThreadKeepsRounds
<1>4. ASSUME NEW t \in Mon!Workers, monitor_step(t)
      PROVE  RoundsInv'
  BY <1>0, <1>1, <1>4, BarrierConstants, WorkerQueues
<1>5. ASSUME NEW id \in Phil!Ids, philosopher_step(id)
      PROVE  RoundsInv'
  BY <1>0, <1>1, <1>5, BarrierConstants, PhilosopherQueues
<1>6. QED
  BY <1>2, <1>3, <1>4, <1>5 DEF Next

LEMMA RoundsBegin ==
    ASSUME Init, TwoThreads
    PROVE  RoundsInv
<1>1. /\ barrier_pc = [t \in BarrierThreads |-> "start"] /\ value = [t \in BarrierThreads |-> 0]
      /\ current_members[TheBarrier] = 0 /\ wait_queue[TheBarrier] = <<>>
      /\ Members[TheBarrier] = 2
  BY BarrierConstants DEF Init, Barrier!Init, Barrier!SyncInit, Barrier!SchedInit, TwoThreads
<1>2. RoundsTypeOK /\ BarInv(TheBarrier)
  BY <1>1 DEF RoundsTypeOK, BarInv
<1>3. \A t : ~Waiting(t)
  BY <1>1 DEF Waiting, In
<1>4. \A t \in BarrierThreads : Waits(t) = 0
  BY <1>1 DEF Waits
<1>5. WaitersAreThreads /\ AllLevel
  BY <1>3, <1>4 DEF WaitersAreThreads, AllLevel, Level
<1>6. QED
  BY <1>2, <1>5 DEF RoundsInv

(* Of two threads neither is in the next round while the other checks.     *)
LEMMA TwoLevel ==
    ASSUME RoundsInv
    PROVE  AssertionHolds
<1> SUFFICES ASSUME NEW t \in BarrierThreads, NEW u \in BarrierThreads,
                    barrier_pc[t] = "check", t # u
             PROVE  value[t] = value[u]
  BY DEF AssertionHolds, Barrier!AssertionHolds
<1>1. ~Waiting(t)
  BY Clients DEF RoundsInv, WaitersAreThreads
<1>2. value[t] \in Nat /\ value[u] \in Nat
  BY DEF RoundsInv, RoundsTypeOK
<1>3. Waits(u) = Waits(t) \/ Waits(u) = Waits(t) + 1
  BY <1>1 DEF RoundsInv, AllLevel, Level
<1>4. Waits(t) = 2 * value[t] - 1
  BY DEF Waits
<1>5. Waits(u) = 2 * value[u] - 1 \/ Waits(u) = 2 * value[u]
  BY DEF Waits
<1>6. QED
  BY <1>2, <1>3, <1>4, <1>5

-----------------------------------------------------------------------------
(***************************************************************************)
(* Three threads or more: unblock_all() wakes one, so of the first wait of *)
(* the first round only the last to arrive and the one it wakes come back. *)
(* Both get to the second wait, where two are not all, and stay.           *)
(***************************************************************************)
Arrived == {t \in BarrierThreads : barrier_pc[t] = "met"}

\* Not everybody has arrived yet: who has, waits.
Gathering ==
    /\ \A t \in BarrierThreads :
          \/ barrier_pc[t] \in {"start", "round", "passed"} /\ value[t] = 0
          \/ barrier_pc[t] = "met" /\ value[t] = 1 /\ Waiting(t)
    /\ current_members[TheBarrier] = Cardinality(Arrived)

Back(t) == IF barrier_pc[t] = "round" THEN 1 ELSE 0

\* Everybody has arrived, and at most x and y do not wait.
TwoGoOn(x, y) ==
    /\ x # y
    /\ \A t \in BarrierThreads :
          /\ value[t] = 1 /\ barrier_pc[t] \in {"met", "check", "round"}
          /\ t \notin {x, y} \/ barrier_pc[t] = "round" => Waiting(t)
    /\ current_members[TheBarrier] = Back(x) + Back(y)

ManyInv ==
    /\ RoundsTypeOK
    /\ \A t \in Tasks : Waiting(t) => t \in BarrierThreads
    /\ Gathering \/ \E x, y \in BarrierThreads : TwoGoOn(x, y)

LEMMA ManyUntouched ==
    ASSUME ManyInv,
           wait_queue'[TheBarrier] = wait_queue[TheBarrier],
           current_members'[TheBarrier] = current_members[TheBarrier],
           UNCHANGED <<barrier_pc, value>>
    PROVE  ManyInv'
<1>1. \A t : Waiting(t)' <=> Waiting(t)
  BY DEF Waiting
<1>2. Gathering => Gathering'
  BY <1>1 DEF Gathering, Arrived
<1>3. \A x, y : TwoGoOn(x, y) => TwoGoOn(x, y)'
  BY <1>1 DEF TwoGoOn, Back
<1>4. QED
  BY <1>1, <1>2, <1>3 DEF ManyInv, RoundsTypeOK

(* A thread goes on where it does not wait.                                *)
LEMMA ManyGoOn ==
    ASSUME ManyInv, NEW z \in BarrierThreads, ~Waiting(z),
           wait_queue' = wait_queue, current_members' = current_members, value' = value,
           RoundsTypeOK',
           <<barrier_pc[z], barrier_pc'[z]>> \in {<<"start", "start">>, <<"start", "round">>,
                                                  <<"met", "check">>, <<"round", "passed">>},
           \A t \in BarrierThreads \ {z} : barrier_pc'[t] = barrier_pc[t]
    PROVE  ManyInv'
<1>1. \A t : Waiting(t)' <=> Waiting(t)
  BY DEF Waiting
<1>2. CASE Gathering
  <2>1. barrier_pc[z] \in {"start", "round"} /\ barrier_pc'[z] \in {"start", "round", "passed"}
    BY <1>2 DEF Gathering
  <2>2. Arrived' = Arrived
    BY <2>1 DEF Arrived
  <2>3. Gathering'
    BY <1>1, <1>2, <2>1, <2>2 DEF Gathering
  <2>4. QED
    BY <1>1, <2>3 DEF ManyInv
<1>3. ASSUME NEW x \in BarrierThreads, NEW y \in BarrierThreads, TwoGoOn(x, y)
      PROVE  ManyInv'
  <2>1. barrier_pc[z] = "met" /\ barrier_pc'[z] = "check"
    BY <1>3 DEF TwoGoOn
  <2>2. Back(x)' = Back(x) /\ Back(y)' = Back(y)
    BY <2>1 DEF Back
  <2>3. TwoGoOn(x, y)'
    BY <1>1, <1>3, <2>1, <2>2 DEF TwoGoOn
  <2>4. QED
    BY <1>1, <2>3 DEF ManyInv
<1>4. QED
  BY <1>2, <1>3 DEF ManyInv

LEMMA Cardinalities ==
    /\ IsFiniteSet(BarrierThreads) /\ Cardinality(BarrierThreads) \in Nat
    /\ Members[TheBarrier] = Cardinality(BarrierThreads)
<1>1. /\ IsFiniteSet(BarrierThreads)
      /\ Members[TheBarrier] = Cardinality(BarrierThreads)
  BY TestAllAssumption
     DEF Barrier!BarrierTestConstants, Barrier!IsFiniteSet, IsFiniteSet,
         Barrier!Cardinality, Cardinality
<1>2. QED
  BY <1>1, FS_CardinalityType

(* The first wait of a thread: the last one lets one of the others go on.  *)
LEMMA ManyArrive ==
    ASSUME Members[TheBarrier] >= 3, ImageInv, ManyInv, RoundsTypeOK',
           NEW z \in BarrierThreads, Running(z), barrier_wait(TheBarrier),
           barrier_pc[z] = "round", barrier_pc'[z] = "met", value'[z] = value[z] + 1,
           \A t \in BarrierThreads \ {z} : value'[t] = value[t] /\ barrier_pc'[t] = barrier_pc[t]
    PROVE  ManyInv'
<1>0. /\ z \in Tasks /\ SyncTypeOK /\ SchedTypeOK /\ wait_queue[TheBarrier] \in Seq(Tasks)
      /\ TheBarrier \in Barriers /\ TheBarrier \in Queues
  BY Clients, BarrierConstants DEF ImageInv, SyncTypeOK, SchedTypeOK
<1>1. ~Waiting(z)
  BY <1>0, RunningWaitsNowhere DEF Waiting
<1>2. Gathering /\ value[z] = 0
  BY <1>1 DEF ManyInv, TwoGoOn, Gathering
<1>3. /\ IsFiniteSet(Arrived) /\ z \notin Arrived /\ Arrived \subseteq BarrierThreads \ {z}
      /\ Arrived' = Arrived \cup {z} /\ Cardinality(Arrived) \in Nat
  <2>1. z \notin Arrived /\ Arrived \subseteq BarrierThreads \ {z} /\ Arrived' = Arrived \cup {z}
    BY DEF Arrived
  <2>2. IsFiniteSet(Arrived)
    BY <2>1, Cardinalities, FS_Subset
  <2>3. QED
    BY <2>1, <2>2, FS_CardinalityType
<1>4. Cardinality(Arrived') = current_members[TheBarrier] + 1
  <2>1. Cardinality(Arrived \cup {z}) = Cardinality(Arrived) + 1
    BY <1>3, FS_AddElement
  <2>2. QED
    BY <1>2, <1>3, <2>1 DEF Gathering
<1>5. CASE current_members[TheBarrier] + 1 = Members[TheBarrier]
  <2>1. current_members'[TheBarrier] = 0 /\ unblock_one(TheBarrier)
    BY <1>0, <1>5 DEF barrier_wait, unblock_all, SyncTypeOK
  <2>2. Arrived = BarrierThreads \ {z}
    <3>1. /\ IsFiniteSet(BarrierThreads \ {z})
          /\ Cardinality(BarrierThreads \ {z}) = Cardinality(BarrierThreads) - 1
      BY Cardinalities, FS_RemoveElement
    <3>2. Cardinality(Arrived) = Cardinality(BarrierThreads) - 1
      BY <1>2, <1>3, <1>5, Cardinalities DEF Gathering
    <3>3. QED
      BY <1>3, <3>1, <3>2, FS_Subset
  <2>3. \A t \in BarrierThreads \ {z} : barrier_pc[t] = "met" /\ value[t] = 1 /\ Waiting(t)
    BY <1>2, <2>2 DEF Arrived, Gathering
  <2>4. PICK u \in BarrierThreads : u # z
    <3>1. BarrierThreads # {z}
      <4>1. Cardinality({z}) = 1
        BY FS_Singleton
      <4>2. QED
        BY <4>1, Cardinalities
    <3>2. QED
      BY <3>1
  <2>5. wait_queue[TheBarrier] # <<>>
    BY <2>3, <2>4 DEF Waiting, In
  <2>6. PICK y \in Tasks : Waiting(y) /\ \A t : Waiting(t) <=> Waiting(t)' \/ t = y
    BY <1>0, <2>1, <2>5, UnblockOneQueue, DequeueLemma DEF Waiting
  <2>7. y \in BarrierThreads /\ y # z
    BY <1>1, <2>6 DEF ManyInv
  <2>8. Back(z)' = 0 /\ Back(y)' = 0
    BY <2>3, <2>7 DEF Back
  <2>9. TwoGoOn(z, y)'
    BY <1>2, <2>1, <2>3, <2>6, <2>7, <2>8 DEF TwoGoOn
  <2>10. QED
    BY <2>6, <2>7, <2>9 DEF ManyInv
<1>6. CASE current_members[TheBarrier] + 1 # Members[TheBarrier]
  <2>1. current_members'[TheBarrier] = current_members[TheBarrier] + 1 /\ block(TheBarrier)
    BY <1>0, <1>6 DEF barrier_wait, SyncTypeOK
  <2>2. wait_queue'[TheBarrier] = Append(wait_queue[TheBarrier], z)
    BY <1>0, <2>1 DEF block, SchedTypeOK, Running
  <2>3. \A t : Waiting(t)' <=> Waiting(t) \/ t = z
    BY <1>0, <2>2, EnqueueLemma DEF Waiting
  <2>4. Gathering'
    BY <1>2, <1>4, <2>1, <2>3 DEF Gathering
  <2>5. QED
    BY <2>3, <2>4 DEF ManyInv
<1>7. QED
  BY <1>5, <1>6

(* The second: nobody who gets there goes on.                              *)
LEMMA ManyLeave ==
    ASSUME Members[TheBarrier] >= 3, ImageInv, ManyInv, RoundsTypeOK', value' = value,
           NEW z \in BarrierThreads, Running(z), barrier_wait(TheBarrier),
           barrier_pc[z] = "check", barrier_pc'[z] = "round",
           \A t \in BarrierThreads \ {z} : barrier_pc'[t] = barrier_pc[t]
    PROVE  ManyInv'
<1>0. /\ z \in Tasks /\ SyncTypeOK /\ SchedTypeOK /\ wait_queue[TheBarrier] \in Seq(Tasks)
      /\ TheBarrier \in Barriers /\ TheBarrier \in Queues /\ Members[TheBarrier] \in Nat
  BY Clients, BarrierConstants, Cardinalities DEF ImageInv, SyncTypeOK, SchedTypeOK
<1>1. ~Waiting(z)
  BY <1>0, RunningWaitsNowhere DEF Waiting
<1>2. PICK x \in BarrierThreads, y \in BarrierThreads : TwoGoOn(x, y)
  BY DEF ManyInv, Gathering
<1>3. x # y /\ z \in {x, y} /\ Back(z) = 0 /\ Back(z)' = 1
  BY <1>1, <1>2 DEF TwoGoOn, Back
<1>4. /\ Back(x)' + Back(y)' = Back(x) + Back(y) + 1
      /\ Back(x) + Back(y) <= 1
  <2>1. Back(x) \in {0, 1} /\ Back(y) \in {0, 1}
    BY DEF Back
  <2>2. z = x => Back(y)' = Back(y)
    BY <1>3 DEF Back
  <2>3. z = y => Back(x)' = Back(x)
    BY <1>3 DEF Back
  <2>4. QED
    BY <1>3, <2>1, <2>2, <2>3
<1>5. current_members'[TheBarrier] = current_members[TheBarrier] + 1 /\ block(TheBarrier)
  BY <1>0, <1>2, <1>4 DEF barrier_wait, SyncTypeOK, TwoGoOn
<1>6. wait_queue'[TheBarrier] = Append(wait_queue[TheBarrier], z)
  BY <1>0, <1>5 DEF block, SchedTypeOK, Running
<1>7. \A t : Waiting(t)' <=> Waiting(t) \/ t = z
  BY <1>0, <1>6, EnqueueLemma DEF Waiting
<1>8. TwoGoOn(x, y)'
  BY <1>2, <1>3, <1>4, <1>5, <1>7 DEF TwoGoOn
<1>9. QED
  BY <1>7, <1>8 DEF ManyInv

LEMMA ThreadKeepsMany ==
    ASSUME Members[TheBarrier] >= 3, ImageInv, ManyInv,
           NEW z \in BarrierThreads, barrier_step(z)
    PROVE  ManyInv'
<1>0. RoundsTypeOK /\ RoundsTypeOK' /\ z \in Tasks
  BY RoundsTypeStep, Clients DEF ManyInv
<1>1. ASSUME wait_queue' = wait_queue, current_members' = current_members, value' = value,
             NEW from, NEW to, Barrier!Goto(z, from, to),
             <<from, to>> \in {<<"start", "start">>, <<"start", "round">>,
                               <<"met", "check">>, <<"round", "passed">>}
      PROVE  ManyInv'
  <2>1. ~Waiting(z)
    BY <1>0, <1>1, BarrierThreadGoesOn, BarrierConstants, RunningWaitsNowhere DEF Waiting
  <2>2. QED
    BY <1>0, <1>1, <2>1, BarrierThreadGoesOn, ManyGoOn
<1>2. CASE Barrier!initialize(z)
  BY <1>1, <1>2, BarrierOps DEF Barrier!initialize, vars, schedVars, syncVars
<1>3. CASE Barrier!await_init(z)
  BY <1>1, <1>3, BarrierOps DEF Barrier!await_init, vars, schedVars, syncVars, do_yield
<1>4. CASE Barrier!sleep(z)
  BY <1>1, <1>4, BarrierOps DEF Barrier!sleep, vars, schedVars, syncVars, do_sleep
<1>5. CASE Barrier!finish(z)
  BY <1>1, <1>5, BarrierOps DEF Barrier!finish, syncVars, do_exit
<1>6. CASE Barrier!arrive(z)
  <2>1. /\ Barrier!Goto(z, "round", "met") /\ barrier_wait(TheBarrier)
        /\ value'[z] = value[z] + 1
        /\ \A t \in BarrierThreads \ {z} : value'[t] = value[t]
    BY <1>0, <1>6, BarrierOps DEF Barrier!arrive, RoundsTypeOK
  <2>2. QED
    BY <1>0, <2>1, BarrierThreadGoesOn, ManyArrive
<1>7. CASE Barrier!leave(z)
  <2>1. Barrier!Goto(z, "check", "round") /\ barrier_wait(TheBarrier) /\ value' = value
    BY <1>7, BarrierOps DEF Barrier!leave
  <2>2. QED
    BY <1>0, <2>1, BarrierThreadGoesOn, ManyLeave
<1>8. QED
  BY <1>2, <1>3, <1>4, <1>5, <1>6, <1>7 DEF barrier_step, Barrier!barrier_thread

LEMMA ManyStep ==
    ASSUME Members[TheBarrier] >= 3, ImageInv, ManyInv, [Next]_allVars
    PROVE  ManyInv'
<1>0. SchedTypeOK
  BY DEF ImageInv, SyncTypeOK
<1>1. CASE /\ wait_queue'[TheBarrier] = wait_queue[TheBarrier]
           /\ UNCHANGED current_members /\ UNCHANGED <<barrier_pc, value>>
  BY <1>1, ManyUntouched
<1>2. CASE System \/ UNCHANGED allVars
  BY <1>1, <1>2, SystemQueues
<1>3. ASSUME NEW t \in BarrierThreads, barrier_step(t)
      PROVE  ManyInv'
  BY <1>3, ThreadKeepsMany
<1>4. ASSUME NEW t \in Mon!Workers, monitor_step(t)
      PROVE  ManyInv'
  BY <1>0, <1>1, <1>4, BarrierConstants, WorkerQueues
<1>5. ASSUME NEW id \in Phil!Ids, philosopher_step(id)
      PROVE  ManyInv'
  BY <1>0, <1>1, <1>5, BarrierConstants, PhilosopherQueues
<1>6. QED
  BY <1>2, <1>3, <1>4, <1>5 DEF Next

LEMMA ManyBegin ==
    ASSUME Init
    PROVE  ManyInv
<1>1. /\ barrier_pc = [t \in BarrierThreads |-> "start"] /\ value = [t \in BarrierThreads |-> 0]
      /\ current_members[TheBarrier] = 0 /\ wait_queue[TheBarrier] = <<>>
  BY BarrierConstants DEF Init, Barrier!Init, Barrier!SyncInit, Barrier!SchedInit
<1>2. RoundsTypeOK
  BY <1>1 DEF RoundsTypeOK
<1>3. \A t : ~Waiting(t)
  BY <1>1 DEF Waiting, In
<1>4. Cardinality(Arrived) = 0
  <2>1. Arrived = {}
    BY <1>1 DEF Arrived
  <2>2. QED
    BY <2>1, FS_EmptySet
<1>5. QED
  BY <1>1, <1>2, <1>3, <1>4 DEF ManyInv, Gathering

-----------------------------------------------------------------------------
(* One thread has nobody to differ from.                                   *)
LEMMA OneThread ==
    ASSUME Cardinality(BarrierThreads) = 1
    PROVE  AssertionHolds
<1>1. PICK x : BarrierThreads = {x}
  BY Cardinalities, FS_Singleton
<1>2. QED
  BY <1>1 DEF AssertionHolds, Barrier!AssertionHolds

(* Two are First and another.                                              *)
LEMMA TwoAreTwoThreads ==
    ASSUME Cardinality(BarrierThreads) = 2
    PROVE  TwoThreads
<1>1. First \in BarrierThreads
  BY TestAllAssumption DEF Barrier!BarrierTestConstants
<1>2. /\ IsFiniteSet(BarrierThreads \ {First})
      /\ Cardinality(BarrierThreads \ {First}) = 1
  BY <1>1, Cardinalities, FS_RemoveElement
<1>3. PICK u : BarrierThreads \ {First} = {u}
  BY <1>2, FS_Singleton
<1>4. QED
  BY <1>1, <1>3, Cardinalities DEF TwoThreads

(* Of more, nobody is in the second round.                                 *)
LEMMA ManyLevel ==
    ASSUME ManyInv
    PROVE  AssertionHolds
<1> SUFFICES ASSUME NEW t \in BarrierThreads, NEW u \in BarrierThreads,
                    barrier_pc[t] = "check"
             PROVE  value[t] = value[u]
  BY DEF AssertionHolds, Barrier!AssertionHolds
<1>1. PICK x \in BarrierThreads, y \in BarrierThreads : TwoGoOn(x, y)
  BY DEF ManyInv, Gathering
<1>2. QED
  BY <1>1 DEF TwoGoOn

(* The ASSERT of barrier_test.c:39 holds with any number of threads at a   *)
(* barrier of them all, whatever the other tests do: none is past the      *)
(* first wait of a round while another has not begun it, or has begun the  *)
(* next.  With two, unblock_all() wakes all there are; with more, nobody   *)
(* ever gets past the first round.                                         *)
THEOREM ThreadsStayLevel == Spec => []AssertionHolds
<1> DEFINE LevelInv == \/ Cardinality(BarrierThreads) = 1
                       \/ TwoThreads /\ RoundsInv
                       \/ Members[TheBarrier] >= 3 /\ ManyInv
<1>1. Init => LevelInv
  <2>1. BarrierThreads # {}
    BY TestAllAssumption DEF Barrier!BarrierTestConstants
  <2>2. Cardinality(BarrierThreads) # 0
    BY <2>1, Cardinalities, FS_EmptySet
  <2>3. Cardinality(BarrierThreads) \in {1, 2} \/ Members[TheBarrier] >= 3
    BY <2>2, Cardinalities
  <2>4. QED
    BY <2>3, TwoAreTwoThreads, RoundsBegin, ManyBegin
<1>2. SyncTypeOK /\ EachTaskInOnePlace /\ LevelInv /\ [Next]_allVars => LevelInv'
  <2>1. TwoThreads' <=> TwoThreads
    BY DEF TwoThreads
  <2>2. QED
    BY <2>1, RoundsStep, ManyStep DEF ImageInv
<1>3. LevelInv => AssertionHolds
  BY OneThread, TwoLevel, ManyLevel
<1> HIDE DEF LevelInv
<1>4. QED
  BY <1>1, <1>2, <1>3, ImageKeepsTasks, PTL DEF Spec
=============================================================================
