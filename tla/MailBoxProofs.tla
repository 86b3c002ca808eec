--------------------------- MODULE MailBoxProofs ---------------------------
(***************************************************************************)
(* A message box is a bounded FIFO channel, and its users are counted, for *)
(* any number of tasks, boxes, slots, names and messages.                  *)
(***************************************************************************)
EXTENDS MailBox, SyncProofs

-----------------------------------------------------------------------------
(***************************************************************************)
(* The semaphores of the boxes.                                            *)
(***************************************************************************)
(* Each box has three semaphores of its own.                               *)
LEMMA SemaphoresDiffer ==
    ASSUME NEW b \in Boxes, NEW c \in Boxes
    PROVE  /\ used(b) # not_used(c) /\ used(b) # mutex(c) /\ not_used(b) # mutex(c)
           /\ used(b) = used(c) => b = c
           /\ not_used(b) = not_used(c) => b = c
           /\ mutex(b) = mutex(c) => b = c
BY DEF used, not_used, mutex

(* They are queues of the scheduler, with the values of init_one_mbox().   *)
LEMMA BoxSemaphoreTypes ==
    ASSUME NEW b \in Boxes
    PROVE  /\ used(b) \in Semaphores /\ not_used(b) \in Semaphores /\ mutex(b) \in Semaphores
           /\ Semaphores \subseteq Queues
           /\ initial_value(used(b)) = 0
           /\ initial_value(not_used(b)) = MAX_MBOX_LENGTH
           /\ initial_value(mutex(b)) = 1
<1>1. BoxSemaphores(b) \subseteq Semaphores
  BY MailBoxAssumption
<1>2. used(b)[1] = "used" /\ not_used(b)[1] = "not_used" /\ mutex(b)[1] = "mutex"
  BY DEF used, not_used, mutex
<1>3. QED
  BY <1>1, <1>2, QueuesAssumption DEF BoxSemaphores, initial_value

(* semaphore_down(): at most the caller joins a queue, that of s.          *)
LEMMA DownEffect ==
    ASSUME SyncTypeOK, SemaphoreCountsWaiters, NEW t \in Tasks, Running(t),
           NEW s \in Semaphores, semaphore_down(s)
    PROVE  /\ sem_value' = [sem_value EXCEPT ![s] = @ - 1]
           /\ SemaphoreCountsWaiters'
           /\ \A q \in Queues, u \in Tasks :
                 In(u, wait_queue'[q]) => In(u, wait_queue[q]) \/ (u = t /\ q = s)
           /\ UNCHANGED <<lock_status, current_members, acquiring>>
<1>0. s \in Queues /\ SchedTypeOK
  BY QueuesAssumption DEF SyncTypeOK
<1>1. SemaphoreCountsWaiters'
  <2> SUFFICES ASSUME NEW r \in Semaphores
               PROVE  SemInv(r)'
    BY DEF SemaphoreCountsWaiters, SemInv
  <2>0. SemInv(r) /\ r \in Queues
    BY QueuesAssumption DEF SemaphoreCountsWaiters, SemInv
  <2>1. CASE r = s
    BY <2>0, <2>1, DownStep
  <2>2. CASE r # s
    <3>1. wait_queue'[r] = wait_queue[r]
      BY <1>0, <2>0, <2>2, QueueUntouched DEF semaphore_down, schedVars
    <3>2. sem_value'[r] = sem_value[r]
      BY <2>2 DEF semaphore_down, SyncTypeOK
    <3>3. QED
      BY <2>0, <3>1, <3>2 DEF SemInv
  <2>3. QED
    BY <2>1, <2>2
<1>2. ASSUME NEW q \in Queues, NEW u \in Tasks, In(u, wait_queue'[q])
      PROVE  In(u, wait_queue[q]) \/ (u = t /\ q = s)
  <2>1. CASE q = s /\ block(s)
    <3>1. wait_queue'[q] = Append(wait_queue[q], t) /\ wait_queue[q] \in Seq(Tasks)
      BY <1>0, <2>1 DEF block, SchedTypeOK, Running
    <3>2. QED
      BY <1>2, <2>1, <3>1, EnqueueLemma
  <2>2. CASE q # s \/ ~block(s)
    <3>1. wait_queue'[q] = wait_queue[q]
      BY <1>0, <2>2, QueueUntouched DEF semaphore_down, schedVars
    <3>2. QED
      BY <1>2, <3>1
  <2>3. QED
    BY <2>1, <2>2
<1>3. QED
  BY <1>1, <1>2 DEF semaphore_down

(* semaphore_up(): nobody joins a queue.                                   *)
LEMMA UpEffect ==
    ASSUME SyncTypeOK, SemaphoreCountsWaiters, NEW s \in Semaphores, semaphore_up(s)
    PROVE  /\ sem_value' = [sem_value EXCEPT ![s] = @ + 1]
           /\ SemaphoreCountsWaiters'
           /\ \A q \in Queues, u \in Tasks :
                 In(u, wait_queue'[q]) => In(u, wait_queue[q])
           /\ UNCHANGED <<lock_status, current_members, acquiring>>
<1>0. s \in Queues /\ SchedTypeOK /\ unblock_one(s)
  BY QueuesAssumption DEF SyncTypeOK, semaphore_up
<1>1. SemaphoreCountsWaiters'
  <2> SUFFICES ASSUME NEW r \in Semaphores
               PROVE  SemInv(r)'
    BY DEF SemaphoreCountsWaiters, SemInv
  <2>0. SemInv(r) /\ r \in Queues
    BY QueuesAssumption DEF SemaphoreCountsWaiters, SemInv
  <2>1. CASE r = s
    BY <2>0, <2>1, UpStep
  <2>2. CASE r # s
    <3>1. wait_queue'[r] = wait_queue[r]
      BY <1>0, <2>0, <2>2, QueueUntouched
    <3>2. sem_value'[r] = sem_value[r]
      BY <2>2 DEF semaphore_up, SyncTypeOK
    <3>3. QED
      BY <2>0, <3>1, <3>2 DEF SemInv
  <2>3. QED
    BY <2>1, <2>2
<1>2. ASSUME NEW q \in Queues, NEW u \in Tasks, In(u, wait_queue'[q])
      PROVE  In(u, wait_queue[q])
  <2>1. CASE q = s /\ wait_queue[s] # <<>>
    <3>1. wait_queue'[q] = Tail(wait_queue[q]) /\ wait_queue[q] \in Seq(Tasks)
      BY <1>0, <2>1, UnblockOneQueue DEF SchedTypeOK
    <3>2. QED
      BY <1>2, <2>1, <3>1, DequeueLemma
  <2>2. CASE q # s \/ wait_queue[s] = <<>>
    <3>1. wait_queue'[q] = wait_queue[q]
      BY <1>0, <2>2, QueueUntouched, UnblockOneQueue
    <3>2. QED
      BY <1>2, <3>1
  <2>3. QED
    BY <2>1, <2>2
<1>3. QED
  BY <1>1, <1>2 DEF semaphore_up
-----------------------------------------------------------------------------
(***************************************************************************)
(* The inductive invariant.  The three semaphores of a box are accounted   *)
(* for by the tasks that are between two of them: a sender that passed     *)
(* not_used has a slot it has not written, a receiver that passed used a   *)
(* message it has not read, and whoever has written or read has not told   *)
(* the other side yet.  So no sender finds the ring full and no receiver   *)
(* finds it empty.                                                         *)
(***************************************************************************)
\* The tasks that are at some place of a call with box b.
At(b, P) == {t \in Clients : arg[t] = b /\ where[t] \in P}

Sending == {"send_mutex", "send_write"}     \* before the message is written
Announcing == {"send_used"}                 \* after
Receiving == {"recv_mutex", "recv_read"}    \* before a message is read
Freeing == {"recv_not_used"}                \* after

\* A task calls with a box it has open.
CallsAreUsers ==
    \A t \in Clients :
        /\ where[t] # "user" => opened[t][arg[t]] > 0
        /\ where[t] \in Sending => msg[t] \in Msgs

\* Who waits at a semaphore has just passed the semaphore_down() on it.
WaitersInCall ==
    \A b \in Boxes, t \in Tasks :
        /\ In(t, wait_queue[not_used(b)]) => t \in At(b, {"send_mutex"})
        /\ In(t, wait_queue[used(b)]) => t \in At(b, {"recv_mutex"})
        /\ In(t, wait_queue[mutex(b)]) => t \in At(b, {"send_write", "recv_read"})

SlotsCounted(b) ==
    /\ sem_value[not_used(b)] + Cardinality(At(b, Sending)) + Cardinality(At(b, Freeing))
         = MAX_MBOX_LENGTH - Len(in_flight[b])
    /\ sem_value[used(b)] + Cardinality(At(b, Receiving)) + Cardinality(At(b, Announcing))
         = Len(in_flight[b])

RingHolds(b) ==
    /\ Len(in_flight[b]) <= MAX_MBOX_LENGTH
    /\ write_index[b] = (read_index[b] + Len(in_flight[b])) % MAX_MBOX_LENGTH
    /\ \A i \in 1..Len(in_flight[b]) :
          in_flight[b][i] = box[b][(read_index[b] + i - 1) % MAX_MBOX_LENGTH]

MailBoxInv ==
    /\ MailBoxTypeOK /\ BootInv /\ EachTaskInOnePlace
    /\ SemaphoreCountsWaiters
    /\ CallsAreUsers /\ WaitersInCall /\ UsersCounted
    /\ \A b \in Boxes : SlotsCounted(b) /\ RingHolds(b)

(* The tasks at a place are finitely many, and so are the opens of a box.  *)
LEMMA AtFinite ==
    ASSUME NEW b, NEW P
    PROVE  /\ IsFiniteSet(Clients)
           /\ IsFiniteSet(At(b, P)) /\ Cardinality(At(b, P)) \in Nat
           /\ IsFiniteSet(Opens(b)) /\ Cardinality(Opens(b)) \in Nat
<1>1. IsFiniteSet(Clients)
  BY MailBoxAssumption, FS_Subset DEF Clients
<1>2. IsFiniteSet(Clients \X (1..MaxOpens))
  <2>1. IsFiniteSet(1..MaxOpens)
    BY MailBoxAssumption, FS_Interval
  <2>2. QED
    BY <1>1, <2>1, FS_Product
<1>3. At(b, P) \in SUBSET Clients /\ Opens(b) \in SUBSET (Clients \X (1..MaxOpens))
  BY DEF At, Opens
<1>4. IsFiniteSet(At(b, P)) /\ IsFiniteSet(Opens(b))
  BY <1>1, <1>2, <1>3, FS_Subset
<1>5. QED
  BY <1>1, <1>4, FS_CardinalityType

(* A task that does not wait among the others leaves them too few to be    *)
(* all the tasks at their place.                                           *)
LEMMA NotAllWait ==
    ASSUME NEW A, IsFiniteSet(A), NEW q \in Seq(Tasks), NoDup(q),
           \A u \in Tasks : In(u, q) => u \in A,
           NEW t \in A, ~In(t, q)
    PROVE  Len(q) < Cardinality(A)
<1> DEFINE others == A \ {t}
<1>1. /\ IsFiniteSet(others) /\ Cardinality(others) = Cardinality(A) - 1
      /\ Cardinality(A) \in Nat
  BY FS_RemoveElement, FS_CardinalityType
<1>2. Len(q) \in Nat /\ q \in [1..Len(q) -> others]
  BY LenProperties, ElementOfSeq DEF In
<1>3. \A i, j \in 1..Len(q) : q[i] = q[j] => i = j
  BY DEF NoDup
<1> HIDE DEF others
<1>4. Len(q) <= Cardinality(others)
  BY <1>1, <1>2, <1>3, FitsLemma
<1>5. QED
  BY <1>1, <1>2, <1>4

(* What passed a semaphore of value v, where w wait, and did not wait.     *)
LEMMA PassedIsAhead ==
    ASSUME NEW v \in Int, NEW passed \in Nat, NEW others \in Nat, NEW w \in Nat,
           w = IF v < 0 THEN -v ELSE 0, w < passed
    PROVE  v + passed + others > 0
OBVIOUS

(* A sender that has passed mutex finds a slot.                            *)
LEMMA SenderFindsSlot ==
    ASSUME MailBoxInv, NEW t \in Clients, Running(t), where[t] = "send_write"
    PROVE  Len(in_flight[arg[t]]) < MAX_MBOX_LENGTH
<1> DEFINE b == arg[t]
           s == not_used(b)
           S == At(b, Sending)
<1>0. b \in Boxes /\ s \in Semaphores /\ s \in Queues /\ t \in Tasks
  BY BoxSemaphoreTypes DEF MailBoxInv, MailBoxTypeOK, Clients
<1>1. /\ wait_queue[s] \in Seq(Tasks) /\ NoDup(wait_queue[s]) /\ sem_value[s] \in Int
      /\ in_flight[b] \in Seq(Msgs)
  BY <1>0 DEF MailBoxInv, MailBoxTypeOK, SyncTypeOK, SchedTypeOK, EachTaskInOnePlace,
     QueuesAreSets
<1>2. ~In(t, wait_queue[s])
  BY <1>0, RunningIsNowhere DEF MailBoxInv, MailBoxTypeOK, SyncTypeOK, Inv
<1>3. \A u \in Tasks : In(u, wait_queue[s]) => u \in S
  BY <1>0 DEF MailBoxInv, WaitersInCall, At, Sending
<1>4. t \in S /\ IsFiniteSet(S) /\ Cardinality(S) \in Nat
  <2>1. t \in S
    BY DEF At, Sending
  <2>2. QED
    BY <2>1, AtFinite
<1>5. Len(wait_queue[s]) < Cardinality(S)
  <2> HIDE DEF S, s
  <2>1. QED
    BY <1>1, <1>2, <1>3, <1>4, NotAllWait
<1>6. Len(wait_queue[s]) = IF sem_value[s] < 0 THEN -sem_value[s] ELSE 0
  BY <1>0 DEF MailBoxInv, SemaphoreCountsWaiters
<1>7. /\ sem_value[s] + Cardinality(S) + Cardinality(At(b, Freeing))
           = MAX_MBOX_LENGTH - Len(in_flight[b])
      /\ Cardinality(At(b, Freeing)) \in Nat
  BY <1>0, AtFinite DEF MailBoxInv, SlotsCounted
<1>8. Len(in_flight[b]) \in Nat /\ Len(wait_queue[s]) \in Nat
  BY <1>1, LenProperties
<1>9. MAX_MBOX_LENGTH - Len(in_flight[b]) > 0
  <2> HIDE DEF S, s, b
  <2>1. QED
    BY <1>1, <1>4, <1>5, <1>6, <1>7, <1>8, PassedIsAhead
<1>10. QED
  BY <1>8, <1>9, MailBoxAssumption

(* A receiver that has passed mutex finds a message.                       *)
LEMMA ReceiverFindsMessage ==
    ASSUME MailBoxInv, NEW t \in Clients, Running(t), where[t] = "recv_read"
    PROVE  in_flight[arg[t]] # <<>>
<1> DEFINE b == arg[t]
           s == used(b)
           S == At(b, Receiving)
<1>0. b \in Boxes /\ s \in Semaphores /\ s \in Queues /\ t \in Tasks
  BY BoxSemaphoreTypes DEF MailBoxInv, MailBoxTypeOK, Clients
<1>1. /\ wait_queue[s] \in Seq(Tasks) /\ NoDup(wait_queue[s]) /\ sem_value[s] \in Int
      /\ in_flight[b] \in Seq(Msgs)
  BY <1>0 DEF MailBoxInv, MailBoxTypeOK, SyncTypeOK, SchedTypeOK, EachTaskInOnePlace,
     QueuesAreSets
<1>2. ~In(t, wait_queue[s])
  BY <1>0, RunningIsNowhere DEF MailBoxInv, MailBoxTypeOK, SyncTypeOK, Inv
<1>3. \A u \in Tasks : In(u, wait_queue[s]) => u \in S
  BY <1>0 DEF MailBoxInv, WaitersInCall, At, Receiving
<1>4. t \in S /\ IsFiniteSet(S) /\ Cardinality(S) \in Nat
  <2>1. t \in S
    BY DEF At, Receiving
  <2>2. QED
    BY <2>1, AtFinite
<1>5. Len(wait_queue[s]) < Cardinality(S)
  <2> HIDE DEF S, s
  <2>1. QED
    BY <1>1, <1>2, <1>3, <1>4, NotAllWait
<1>6. Len(wait_queue[s]) = IF sem_value[s] < 0 THEN -sem_value[s] ELSE 0
  BY <1>0 DEF MailBoxInv, SemaphoreCountsWaiters
<1>7. /\ sem_value[s] + Cardinality(S) + Cardinality(At(b, Announcing)) = Len(in_flight[b])
      /\ Cardinality(At(b, Announcing)) \in Nat
  BY <1>0, AtFinite DEF MailBoxInv, SlotsCounted
<1>8. Len(wait_queue[s]) \in Nat
  BY <1>1, LenProperties
<1>9. Len(in_flight[b]) > 0
  <2> HIDE DEF S, s, b
  <2>1. QED
    BY <1>1, <1>4, <1>5, <1>6, <1>7, <1>8, PassedIsAhead
<1>10. QED
  BY <1>1, <1>9
-----------------------------------------------------------------------------
(***************************************************************************)
(* Every step is one of the scheduler's: the CPU changes hands in a call   *)
(* only by block() and unblock_one(), and the last close of a box finds    *)
(* nobody in its queues.                                                   *)
(***************************************************************************)
(* The close that follows the last open of a box finds nobody in a call    *)
(* with it.                                                                *)
LEMMA CloseFindsNobody ==
    ASSUME MailBoxInv, NEW t \in Clients, NEW d \in Boxes, do_mbox_close(t, d),
           user_number'[d] = 0
    PROVE  /\ \A u \in Clients : where[u] # "user" => arg[u] # d
           /\ \A s \in BoxSemaphores(d) : wait_queue[s] = <<>>
<1> DEFINE others == Opens(d) \ {<<t, 1>>}
<1>0. /\ opened[t][d] > 0 /\ where[t] = "user"
      /\ opened \in [Clients -> [Boxes -> 0..MaxOpens]] /\ 1 \in 1..MaxOpens
  BY MailBoxAssumption DEF do_mbox_close, InUser, MailBoxInv, MailBoxTypeOK
<1>1. Cardinality(Opens(d)) = 1
  BY DEF do_mbox_close, MailBoxInv, MailBoxTypeOK, UsersCounted
<1>2. \A u \in Clients : opened[u][d] > 0 => <<u, 1>> \in Opens(d)
  BY <1>0 DEF Opens
<1>3. IsFiniteSet(others) /\ Cardinality(others) = 0
  <2>1. <<t, 1>> \in Opens(d) /\ IsFiniteSet(Opens(d))
    BY <1>0, <1>2, AtFinite
  <2>2. QED
    BY <1>1, <2>1, FS_RemoveElement
<1>4. others = {}
  BY <1>3, FS_EmptySet
<1>5. ASSUME NEW u \in Clients, where[u] # "user"
      PROVE  arg[u] # d
  <2>1. opened[u][arg[u]] > 0 /\ u # t
    BY <1>0, <1>5 DEF MailBoxInv, CallsAreUsers
  <2>2. opened[u][d] > 0 => <<u, 1>> \in others
    BY <1>2, <2>1
  <2>3. QED
    BY <1>4, <2>1, <2>2
<1>6. ASSUME NEW s \in BoxSemaphores(d), wait_queue[s] # <<>>
      PROVE  FALSE
  <2>1. s \in Queues
    BY BoxSemaphoreTypes DEF BoxSemaphores
  <2>2. PICK u \in Tasks : In(u, wait_queue[s])
    BY <1>6, <2>1, DequeueLemma DEF MailBoxInv, MailBoxTypeOK, SyncTypeOK, SchedTypeOK
  <2>3. u \in Clients /\ arg[u] = d /\ where[u] # "user"
    BY <2>2 DEF BoxSemaphores, MailBoxInv, WaitersInCall, At
  <2>4. QED
    BY <1>5, <2>3
<1>8. QED
  BY <1>5, <1>6, <1>6

(* do_mbox_close() leaves the scheduler alone.                             *)
LEMMA CloseLeavesScheduler ==
    ASSUME MailBoxInv, NEW t \in Clients, NEW d \in Boxes, do_mbox_close(t, d)
    PROVE  UNCHANGED schedVars
<1>1. wait_queue' = wait_queue
  <2>1. CASE user_number'[d] = 0
    <3>1. wait_queue' = [q \in Queues |-> IF q \in BoxSemaphores(d) THEN <<>>
                                          ELSE wait_queue[q]]
      BY <2>1 DEF do_mbox_close, init_one_mbox
    <3>2. \A q \in Queues : wait_queue'[q] = wait_queue[q]
      BY <2>1, <3>1, CloseFindsNobody
    <3>3. QED
      BY <3>1, <3>2 DEF MailBoxInv, MailBoxTypeOK, SyncTypeOK, SchedTypeOK
  <2>2. CASE user_number'[d] # 0
    BY <2>2 DEF do_mbox_close
  <2>3. QED
    BY <2>1, <2>2
<1>2. QED
  BY <1>1 DEF do_mbox_close, schedVars

(* A semaphore call of a client is one of an arbitrary client's.           *)
LEMMA SemaphoreCallIsStep ==
    ASSUME NEW t \in Clients, Running(t), NEW s \in Semaphores,
           semaphore_down(s) \/ semaphore_up(s)
    PROVE  [SchedNext]_schedVars
<1>1. t \in Tasks /\ t \notin Clock /\ s \in Queues
  BY ClockAssumption, QueuesAssumption DEF Clients
<1>2. block(s) \/ unblock_head(s) \/ UNCHANGED schedVars
  BY DEF semaphore_down, semaphore_up, unblock_one
<1>3. QED
  BY <1>1, <1>2 DEF SchedNext, WaitQueueCall

(* Which semaphore a step of a call is about.                              *)
LEMMA TransferCalls ==
    ASSUME MailBoxTypeOK, NEW t \in Clients, Transfer(t)
    PROVE  /\ Running(t)
           /\ \E s \in Semaphores : semaphore_down(s) \/ semaphore_up(s)
           /\ UNCHANGED tableVars
<1>1. arg[t] \in Boxes
  BY DEF MailBoxTypeOK
<1>2. CASE do_mbox_send(t)
  BY <1>1, <1>2, BoxSemaphoreTypes
     DEF do_mbox_send, send_enter, send_mutex, send_write, send_used, Step
<1>3. CASE do_mbox_recv(t)
  BY <1>1, <1>3, BoxSemaphoreTypes
     DEF do_mbox_recv, recv_enter, recv_mutex, recv_read, recv_not_used, Step
<1>4. QED
  BY <1>2, <1>3 DEF Transfer

(* The steps of the scheduler touch no wait queue.                         *)
LEMMA SystemQueues ==
    ASSUME System
    PROVE  /\ wait_queue' = wait_queue
           /\ UNCHANGED <<syncVars, tableVars, slotVars, callVars>>
           /\ [SchedNext]_schedVars
<1>1. wait_queue' = wait_queue
  BY DEF System, scheduler, dispatch, timer_irq, timer_irq_process, timer_irq_thread,
     clock_thread, do_yield
<1>2. \A t \in Clock : t \in Tasks
  BY ClockAssumption, ThreadsAssumption
<1>3. QED
  BY <1>1, <1>2 DEF System, SchedNext

LEMMA MailBoxStepIsSchedStep ==
    ASSUME MailBoxInv, [MailBoxNext]_mboxVars
    PROVE  [SchedNext]_schedVars
<1>1. CASE System
  BY <1>1, SystemQueues
<1>2. ASSUME NEW t \in Clients, Transfer(t)
      PROVE  [SchedNext]_schedVars
  BY <1>2, TransferCalls, SemaphoreCallIsStep DEF MailBoxInv
<1>3. ASSUME NEW t \in Clients, NEW n \in Names, do_mbox_open(t, n)
      PROVE  [SchedNext]_schedVars
  BY <1>3 DEF do_mbox_open, vars
<1>4. ASSUME NEW t \in Clients, NEW d \in Boxes, do_mbox_close(t, d)
      PROVE  [SchedNext]_schedVars
  BY <1>4, CloseLeavesScheduler
<1>5. CASE UNCHANGED mboxVars
  BY <1>5 DEF mboxVars, vars
<1>6. QED
  BY <1>1, <1>2, <1>3, <1>4, <1>5 DEF MailBoxNext, OpenOrClose

(* So the types and places of Scheduler are kept.                          *)
LEMMA SchedulerKept ==
    ASSUME MailBoxInv, [MailBoxNext]_mboxVars
    PROVE  SchedTypeOK' /\ BootInv' /\ EachTaskInOnePlace'
BY MailBoxStepIsSchedStep, TypeStep, PlaceStep DEF MailBoxInv, MailBoxTypeOK, SyncTypeOK, Inv
-----------------------------------------------------------------------------
(***************************************************************************)
(* Types, one lemma for the steps of a call and one for open and close.    *)
(***************************************************************************)
\* The types of what a call changes.
CallTypeOK ==
    /\ sem_value \in [Semaphores -> Int]
    /\ box \in [Boxes -> [Slots -> Msgs \cup {NoMsg}]]
    /\ write_index \in [Boxes -> Slots] /\ read_index \in [Boxes -> Slots]
    /\ where \in [Clients -> Calls]
    /\ arg \in [Clients -> Boxes]
    /\ msg \in [Clients -> Msgs \cup {NoMsg}]
    /\ got \in Msgs \cup {NoMsg}
    /\ in_flight \in [Boxes -> Seq(Msgs)]

(* What semaphore_down() and semaphore_up() do to the values.              *)
LEMMA SemaphoreType ==
    ASSUME CallTypeOK, NEW s \in Semaphores, semaphore_down(s) \/ semaphore_up(s)
    PROVE  sem_value' \in [Semaphores -> Int]
BY DEF CallTypeOK, semaphore_down, semaphore_up

(* The next slot is one.                                                   *)
LEMMA NextSlot ==
    ASSUME NEW i \in Slots
    PROVE  (i + 1) % MAX_MBOX_LENGTH \in Slots
BY MailBoxAssumption DEF Slots

LEMMA TransferTypes ==
    ASSUME MailBoxInv, NEW t \in Clients, Transfer(t)
    PROVE  CallTypeOK'
<1> USE DEF Step, slotVars
<1>0. /\ CallTypeOK /\ arg[t] \in Boxes /\ boxes[t] \in SUBSET Boxes
      /\ \A b \in Boxes : used(b) \in Semaphores /\ not_used(b) \in Semaphores
                          /\ mutex(b) \in Semaphores
  BY BoxSemaphoreTypes DEF MailBoxInv, MailBoxTypeOK, SyncTypeOK, CallTypeOK
<1>1. ASSUME NEW b \in Boxes, NEW m \in Msgs, send_enter(t, b, m)
      PROVE  CallTypeOK'
  BY <1>0, <1>1, SemaphoreType DEF send_enter, CallTypeOK, Calls
<1>2. CASE send_mutex(t)
  BY <1>0, <1>2, SemaphoreType DEF send_mutex, CallTypeOK, Calls
<1>3. CASE send_write(t)
  <2>1. msg[t] \in Msgs
    BY <1>3 DEF send_write, MailBoxInv, CallsAreUsers, Sending
  <2>2. /\ write_index' \in [Boxes -> Slots]
        /\ box' \in [Boxes -> [Slots -> Msgs \cup {NoMsg}]]
        /\ in_flight' \in [Boxes -> Seq(Msgs)]
    BY <1>0, <1>3, <2>1, NextSlot DEF send_write, CallTypeOK
  <2>3. QED
    BY <1>0, <1>3, <2>2, SemaphoreType DEF send_write, CallTypeOK, Calls
<1>4. CASE send_used(t)
  BY <1>0, <1>4, SemaphoreType DEF send_used, CallTypeOK, Calls
<1>5. ASSUME NEW b \in Boxes, recv_enter(t, b)
      PROVE  CallTypeOK'
  BY <1>0, <1>5, SemaphoreType DEF recv_enter, CallTypeOK, Calls
<1>6. CASE recv_mutex(t)
  BY <1>0, <1>6, SemaphoreType DEF recv_mutex, CallTypeOK, Calls
<1>7. CASE recv_read(t)
  <2>1. read_index' \in [Boxes -> Slots] /\ got' \in Msgs \cup {NoMsg}
    BY <1>0, <1>7, NextSlot DEF recv_read, CallTypeOK
  <2>2. in_flight' \in [Boxes -> Seq(Msgs)]
    BY <1>0, <1>7 DEF recv_read, CallTypeOK
  <2>3. QED
    BY <1>0, <1>7, <2>1, <2>2, SemaphoreType DEF recv_read, CallTypeOK, Calls
<1>8. CASE recv_not_used(t)
  BY <1>0, <1>8, SemaphoreType DEF recv_not_used, CallTypeOK, Calls
<1>9. QED
  BY <1>1, <1>2, <1>3, <1>4, <1>5, <1>6, <1>7, <1>8 DEF Transfer, do_mbox_send, do_mbox_recv

(* The types of the table of boxes.                                        *)
TableTypeOK ==
    /\ named \in [Boxes -> BOOLEAN]
    /\ user_number \in [Boxes -> Int]
    /\ boxes \in [Clients -> SUBSET Boxes]
    /\ opened \in [Clients -> [Boxes -> 0..MaxOpens]]

LEMMA OpenTypes ==
    ASSUME TableTypeOK, NEW t \in Clients, NEW n \in Names, do_mbox_open(t, n)
    PROVE  TableTypeOK'
<1>0. ASSUME NEW b \in Boxes, open_box(t, b)
      PROVE  /\ user_number' \in [Boxes -> Int] /\ boxes' \in [Clients -> SUBSET Boxes]
             /\ opened' \in [Clients -> [Boxes -> 0..MaxOpens]]
  <2>1. opened[t][b] + 1 \in 0..MaxOpens
    BY <1>0, MailBoxAssumption DEF open_box, TableTypeOK
  <2>2. QED
    BY <1>0, <2>1 DEF open_box, TableTypeOK
<1>1. CASE open_existing(t, n)
  BY <1>0, <1>1 DEF open_existing, TableTypeOK
<1>2. CASE open_new(t, n)
  BY <1>0, <1>2 DEF open_new, TableTypeOK
<1>3. CASE open_full(n)
  BY <1>3 DEF open_full, tableVars, TableTypeOK
<1>4. QED
  BY <1>1, <1>2, <1>3 DEF do_mbox_open

LEMMA CloseTypes ==
    ASSUME TableTypeOK, CallTypeOK, NEW t \in Clients, NEW d \in Boxes, do_mbox_close(t, d)
    PROVE  TableTypeOK' /\ CallTypeOK'
<1>0. opened[t][d] - 1 \in 0..MaxOpens
  BY MailBoxAssumption DEF do_mbox_close, TableTypeOK
<1>1. /\ UNCHANGED <<box, callVars>>
      /\ boxes' \in [Clients -> SUBSET Boxes] /\ user_number' \in [Boxes -> Int]
      /\ opened' \in [Clients -> [Boxes -> 0..MaxOpens]]
  BY <1>0 DEF do_mbox_close, TableTypeOK
<1>2. CASE init_one_mbox(d)
  <2>1. 0 \in Slots /\ <<>> \in Seq(Msgs)
    BY MailBoxAssumption DEF Slots
  <2>2. \A s \in Semaphores : initial_value(s) \in Int
    BY MailBoxAssumption DEF initial_value
  <2>3. QED
    BY <1>1, <1>2, <2>1, <2>2 DEF init_one_mbox, TableTypeOK, CallTypeOK, callVars
<1>3. CASE UNCHANGED <<sem_value, named, write_index, read_index, in_flight>>
  BY <1>1, <1>3 DEF TableTypeOK, CallTypeOK, callVars
<1>4. QED
  BY <1>2, <1>3 DEF do_mbox_close

(* The variables nobody calls anything on.                                 *)
LEMMA OtherObjectsUntouched ==
    ASSUME MailBoxInv, [MailBoxNext]_mboxVars
    PROVE  UNCHANGED <<lock_status, current_members, acquiring>>
<1>1. ASSUME NEW t \in Clients, Transfer(t)
      PROVE  UNCHANGED <<lock_status, current_members, acquiring>>
  BY <1>1, TransferCalls DEF semaphore_down, semaphore_up, MailBoxInv
<1>2. QED
  BY <1>1 DEF MailBoxNext, System, OpenOrClose, do_mbox_open, do_mbox_close, mboxVars,
     vars, syncVars

LEMMA MailBoxTypeStep ==
    ASSUME MailBoxInv, [MailBoxNext]_mboxVars
    PROVE  MailBoxTypeOK'
<1>0. TableTypeOK /\ CallTypeOK
  BY DEF MailBoxInv, MailBoxTypeOK, SyncTypeOK, TableTypeOK, CallTypeOK
<1>1. TableTypeOK' /\ CallTypeOK'
  <2>1. CASE System \/ UNCHANGED mboxVars
    BY <1>0, <2>1, SystemQueues
       DEF mboxVars, vars, syncVars, tableVars, slotVars, callVars, TableTypeOK, CallTypeOK
  <2>2. ASSUME NEW t \in Clients, Transfer(t)
        PROVE  TableTypeOK' /\ CallTypeOK'
    BY <1>0, <2>2, TransferTypes, TransferCalls DEF MailBoxInv, tableVars, TableTypeOK
  <2>3. ASSUME NEW t \in Clients, NEW n \in Names, do_mbox_open(t, n)
        PROVE  TableTypeOK' /\ CallTypeOK'
    BY <1>0, <2>3, OpenTypes
       DEF do_mbox_open, vars, syncVars, slotVars, callVars, CallTypeOK
  <2>4. ASSUME NEW t \in Clients, NEW d \in Boxes, do_mbox_close(t, d)
        PROVE  TableTypeOK' /\ CallTypeOK'
    BY <1>0, <2>4, CloseTypes
  <2>5. QED
    BY <2>1, <2>2, <2>3, <2>4 DEF MailBoxNext, OpenOrClose
<1>2. SyncTypeOK'
  BY <1>1, SchedulerKept, OtherObjectsUntouched
     DEF MailBoxInv, MailBoxTypeOK, SyncTypeOK, CallTypeOK
<1>3. QED
  BY <1>1, <1>2 DEF MailBoxTypeOK, TableTypeOK, CallTypeOK
-----------------------------------------------------------------------------
(***************************************************************************)
(* Who is where in a call.                                                 *)
(***************************************************************************)
(* A step of a call changes the places of one task.                        *)
LEMMA TransferMoves ==
    ASSUME MailBoxInv, NEW t \in Clients, Transfer(t)
    PROVE  /\ where'[t] # "user" => opened[t][arg'[t]] > 0
           /\ where'[t] \in Sending => msg'[t] \in Msgs
           /\ \A u \in Clients \ {t} :
                 where'[u] = where[u] /\ arg'[u] = arg[u] /\ msg'[u] = msg[u]
<1> USE DEF Step, MailBoxInv, MailBoxTypeOK, CallsAreUsers, Sending
<1>1. ASSUME NEW b \in Boxes, NEW m \in Msgs, send_enter(t, b, m)
      PROVE  /\ opened[t][arg'[t]] > 0 /\ msg'[t] \in Msgs
             /\ \A u \in Clients \ {t} :
                   where'[u] = where[u] /\ arg'[u] = arg[u] /\ msg'[u] = msg[u]
  BY <1>1 DEF send_enter
<1>2. CASE do_mbox_send(t)
  BY <1>1, <1>2 DEF do_mbox_send, send_mutex, send_write, send_used
<1>3. CASE do_mbox_recv(t)
  BY <1>3 DEF do_mbox_recv, recv_enter, recv_mutex, recv_read, recv_not_used
<1>4. QED
  BY <1>2, <1>3 DEF Transfer

(* do_mbox_open() takes no box from anybody.                               *)
LEMMA OpenKeeps ==
    ASSUME TableTypeOK, NEW t \in Clients, NEW n \in Names, do_mbox_open(t, n),
           NEW u \in Clients, NEW b \in Boxes
    PROVE  opened[u][b] <= opened'[u][b]
<1>0. opened[u][b] \in Int
  BY MailBoxAssumption DEF TableTypeOK
<1>1. ASSUME NEW c \in Boxes, open_box(t, c)
      PROVE  opened[u][b] <= opened'[u][b]
  BY <1>0, <1>1 DEF open_box, TableTypeOK
<1>2. CASE open_full(n)
  BY <1>0, <1>2 DEF open_full, tableVars
<1>3. QED
  BY <1>1, <1>2 DEF do_mbox_open, open_existing, open_new

LEMMA CallsAreUsersStep ==
    ASSUME MailBoxInv, [MailBoxNext]_mboxVars
    PROVE  CallsAreUsers'
<1>0. CallsAreUsers
  BY DEF MailBoxInv
<1>1. CASE System \/ UNCHANGED mboxVars
  BY <1>0, <1>1, SystemQueues DEF mboxVars, tableVars, callVars, CallsAreUsers
<1>2. ASSUME NEW t \in Clients, Transfer(t)
      PROVE  CallsAreUsers'
  <2>1. opened' = opened
    BY <1>2, TransferCalls DEF MailBoxInv, tableVars
  <2>2. QED
    BY <1>0, <1>2, <2>1, TransferMoves DEF CallsAreUsers
<1>3. ASSUME NEW t \in Clients, NEW n \in Names, do_mbox_open(t, n)
      PROVE  CallsAreUsers'
  <2>1. UNCHANGED <<where, arg, msg>>
    BY <1>3 DEF do_mbox_open, callVars
  <2>2. ASSUME NEW u \in Clients, where[u] # "user"
        PROVE  opened'[u][arg[u]] > 0
    <3>1. opened[u][arg[u]] > 0 /\ arg[u] \in Boxes /\ TableTypeOK
      BY <1>0, <2>2 DEF CallsAreUsers, MailBoxInv, MailBoxTypeOK, TableTypeOK
    <3>2. opened[u][arg[u]] <= opened'[u][arg[u]]
      BY <1>3, <3>1, OpenKeeps
    <3>3. opened[u][arg[u]] \in Int /\ opened'[u][arg[u]] \in Int
      BY <1>3, <3>1, OpenTypes, MailBoxAssumption DEF TableTypeOK
    <3>4. QED
      BY <3>1, <3>2, <3>3
  <2>3. QED
    BY <1>0, <2>1, <2>2 DEF CallsAreUsers
<1>4. ASSUME NEW t \in Clients, NEW d \in Boxes, do_mbox_close(t, d)
      PROVE  CallsAreUsers'
  <2>1. \A u \in Clients \ {t} : opened'[u] = opened[u]
    BY <1>4 DEF do_mbox_close, MailBoxInv, MailBoxTypeOK
  <2>2. where[t] = "user" /\ UNCHANGED callVars
    BY <1>4 DEF do_mbox_close, InUser
  <2>3. QED
    BY <1>0, <2>1, <2>2 DEF callVars, CallsAreUsers, Sending
<1>5. QED
  BY <1>1, <1>2, <1>3, <1>4 DEF MailBoxNext, OpenOrClose

(* Who joins the queue of a semaphore has just passed its semaphore_down().*)
LEMMA WaitersInCallStep ==
    ASSUME MailBoxInv, [MailBoxNext]_mboxVars
    PROVE  WaitersInCall' /\ SemaphoreCountsWaiters'
<1>0. WaitersInCall /\ SemaphoreCountsWaiters /\ MailBoxTypeOK /\ SyncTypeOK
  BY DEF MailBoxInv, MailBoxTypeOK
<1>1. CASE System \/ UNCHANGED mboxVars \/ \E t \in Clients : OpenOrClose(t)
  <2>1. UNCHANGED <<wait_queue, where, arg>>
    BY <1>1, SystemQueues, CloseLeavesScheduler
       DEF mboxVars, vars, schedVars, callVars, OpenOrClose, do_mbox_open, do_mbox_close
  <2>2. WaitersInCall'
    BY <1>0, <2>1 DEF WaitersInCall, At
  <2>3. ASSUME NEW s \in Semaphores
        PROVE  sem_value'[s] = sem_value[s] \/ (wait_queue[s] = <<>> /\ sem_value'[s] \in Nat)
    <3>1. CASE System \/ UNCHANGED mboxVars
      BY <3>1, SystemQueues DEF mboxVars, vars, syncVars
    <3>2. ASSUME NEW t \in Clients, NEW n \in Names, do_mbox_open(t, n)
          PROVE  sem_value' = sem_value
      BY <3>2 DEF do_mbox_open, vars, syncVars
    <3>3. ASSUME NEW t \in Clients, NEW d \in Boxes, do_mbox_close(t, d)
          PROVE  sem_value'[s] = sem_value[s] \/ (wait_queue[s] = <<>> /\ sem_value'[s] \in Nat)
      <4>1. initial_value(s) \in Nat
        BY MailBoxAssumption DEF initial_value
      <4>2. CASE user_number'[d] = 0
        <5>1. sem_value'[s] = IF s \in BoxSemaphores(d) THEN initial_value(s)
                              ELSE sem_value[s]
          BY <3>3, <4>2 DEF do_mbox_close, init_one_mbox
        <5>2. s \in BoxSemaphores(d) => wait_queue[s] = <<>>
          BY <3>3, <4>2, CloseFindsNobody
        <5>3. QED
          BY <4>1, <5>1, <5>2
      <4>3. CASE user_number'[d] # 0
        BY <3>3, <4>3 DEF do_mbox_close
      <4>4. QED
        BY <4>2, <4>3
    <3>4. QED
      BY <1>1, <3>1, <3>2, <3>3 DEF OpenOrClose
  <2>4. SemaphoreCountsWaiters'
    BY <1>0, <2>1, <2>3 DEF SemaphoreCountsWaiters
  <2>5. QED
    BY <2>2, <2>4
<1>2. ASSUME NEW t \in Clients, Transfer(t)
      PROVE  WaitersInCall' /\ SemaphoreCountsWaiters'
  <2> DEFINE Waits(u, b, s, P) == In(u, wait_queue'[s]) => u \in At(b, P)'
  <2>0. t \in Tasks /\ Running(t) /\ arg[t] \in Boxes
    BY <1>0, <1>2, TransferCalls DEF MailBoxTypeOK, Clients
  <2>1. SemaphoreCountsWaiters'
    BY <1>0, <1>2, <2>0, TransferCalls, DownEffect, UpEffect
  <2>2. ASSUME NEW u \in Tasks, u # t, NEW b \in Boxes
        PROVE  /\ In(u, wait_queue'[not_used(b)]) => In(u, wait_queue[not_used(b)])
               /\ In(u, wait_queue'[used(b)]) => In(u, wait_queue[used(b)])
               /\ In(u, wait_queue'[mutex(b)]) => In(u, wait_queue[mutex(b)])
    BY <1>0, <1>2, <2>0, <2>2, TransferCalls, DownEffect, UpEffect, BoxSemaphoreTypes
  <2>3. \A q \in Queues : ~In(t, wait_queue[q])
    BY <1>0, <2>0, RunningIsNowhere DEF MailBoxInv, SyncTypeOK, Inv
  <2>4. ASSUME NEW s \in Semaphores, semaphore_down(s), NEW q \in Queues,
               In(t, wait_queue'[q])
        PROVE  q = s
    BY <1>0, <2>0, <2>3, <2>4, DownEffect
  <2>5. ASSUME NEW s \in Semaphores, semaphore_up(s), NEW q \in Queues
        PROVE  ~In(t, wait_queue'[q])
    BY <1>0, <2>0, <2>3, <2>5, UpEffect
  <2>6. ASSUME NEW b \in Boxes
        PROVE  /\ In(t, wait_queue'[not_used(b)]) => arg'[t] = b /\ where'[t] = "send_mutex"
               /\ In(t, wait_queue'[used(b)]) => arg'[t] = b /\ where'[t] = "recv_mutex"
               /\ In(t, wait_queue'[mutex(b)])
                     => arg'[t] = b /\ where'[t] \in {"send_write", "recv_read"}
    <3>1. /\ not_used(b) \in Queues /\ used(b) \in Queues /\ mutex(b) \in Queues
          /\ \A c \in Boxes : used(c) \in Semaphores /\ not_used(c) \in Semaphores
                              /\ mutex(c) \in Semaphores
      BY BoxSemaphoreTypes
    <3>2. ASSUME NEW c \in Boxes, NEW m \in Msgs, send_enter(t, c, m)
          PROVE  /\ semaphore_down(not_used(c))
                 /\ arg'[t] = c /\ where'[t] = "send_mutex"
      BY <1>0, <3>2 DEF send_enter, Step, MailBoxTypeOK
    <3>3. ASSUME NEW c \in Boxes, recv_enter(t, c)
          PROVE  semaphore_down(used(c)) /\ arg'[t] = c /\ where'[t] = "recv_mutex"
      BY <1>0, <3>3 DEF recv_enter, Step, MailBoxTypeOK
    <3>4. ASSUME send_mutex(t) \/ recv_mutex(t)
          PROVE  /\ semaphore_down(mutex(arg[t]))
                 /\ arg'[t] = arg[t] /\ where'[t] \in {"send_write", "recv_read"}
      BY <1>0, <3>4 DEF send_mutex, recv_mutex, Step, MailBoxTypeOK
    <3>5. ASSUME send_write(t) \/ send_used(t) \/ recv_read(t) \/ recv_not_used(t)
          PROVE  \E s \in Semaphores : semaphore_up(s)
      BY <2>0, <3>1, <3>5 DEF send_write, send_used, recv_read, recv_not_used
    <3>6. CASE \E c \in Boxes, m \in Msgs : send_enter(t, c, m)
      BY <2>4, <3>1, <3>2, <3>6, SemaphoresDiffer
    <3>7. CASE \E c \in Boxes : recv_enter(t, c)
      BY <2>4, <3>1, <3>3, <3>7, SemaphoresDiffer
    <3>8. CASE send_mutex(t) \/ recv_mutex(t)
      BY <2>0, <2>4, <3>1, <3>4, <3>8, SemaphoresDiffer
    <3>9. CASE send_write(t) \/ send_used(t) \/ recv_read(t) \/ recv_not_used(t)
      BY <2>5, <3>1, <3>5, <3>9
    <3>10. QED
      BY <1>2, <3>6, <3>7, <3>8, <3>9 DEF Transfer, do_mbox_send, do_mbox_recv
  <2>7. WaitersInCall'
    <3> SUFFICES ASSUME NEW b \in Boxes, NEW u \in Tasks
                 PROVE  /\ In(u, wait_queue'[not_used(b)]) => u \in At(b, {"send_mutex"})'
                        /\ In(u, wait_queue'[used(b)]) => u \in At(b, {"recv_mutex"})'
                        /\ In(u, wait_queue'[mutex(b)])
                              => u \in At(b, {"send_write", "recv_read"})'
      BY DEF WaitersInCall
    <3>1. CASE u = t
      BY <1>2, <2>6, <3>1 DEF At
    <3>2. CASE u # t
      BY <1>0, <1>2, <2>2, <3>2, TransferMoves DEF WaitersInCall, At
    <3>3. QED
      BY <3>1, <3>2
  <2>8. QED
    BY <2>1, <2>7
<1>3. QED
  BY <1>1, <1>2 DEF MailBoxNext

\* The opens of a box after the step.
NewOpens(b) == {o \in Clients \X (1..MaxOpens) : o[2] <= opened'[o[1]][b]}

(* An open counts one more, the next of its task; a close gives the last   *)
(* one of its task back.                                                   *)
LEMMA OpenCounts ==
    ASSUME TableTypeOK, NEW t \in Clients, NEW c \in Boxes, open_box(t, c), NEW b \in Boxes
    PROVE  /\ Cardinality(NewOpens(b)) = Cardinality(Opens(b)) + (IF c = b THEN 1 ELSE 0)
           /\ user_number'[b] = user_number[b] + (IF c = b THEN 1 ELSE 0)
           /\ c = b => NewOpens(b) # {}
<1> DEFINE o == <<t, opened[t][c] + 1>>
<1>0. /\ IsFiniteSet(Opens(b)) /\ Cardinality(Opens(b)) \in Nat
      /\ \A u \in Clients : opened[u][b] \in 0..MaxOpens
      /\ MaxOpens \in Nat /\ user_number[b] \in Int
  BY AtFinite, MailBoxAssumption DEF TableTypeOK
<1>1. /\ \A u \in Clients :
            opened'[u][b] = IF u = t /\ b = c THEN opened[u][b] + 1 ELSE opened[u][b]
      /\ opened[t][c] < MaxOpens
      /\ user_number'[b] = user_number[b] + (IF c = b THEN 1 ELSE 0)
  BY <1>0 DEF open_box, TableTypeOK
<1>2. CASE c = b
  <2>1. o \in Clients \X (1..MaxOpens) /\ o \notin Opens(b)
    BY <1>0, <1>1, <1>2 DEF Opens, NewOpens
  <2>2. NewOpens(b) = Opens(b) \cup {o}
    <3>1. ASSUME NEW u \in Clients, NEW k \in 1..MaxOpens
          PROVE  k <= opened'[u][b] <=> k <= opened[u][b] \/ <<u, k>> = o
      BY <1>0, <1>1, <1>2, <3>1
    <3>2. QED
      BY <2>1, <3>1 DEF Opens, NewOpens
  <2> HIDE DEF o
  <2>3. QED
    BY <1>0, <1>1, <1>2, <2>1, <2>2, FS_AddElement
<1>3. CASE c # b
  <2>1. NewOpens(b) = Opens(b)
    BY <1>1, <1>3 DEF Opens, NewOpens
  <2>2. QED
    BY <1>0, <1>1, <1>3, <2>1
<1>4. QED
  BY <1>2, <1>3

LEMMA CloseCounts ==
    ASSUME TableTypeOK, NEW t \in Clients, NEW c \in Boxes, do_mbox_close(t, c), NEW b \in Boxes
    PROVE  /\ Cardinality(NewOpens(b)) = Cardinality(Opens(b)) - (IF c = b THEN 1 ELSE 0)
           /\ user_number'[b] = user_number[b] - (IF c = b THEN 1 ELSE 0)
           /\ IF c = b THEN Opens(b) # {} ELSE NewOpens(b) = Opens(b)
           /\ IsFiniteSet(NewOpens(b))
<1> DEFINE o == <<t, opened[t][c]>>
<1>0. /\ IsFiniteSet(Opens(b)) /\ Cardinality(Opens(b)) \in Nat
      /\ \A u \in Clients : opened[u][b] \in 0..MaxOpens
      /\ MaxOpens \in Nat /\ user_number[b] \in Int
  BY AtFinite, MailBoxAssumption DEF TableTypeOK
<1>1. /\ \A u \in Clients :
            opened'[u][b] = IF u = t /\ b = c THEN opened[u][b] - 1 ELSE opened[u][b]
      /\ opened[t][c] > 0
      /\ user_number'[b] = user_number[b] - (IF c = b THEN 1 ELSE 0)
  BY <1>0 DEF do_mbox_close, TableTypeOK
<1>2. CASE c = b
  <2>1. o \in Opens(b)
    BY <1>0, <1>1, <1>2 DEF Opens, NewOpens
  <2>2. NewOpens(b) = Opens(b) \ {o}
    <3>1. ASSUME NEW u \in Clients, NEW k \in 1..MaxOpens
          PROVE  k <= opened'[u][b] <=> k <= opened[u][b] /\ <<u, k>> # o
      BY <1>0, <1>1, <1>2, <3>1
    <3>2. QED
      BY <3>1 DEF Opens, NewOpens
  <2> HIDE DEF o
  <2>3. QED
    BY <1>0, <1>1, <1>2, <2>1, <2>2, FS_RemoveElement
<1>3. CASE c # b
  <2>1. NewOpens(b) = Opens(b)
    BY <1>1, <1>3 DEF Opens, NewOpens
  <2>2. QED
    BY <1>0, <1>1, <1>3, <2>1
<1>4. QED
  BY <1>2, <1>3

LEMMA UsersCountedStep ==
    ASSUME MailBoxInv, [MailBoxNext]_mboxVars
    PROVE  UsersCounted'
<1> SUFFICES ASSUME NEW b \in Boxes
             PROVE  /\ user_number'[b] = Cardinality(NewOpens(b))
                    /\ named'[b] <=> NewOpens(b) # {}
  BY DEF UsersCounted, Opens, NewOpens
<1>0. /\ user_number[b] = Cardinality(Opens(b))
      /\ named[b] <=> Opens(b) # {}
      /\ Cardinality(Opens(b)) \in Nat /\ IsFiniteSet(Opens(b))
      /\ TableTypeOK /\ named \in [Boxes -> BOOLEAN]
  BY AtFinite DEF MailBoxInv, MailBoxTypeOK, UsersCounted, TableTypeOK
<1>1. CASE UNCHANGED tableVars
  <2>1. NewOpens(b) = Opens(b) /\ UNCHANGED <<named, user_number>>
    BY <1>1 DEF tableVars, Opens, NewOpens
  <2>2. QED
    BY <1>0, <2>1
<1>2. ASSUME NEW t \in Clients, NEW n \in Names, do_mbox_open(t, n)
      PROVE  /\ user_number'[b] = Cardinality(NewOpens(b))
             /\ named'[b] <=> NewOpens(b) # {}
  <2>1. CASE open_full(n)
    BY <1>1, <2>1 DEF open_full
  <2>2. ASSUME NEW c \in Boxes, open_box(t, c),
               named'[b] = IF b = c THEN TRUE ELSE named[b]
        PROVE  /\ user_number'[b] = Cardinality(NewOpens(b))
               /\ named'[b] <=> NewOpens(b) # {}
    <3>1. c # b => NewOpens(b) = Opens(b)
      BY <1>0, <2>2 DEF open_box, TableTypeOK, Opens, NewOpens
    <3>2. QED
      BY <1>0, <2>2, <3>1, OpenCounts
  <2>3. CASE open_existing(t, n)
    BY <1>0, <2>2, <2>3 DEF open_existing, First, matches
  <2>4. CASE open_new(t, n)
    BY <1>0, <2>2, <2>4 DEF open_new, First
  <2>5. QED
    BY <1>2, <2>1, <2>3, <2>4 DEF do_mbox_open
<1>3. ASSUME NEW t \in Clients, NEW d \in Boxes, do_mbox_close(t, d)
      PROVE  /\ user_number'[b] = Cardinality(NewOpens(b))
             /\ named'[b] <=> NewOpens(b) # {}
  <2>1. named'[b] = IF b = d /\ user_number'[d] = 0 THEN FALSE ELSE named[b]
    BY <1>0, <1>3 DEF do_mbox_close, init_one_mbox
  <2>2. /\ user_number'[b] = Cardinality(NewOpens(b))
        /\ IF d = b THEN Opens(b) # {} ELSE NewOpens(b) = Opens(b)
        /\ IsFiniteSet(NewOpens(b))
    BY <1>0, <1>3, CloseCounts
  <2>3. Cardinality(NewOpens(b)) = 0 <=> NewOpens(b) = {}
    BY <2>2, FS_EmptySet
  <2>4. QED
    BY <1>0, <2>1, <2>2, <2>3
<1>4. CASE System \/ UNCHANGED mboxVars \/ \E t \in Clients : Transfer(t)
  <2>1. UNCHANGED tableVars
    BY <1>4, SystemQueues, TransferCalls DEF mboxVars, MailBoxInv
  <2>2. QED
    BY <1>1, <2>1
<1>5. QED
  BY <1>2, <1>3, <1>4
     DEF MailBoxNext, OpenOrClose
-----------------------------------------------------------------------------
(***************************************************************************)
(* The semaphores are accounted for.                                       *)
(***************************************************************************)
\* t goes on in a call with box b.
Goes(t, b, from, to) ==
    /\ Step(t, from, to)
    /\ arg' = [arg EXCEPT ![t] = b]
    /\ from # "user" => arg[t] = b

\* The tasks that are there after the step.
NewAt(b, P) == {t \in Clients : arg'[t] = b /\ where'[t] \in P}

(* A task that goes on in its call leaves one place and comes to another.  *)
LEMMA Moved ==
    ASSUME MailBoxTypeOK, NEW t \in Clients, NEW from, NEW to, NEW b \in Boxes,
           Goes(t, b, from, to), NEW c \in Boxes, NEW P, "user" \notin P
    PROVE  Cardinality(NewAt(c, P)) = (Cardinality(At(c, P))
              + (IF c = b /\ to \in P THEN 1 ELSE 0)) - (IF c = b /\ from \in P THEN 1 ELSE 0)
<1>1. /\ t \in At(c, P) <=> c = b /\ from \in P
      /\ NewAt(c, P) = IF c = b /\ to \in P THEN At(c, P) \cup {t} ELSE At(c, P) \ {t}
  BY DEF At, NewAt, Goes, Step, MailBoxTypeOK
<1>2. IsFiniteSet(At(c, P)) /\ Cardinality(At(c, P)) \in Nat
  BY AtFinite
<1>3. /\ Cardinality(At(c, P) \cup {t})
           = IF t \in At(c, P) THEN Cardinality(At(c, P)) ELSE Cardinality(At(c, P)) + 1
      /\ Cardinality(At(c, P) \ {t})
           = IF t \in At(c, P) THEN Cardinality(At(c, P)) - 1 ELSE Cardinality(At(c, P))
  BY <1>2, FS_AddElement, FS_RemoveElement
<1>4. QED
  BY <1>1, <1>2, <1>3

(* The same for the four places that count.                                *)
LEMMA MovedCounts ==
    ASSUME MailBoxTypeOK, NEW t \in Clients, NEW from, NEW to, NEW b \in Boxes,
           Goes(t, b, from, to), NEW c \in Boxes, NEW P \in {Sending, Announcing, Receiving, Freeing}
    PROVE  /\ Cardinality(At(c, P)) \in Nat
           /\ Cardinality(NewAt(c, P)) = (Cardinality(At(c, P))
                 + (IF c = b /\ to \in P THEN 1 ELSE 0)) - (IF c = b /\ from \in P THEN 1 ELSE 0)
<1>1. "user" \notin P
  BY DEF Sending, Announcing, Receiving, Freeing
<1>2. Cardinality(At(c, P)) \in Nat
  BY AtFinite
<1>3. QED
  BY <1>1, <1>2, Moved

\* What a step of a call on box b may do to what is counted of box c.
Recounted(c, no, us, se, an, re, fr, len) ==
    /\ sem_value'[not_used(c)] = sem_value[not_used(c)] + no
    /\ sem_value'[used(c)] = sem_value[used(c)] + us
    /\ Cardinality(NewAt(c, Sending)) = Cardinality(At(c, Sending)) + se
    /\ Cardinality(NewAt(c, Announcing)) = Cardinality(At(c, Announcing)) + an
    /\ Cardinality(NewAt(c, Receiving)) = Cardinality(At(c, Receiving)) + re
    /\ Cardinality(NewAt(c, Freeing)) = Cardinality(At(c, Freeing)) + fr
    /\ Len(in_flight'[c]) = Len(in_flight[c]) + len

(* It keeps the account if what it does adds up.                           *)
LEMMA RecountKeeps ==
    ASSUME MailBoxInv, NEW c \in Boxes,
           NEW no \in Int, NEW us \in Int, NEW se \in Int, NEW an \in Int,
           NEW re \in Int, NEW fr \in Int, NEW len \in Int,
           Recounted(c, no, us, se, an, re, fr, len),
           no + se + fr = -len, us + re + an = len
    PROVE  SlotsCounted(c)'
<1>0. \A P : Cardinality(At(c, P)) \in Nat
  BY AtFinite
<1>1. /\ Cardinality(At(c, Sending)) \in Int /\ Cardinality(At(c, Announcing)) \in Int
      /\ Cardinality(At(c, Receiving)) \in Int /\ Cardinality(At(c, Freeing)) \in Int
      /\ sem_value[not_used(c)] \in Int /\ sem_value[used(c)] \in Int
      /\ Len(in_flight[c]) \in Int /\ MAX_MBOX_LENGTH \in Int
  <2>1. sem_value[not_used(c)] \in Int /\ sem_value[used(c)] \in Int
    BY BoxSemaphoreTypes DEF MailBoxInv, MailBoxTypeOK, SyncTypeOK
  <2>2. Len(in_flight[c]) \in Nat /\ MAX_MBOX_LENGTH \in Nat
    BY MailBoxAssumption DEF MailBoxInv, MailBoxTypeOK
  <2>3. QED
    BY <1>0, <2>1, <2>2
<1>2. SlotsCounted(c)
  BY DEF MailBoxInv
<1>3. PICK s \in Int, a \in Int, r \in Int, f \in Int, n \in Int, u \in Int, l \in Int,
           max \in Int :
              /\ s = Cardinality(At(c, Sending)) /\ a = Cardinality(At(c, Announcing))
              /\ r = Cardinality(At(c, Receiving)) /\ f = Cardinality(At(c, Freeing))
              /\ n = sem_value[not_used(c)] /\ u = sem_value[used(c)]
              /\ l = Len(in_flight[c]) /\ max = MAX_MBOX_LENGTH
  BY <1>1
<1>4. n + s + f = max - l /\ u + r + a = l
  BY <1>2, <1>3 DEF SlotsCounted
<1>5. (n + no) + (s + se) + (f + fr) = max - (l + len)
  BY <1>4
<1>6. (u + us) + (r + re) + (a + an) = l + len
  BY <1>4
<1>7. /\ Cardinality(NewAt(c, Sending)) = s + se /\ Cardinality(NewAt(c, Announcing)) = a + an
      /\ Cardinality(NewAt(c, Receiving)) = r + re /\ Cardinality(NewAt(c, Freeing)) = f + fr
      /\ sem_value'[not_used(c)] = n + no /\ sem_value'[used(c)] = u + us
      /\ Len(in_flight'[c]) = l + len
  BY <1>3 DEF Recounted
<1>8. /\ sem_value'[not_used(c)] + Cardinality(NewAt(c, Sending)) + Cardinality(NewAt(c, Freeing))
            = MAX_MBOX_LENGTH - Len(in_flight'[c])
      /\ sem_value'[used(c)] + Cardinality(NewAt(c, Receiving)) + Cardinality(NewAt(c, Announcing))
            = Len(in_flight'[c])
  BY <1>3, <1>5, <1>6, <1>7, Zenon
<1>9. QED
  BY <1>8 DEF SlotsCounted, At, NewAt

(* The values of the other box's semaphores stay.                          *)
LEMMA ValuesAfter ==
    ASSUME MailBoxTypeOK, NEW s \in Semaphores, NEW r \in Semaphores
    PROVE  /\ semaphore_down(s) =>
                sem_value'[r] = IF r = s THEN sem_value[r] - 1 ELSE sem_value[r]
           /\ semaphore_up(s) =>
                sem_value'[r] = IF r = s THEN sem_value[r] + 1 ELSE sem_value[r]
BY DEF semaphore_down, semaphore_up, MailBoxTypeOK, SyncTypeOK

LEMMA TransferCounts ==
    ASSUME MailBoxInv, NEW t \in Clients, Transfer(t), NEW c \in Boxes
    PROVE  SlotsCounted(c)'
<1> DEFINE d(b) == IF c = b THEN 1 ELSE 0
           K == {Sending, Announcing, Receiving, Freeing}
<1>0. /\ MailBoxTypeOK /\ arg[t] \in Boxes /\ arg = [arg EXCEPT ![t] = arg[t]]
      /\ Len(in_flight[c]) \in Nat /\ in_flight[c] \in Seq(Msgs) /\ c \in Boxes
  BY LenProperties DEF MailBoxInv, MailBoxTypeOK
<1>1. /\ \A b \in Boxes : used(b) \in Semaphores /\ not_used(b) \in Semaphores
                          /\ mutex(b) \in Semaphores
      /\ sem_value[not_used(c)] \in Int /\ sem_value[used(c)] \in Int
  BY <1>0, BoxSemaphoreTypes DEF MailBoxTypeOK, SyncTypeOK
<1>2. \A P \in K : Cardinality(At(c, P)) \in Nat
  BY AtFinite
<1>3. ASSUME NEW b \in Boxes, NEW m \in Msgs, send_enter(t, b, m)
      PROVE  SlotsCounted(c)'
  <2>1. \A P \in K : Cardinality(NewAt(c, P)) = (Cardinality(At(c, P))
              + (IF c = b /\ "send_mutex" \in P THEN 1 ELSE 0))
              - (IF c = b /\ "user" \in P THEN 1 ELSE 0)
    <3>1. Goes(t, b, "user", "send_mutex")
      BY <1>3 DEF send_enter, Goes
    <3>2. QED
      BY <1>0, <3>1, MovedCounts
  <2>2. /\ sem_value'[not_used(c)] = sem_value[not_used(c)] + -d(b)
        /\ sem_value'[used(c)] = sem_value[used(c)] + 0
        /\ in_flight' = in_flight
    BY <1>0, <1>1, <1>3, ValuesAfter, SemaphoresDiffer DEF send_enter, slotVars
  <2>3. Recounted(c, -d(b), 0, d(b), 0, 0, 0, 0)
    BY <1>0, <1>1, <1>2, <2>1, <2>2
       DEF Recounted, Sending, Announcing, Receiving, Freeing
  <2>4. QED
    BY <2>3, RecountKeeps
<1>4. CASE send_mutex(t)
  <2>1. \A P \in K : Cardinality(NewAt(c, P)) = (Cardinality(At(c, P))
              + (IF c = arg[t] /\ "send_write" \in P THEN 1 ELSE 0))
              - (IF c = arg[t] /\ "send_mutex" \in P THEN 1 ELSE 0)
    <3>1. Goes(t, arg[t], "send_mutex", "send_write")
      BY <1>0, <1>4 DEF send_mutex, Goes
    <3>2. QED
      BY <1>0, <3>1, MovedCounts
  <2>2. /\ sem_value'[not_used(c)] = sem_value[not_used(c)] + 0
        /\ sem_value'[used(c)] = sem_value[used(c)] + 0
        /\ in_flight' = in_flight
    BY <1>0, <1>1, <1>4, ValuesAfter, SemaphoresDiffer DEF send_mutex, slotVars
  <2>3. Recounted(c, 0, 0, 0, 0, 0, 0, 0)
    BY <1>0, <1>1, <1>2, <2>1, <2>2
       DEF Recounted, Sending, Announcing, Receiving, Freeing
  <2>4. QED
    BY <2>3, RecountKeeps
<1>5. CASE send_write(t)
  <2>1. \A P \in K : Cardinality(NewAt(c, P)) = (Cardinality(At(c, P))
              + (IF c = arg[t] /\ "send_used" \in P THEN 1 ELSE 0))
              - (IF c = arg[t] /\ "send_write" \in P THEN 1 ELSE 0)
    <3>1. Goes(t, arg[t], "send_write", "send_used")
      BY <1>0, <1>5 DEF send_write, Goes
    <3>2. QED
      BY <1>0, <3>1, MovedCounts
  <2>2. /\ sem_value'[not_used(c)] = sem_value[not_used(c)] + 0
        /\ sem_value'[used(c)] = sem_value[used(c)] + 0
    BY <1>0, <1>1, <1>5, ValuesAfter, SemaphoresDiffer DEF send_write
  <2>3. Len(in_flight'[c]) = Len(in_flight[c]) + d(arg[t])
    <3>1. in_flight'[c] = IF c = arg[t] THEN Append(in_flight[c], msg[t]) ELSE in_flight[c]
      BY <1>0, <1>5 DEF send_write, MailBoxTypeOK
    <3>2. msg[t] \in Msgs
      BY <1>5 DEF send_write, Step, MailBoxInv, CallsAreUsers, Sending
    <3>3. CASE c = arg[t]
      BY <1>0, <3>1, <3>2, <3>3
    <3>4. CASE c # arg[t]
      BY <1>0, <3>1, <3>2, <3>4
    <3>5. QED
      BY <3>3, <3>4
  <2>4. Recounted(c, 0, 0, -d(arg[t]), d(arg[t]), 0, 0, d(arg[t]))
    BY <1>0, <1>1, <1>2, <2>1, <2>2, <2>3
       DEF Recounted, Sending, Announcing, Receiving, Freeing
  <2>5. QED
    BY <2>4, RecountKeeps
<1>6. CASE send_used(t)
  <2>1. \A P \in K : Cardinality(NewAt(c, P)) = (Cardinality(At(c, P))
              + (IF c = arg[t] /\ "user" \in P THEN 1 ELSE 0))
              - (IF c = arg[t] /\ "send_used" \in P THEN 1 ELSE 0)
    <3>1. Goes(t, arg[t], "send_used", "user")
      BY <1>0, <1>6 DEF send_used, Goes
    <3>2. QED
      BY <1>0, <3>1, MovedCounts
  <2>2. /\ sem_value'[not_used(c)] = sem_value[not_used(c)] + 0
        /\ sem_value'[used(c)] = sem_value[used(c)] + d(arg[t])
        /\ in_flight' = in_flight
    BY <1>0, <1>1, <1>6, ValuesAfter, SemaphoresDiffer DEF send_used, slotVars
  <2>3. Recounted(c, 0, d(arg[t]), 0, -d(arg[t]), 0, 0, 0)
    BY <1>0, <1>1, <1>2, <2>1, <2>2
       DEF Recounted, Sending, Announcing, Receiving, Freeing
  <2>4. QED
    BY <2>3, RecountKeeps
<1>7. ASSUME NEW b \in Boxes, recv_enter(t, b)
      PROVE  SlotsCounted(c)'
  <2>1. \A P \in K : Cardinality(NewAt(c, P)) = (Cardinality(At(c, P))
              + (IF c = b /\ "recv_mutex" \in P THEN 1 ELSE 0))
              - (IF c = b /\ "user" \in P THEN 1 ELSE 0)
    <3>1. Goes(t, b, "user", "recv_mutex")
      BY <1>7 DEF recv_enter, Goes
    <3>2. QED
      BY <1>0, <3>1, MovedCounts
  <2>2. /\ sem_value'[not_used(c)] = sem_value[not_used(c)] + 0
        /\ sem_value'[used(c)] = sem_value[used(c)] + -d(b)
        /\ in_flight' = in_flight
    BY <1>0, <1>1, <1>7, ValuesAfter, SemaphoresDiffer DEF recv_enter, slotVars
  <2>3. Recounted(c, 0, -d(b), 0, 0, d(b), 0, 0)
    BY <1>0, <1>1, <1>2, <2>1, <2>2
       DEF Recounted, Sending, Announcing, Receiving, Freeing
  <2>4. QED
    BY <2>3, RecountKeeps
<1>8. CASE recv_mutex(t)
  <2>1. \A P \in K : Cardinality(NewAt(c, P)) = (Cardinality(At(c, P))
              + (IF c = arg[t] /\ "recv_read" \in P THEN 1 ELSE 0))
              - (IF c = arg[t] /\ "recv_mutex" \in P THEN 1 ELSE 0)
    <3>1. Goes(t, arg[t], "recv_mutex", "recv_read")
      BY <1>0, <1>8 DEF recv_mutex, Goes
    <3>2. QED
      BY <1>0, <3>1, MovedCounts
  <2>2. /\ sem_value'[not_used(c)] = sem_value[not_used(c)] + 0
        /\ sem_value'[used(c)] = sem_value[used(c)] + 0
        /\ in_flight' = in_flight
    BY <1>0, <1>1, <1>8, ValuesAfter, SemaphoresDiffer DEF recv_mutex, slotVars
  <2>3. Recounted(c, 0, 0, 0, 0, 0, 0, 0)
    BY <1>0, <1>1, <1>2, <2>1, <2>2
       DEF Recounted, Sending, Announcing, Receiving, Freeing
  <2>4. QED
    BY <2>3, RecountKeeps
<1>9. CASE recv_read(t)
  <2>1. \A P \in K : Cardinality(NewAt(c, P)) = (Cardinality(At(c, P))
              + (IF c = arg[t] /\ "recv_not_used" \in P THEN 1 ELSE 0))
              - (IF c = arg[t] /\ "recv_read" \in P THEN 1 ELSE 0)
    <3>1. Goes(t, arg[t], "recv_read", "recv_not_used")
      BY <1>0, <1>9 DEF recv_read, Goes
    <3>2. QED
      BY <1>0, <3>1, MovedCounts
  <2>2. /\ sem_value'[not_used(c)] = sem_value[not_used(c)] + 0
        /\ sem_value'[used(c)] = sem_value[used(c)] + 0
    BY <1>0, <1>1, <1>9, ValuesAfter, SemaphoresDiffer DEF recv_read
  <2>3. Len(in_flight'[c]) = Len(in_flight[c]) + -d(arg[t])
    <3>1. in_flight[arg[t]] # <<>>
      BY <1>9, ReceiverFindsMessage DEF recv_read, Step
    <3>2. in_flight'[c] = IF c = arg[t] THEN Tail(in_flight[c]) ELSE in_flight[c]
      BY <1>0, <1>9, <3>1 DEF recv_read, MailBoxTypeOK
    <3>3. CASE c = arg[t]
      BY <1>0, <3>1, <3>2, <3>3
    <3>4. CASE c # arg[t]
      BY <1>0, <3>1, <3>2, <3>4
    <3>5. QED
      BY <3>3, <3>4
  <2>4. Recounted(c, 0, 0, 0, 0, -d(arg[t]), d(arg[t]), -d(arg[t]))
    BY <1>0, <1>1, <1>2, <2>1, <2>2, <2>3
       DEF Recounted, Sending, Announcing, Receiving, Freeing
  <2>5. QED
    BY <2>4, RecountKeeps
<1>10. CASE recv_not_used(t)
  <2>1. \A P \in K : Cardinality(NewAt(c, P)) = (Cardinality(At(c, P))
              + (IF c = arg[t] /\ "user" \in P THEN 1 ELSE 0))
              - (IF c = arg[t] /\ "recv_not_used" \in P THEN 1 ELSE 0)
    <3>1. Goes(t, arg[t], "recv_not_used", "user")
      BY <1>0, <1>10 DEF recv_not_used, Goes
    <3>2. QED
      BY <1>0, <3>1, MovedCounts
  <2>2. /\ sem_value'[not_used(c)] = sem_value[not_used(c)] + d(arg[t])
        /\ sem_value'[used(c)] = sem_value[used(c)] + 0
        /\ in_flight' = in_flight
    BY <1>0, <1>1, <1>10, ValuesAfter, SemaphoresDiffer DEF recv_not_used, slotVars
  <2>3. Recounted(c, d(arg[t]), 0, 0, 0, 0, -d(arg[t]), 0)
    BY <1>0, <1>1, <1>2, <2>1, <2>2
       DEF Recounted, Sending, Announcing, Receiving, Freeing
  <2>4. QED
    BY <2>3, RecountKeeps
<1>11. QED
  BY <1>3, <1>4, <1>5, <1>6, <1>7, <1>8, <1>9, <1>10 DEF Transfer, do_mbox_send, do_mbox_recv
-----------------------------------------------------------------------------
(***************************************************************************)
(* The ring of slots.                                                      *)
(***************************************************************************)
\* Within two rounds of the ring, % is a comparison and a subtraction.
Wrapped(x) == IF x < MAX_MBOX_LENGTH THEN x ELSE x - MAX_MBOX_LENGTH

LEMMA Wraps == \A x \in 0..2 * MAX_MBOX_LENGTH - 1 : x % MAX_MBOX_LENGTH = Wrapped(x)
BY MailBoxAssumption DEF Wrapped

(* A message is written behind those there, and onto none of them.         *)
LEMMA RingWrite ==
    ASSUME NEW r \in Slots, NEW n \in Nat, n < MAX_MBOX_LENGTH,
           NEW w, w = (r + n) % MAX_MBOX_LENGTH
    PROVE  /\ w \in Slots
           /\ (w + 1) % MAX_MBOX_LENGTH = (r + (n + 1)) % MAX_MBOX_LENGTH
           /\ (r + (n + 1) - 1) % MAX_MBOX_LENGTH = w
           /\ \A i \in 1..n : /\ (r + i - 1) % MAX_MBOX_LENGTH \in Slots
                              /\ (r + i - 1) % MAX_MBOX_LENGTH # w
<1>0. MAX_MBOX_LENGTH \in Nat \ {0} /\ r \in 0..(MAX_MBOX_LENGTH - 1)
  BY MailBoxAssumption DEF Slots
<1>1. w = Wrapped(r + n) /\ w \in 0..(MAX_MBOX_LENGTH - 1)
  <2>1. r + n \in 0..2 * MAX_MBOX_LENGTH - 1
    BY <1>0
  <2>2. QED
    BY <1>0, <2>1, Wraps DEF Wrapped
<1>2. (w + 1) % MAX_MBOX_LENGTH = (r + (n + 1)) % MAX_MBOX_LENGTH
  <2>1. w + 1 \in 0..2 * MAX_MBOX_LENGTH - 1 /\ r + (n + 1) \in 0..2 * MAX_MBOX_LENGTH - 1
    BY <1>0, <1>1
  <2>2. Wrapped(w + 1) = Wrapped(r + (n + 1))
    BY <1>0, <1>1 DEF Wrapped
  <2>3. QED
    BY <2>1, <2>2, Wraps
<1>3. (r + (n + 1)) - 1 = r + n
  BY <1>0
<1>4. ASSUME NEW i \in 1..n
      PROVE  /\ (r + i - 1) % MAX_MBOX_LENGTH \in 0..(MAX_MBOX_LENGTH - 1)
             /\ (r + i - 1) % MAX_MBOX_LENGTH # w
  <2>1. r + i - 1 \in 0..2 * MAX_MBOX_LENGTH - 1
    BY <1>0
  <2>2. (r + i - 1) % MAX_MBOX_LENGTH = Wrapped(r + i - 1)
    BY <2>1, Wraps
  <2>3. Wrapped(r + i - 1) \in 0..(MAX_MBOX_LENGTH - 1) /\ Wrapped(r + i - 1) # w
    BY <1>0, <1>1 DEF Wrapped
  <2>4. QED
    BY <2>2, <2>3
<1>5. QED
  BY <1>1, <1>2, <1>3, <1>4 DEF Slots

(* The message read is the first, and the ring goes on behind it.          *)
LEMMA RingRead ==
    ASSUME NEW r \in Slots, NEW n \in Nat, 0 < n, n <= MAX_MBOX_LENGTH,
           NEW s, s = (r + 1) % MAX_MBOX_LENGTH
    PROVE  /\ (r + 1 - 1) % MAX_MBOX_LENGTH = r
           /\ (s + (n - 1)) % MAX_MBOX_LENGTH = (r + n) % MAX_MBOX_LENGTH
           /\ \A i \in 1..(n - 1) :
                 (s + i - 1) % MAX_MBOX_LENGTH = (r + (i + 1) - 1) % MAX_MBOX_LENGTH
<1>0. MAX_MBOX_LENGTH \in Nat \ {0} /\ r \in 0..(MAX_MBOX_LENGTH - 1)
  BY MailBoxAssumption DEF Slots
<1>1. s = Wrapped(r + 1) /\ s \in 0..(MAX_MBOX_LENGTH - 1)
  <2>1. r + 1 \in 0..2 * MAX_MBOX_LENGTH - 1
    BY <1>0
  <2>2. QED
    BY <1>0, <2>1, Wraps DEF Wrapped
<1>2. (r + 1 - 1) % MAX_MBOX_LENGTH = r
  <2>1. r + 1 - 1 = r /\ r \in 0..2 * MAX_MBOX_LENGTH - 1
    BY <1>0
  <2>2. QED
    BY <1>0, <2>1, Wraps DEF Wrapped
<1>3. ASSUME NEW j \in 0..(n - 1)
      PROVE  (s + j) % MAX_MBOX_LENGTH = (r + (j + 1)) % MAX_MBOX_LENGTH
  <2>1. s + j \in 0..2 * MAX_MBOX_LENGTH - 1 /\ r + (j + 1) \in 0..2 * MAX_MBOX_LENGTH - 1
    BY <1>0, <1>1
  <2>2. Wrapped(s + j) = Wrapped(r + (j + 1))
    BY <1>0, <1>1 DEF Wrapped
  <2>3. QED
    BY <2>1, <2>2, Wraps
<1>4. (s + (n - 1)) % MAX_MBOX_LENGTH = (r + n) % MAX_MBOX_LENGTH
  <2>1. n - 1 \in 0..(n - 1) /\ (n - 1) + 1 = n
    BY <1>0
  <2>2. QED
    BY <1>3, <2>1
<1>5. ASSUME NEW i \in 1..(n - 1)
      PROVE  (s + i - 1) % MAX_MBOX_LENGTH = (r + (i + 1) - 1) % MAX_MBOX_LENGTH
  <2>1. i - 1 \in 0..(n - 1) /\ s + i - 1 = s + (i - 1) /\ r + (i + 1) - 1 = r + ((i - 1) + 1)
    BY <1>0, <1>1
  <2>2. QED
    BY <1>3, <2>1
<1>6. QED
  BY <1>2, <1>4, <1>5
(* A message written goes to the end of the ring and spoils none of it.    *)
LEMMA WriteRing ==
    ASSUME MailBoxInv, NEW t \in Clients, send_write(t), NEW b, b = arg[t]
    PROVE  RingHolds(b)'
<1> DEFINE q == in_flight[b]
           n == Len(q)
           r == read_index[b]
           w == write_index[b]
<1>1. /\ b \in Boxes /\ msg[t] \in Msgs /\ q \in Seq(Msgs) /\ r \in Slots /\ w \in Slots
      /\ box \in [Boxes -> [Slots -> Msgs \cup {NoMsg}]] /\ n \in Nat
      /\ write_index \in [Boxes -> Slots] /\ in_flight \in [Boxes -> Seq(Msgs)]
  BY DEF send_write, Step, MailBoxInv, MailBoxTypeOK, CallsAreUsers, Sending
<1>2. n < MAX_MBOX_LENGTH
  BY SenderFindsSlot DEF send_write, Step
<1>3. RingHolds(b)
  BY <1>1 DEF MailBoxInv
<1>4. w = (r + n) % MAX_MBOX_LENGTH
  BY <1>3 DEF RingHolds
<1>5. /\ in_flight'[b] = Append(q, msg[t]) /\ read_index'[b] = r
      /\ write_index'[b] = (w + 1) % MAX_MBOX_LENGTH
      /\ box'[b] = [box[b] EXCEPT ![w] = msg[t]] /\ box[b] \in [Slots -> Msgs \cup {NoMsg}]
  BY <1>1 DEF send_write
<1>6. /\ Len(in_flight'[b]) = n + 1 /\ in_flight'[b][n + 1] = msg[t]
      /\ \A i \in 1..n : in_flight'[b][i] = q[i]
  BY <1>1, <1>5
<1>7. /\ (w + 1) % MAX_MBOX_LENGTH = (r + (n + 1)) % MAX_MBOX_LENGTH
      /\ (r + (n + 1) - 1) % MAX_MBOX_LENGTH = w
      /\ \A i \in 1..n : /\ (r + i - 1) % MAX_MBOX_LENGTH \in Slots
                         /\ (r + i - 1) % MAX_MBOX_LENGTH # w
  BY <1>1, <1>2, <1>4, RingWrite
<1>8. \A i \in 1..n : q[i] = box[b][(r + i - 1) % MAX_MBOX_LENGTH]
  BY <1>3 DEF RingHolds
<1>9. ASSUME NEW i \in 1..(n + 1)
      PROVE  in_flight'[b][i] = box'[b][(r + i - 1) % MAX_MBOX_LENGTH]
  <2>1. CASE i = n + 1
    BY <1>1, <1>5, <1>6, <1>7, <2>1
  <2>2. CASE i \in 1..n
    BY <1>5, <1>6, <1>7, <1>8, <2>2
  <2>3. n \in Nat
    BY <1>1
  <2> HIDE DEF n
  <2>4. i = n + 1 \/ i \in 1..n
    BY <2>3
  <2>5. QED
    BY <2>1, <2>2, <2>4
<1>10. n + 1 <= MAX_MBOX_LENGTH
  BY <1>1, <1>2, MailBoxAssumption
<1> HIDE DEF q, n, r, w
<1>11. QED
  BY <1>5, <1>6, <1>7, <1>9, <1>10 DEF RingHolds

(* A message read is the oldest, and the ring goes on with the next.       *)
LEMMA ReadRing ==
    ASSUME MailBoxInv, NEW t \in Clients, recv_read(t), NEW b, b = arg[t]
    PROVE  RingHolds(b)' /\ got' = Head(in_flight[b])
<1> DEFINE q == in_flight[b]
           n == Len(q)
           r == read_index[b]
           s == (r + 1) % MAX_MBOX_LENGTH
<1>1. /\ b \in Boxes /\ q \in Seq(Msgs) /\ r \in Slots /\ n \in Nat
      /\ read_index \in [Boxes -> Slots] /\ in_flight \in [Boxes -> Seq(Msgs)]
  BY DEF MailBoxInv, MailBoxTypeOK
<1>2. q # <<>>
  BY ReceiverFindsMessage DEF recv_read, Step
<1>3. RingHolds(b)
  BY <1>1 DEF MailBoxInv
<1>4. /\ n <= MAX_MBOX_LENGTH /\ write_index[b] = (r + n) % MAX_MBOX_LENGTH
      /\ \A i \in 1..n : q[i] = box[b][(r + i - 1) % MAX_MBOX_LENGTH]
  BY <1>3 DEF RingHolds
<1>5. /\ in_flight'[b] = Tail(q) /\ read_index'[b] = s
      /\ write_index'[b] = write_index[b] /\ box'[b] = box[b] /\ got' = box[b][r]
  BY <1>1, <1>2 DEF recv_read
<1>6. 0 < n /\ Head(q) = q[1] /\ 1 \in 1..n
  BY <1>1, <1>2
<1>7. /\ Len(in_flight'[b]) = n - 1
      /\ \A i \in 1..(n - 1) : in_flight'[b][i] = q[i + 1] /\ i + 1 \in 1..n
  BY <1>1, <1>2, <1>5
<1>8. /\ (r + 1 - 1) % MAX_MBOX_LENGTH = r
      /\ (s + (n - 1)) % MAX_MBOX_LENGTH = (r + n) % MAX_MBOX_LENGTH
      /\ \A i \in 1..(n - 1) :
            (s + i - 1) % MAX_MBOX_LENGTH = (r + (i + 1) - 1) % MAX_MBOX_LENGTH
  BY <1>1, <1>4, <1>6, RingRead
<1>9. got' = Head(q)
  BY <1>4, <1>5, <1>6, <1>8
<1>10. n - 1 <= MAX_MBOX_LENGTH
  BY <1>1, <1>4, MailBoxAssumption
<1>11. \A i \in 1..(n - 1) : in_flight'[b][i] = box'[b][(s + i - 1) % MAX_MBOX_LENGTH]
  BY <1>4, <1>5, <1>7, <1>8
<1>12. RingHolds(b)'
  <2> HIDE DEF q, n, r, s
  <2>1. QED
    BY <1>4, <1>5, <1>7, <1>8, <1>10, <1>11 DEF RingHolds
<1>13. QED
  BY <1>9, <1>12

LEMMA TransferRing ==
    ASSUME MailBoxInv, NEW t \in Clients, Transfer(t), NEW c \in Boxes
    PROVE  RingHolds(c)'
<1>1. RingHolds(c) /\ MailBoxTypeOK
  BY DEF MailBoxInv
<1>2. CASE send_write(t)
  <2>1. CASE c = arg[t]
    BY <1>2, <2>1, WriteRing
  <2>2. CASE c # arg[t]
    BY <1>1, <1>2, <2>2 DEF send_write, RingHolds, MailBoxTypeOK
  <2>3. QED
    BY <2>1, <2>2
<1>3. CASE recv_read(t)
  <2>1. CASE c = arg[t]
    BY <1>3, <2>1, ReadRing
  <2>2. CASE c # arg[t]
    BY <1>1, <1>3, <2>2 DEF recv_read, RingHolds, MailBoxTypeOK
  <2>3. QED
    BY <2>1, <2>2
<1>4. CASE UNCHANGED slotVars
  BY <1>1, <1>4 DEF slotVars, RingHolds
<1>5. QED
  BY <1>2, <1>3, <1>4 DEF Transfer, do_mbox_send, do_mbox_recv, send_enter, send_mutex,
     send_used, recv_enter, recv_mutex, recv_not_used
-----------------------------------------------------------------------------
(***************************************************************************)
(* The steps between calls.                                                *)
(***************************************************************************)
(* Nobody is between two semaphores of a box that its last user closes.    *)
LEMMA CloseFindsNoCall ==
    ASSUME MailBoxInv, NEW t \in Clients, NEW d \in Boxes, do_mbox_close(t, d),
           user_number'[d] = 0,
           NEW P \in {Sending, Announcing, Receiving, Freeing}
    PROVE  Cardinality(At(d, P)) = 0
<1>1. "user" \notin P
  BY DEF Sending, Announcing, Receiving, Freeing
<1>2. At(d, P) = {}
  BY <1>1, CloseFindsNobody DEF At
<1>3. QED
  BY <1>2, FS_EmptySet

\* What is counted of the slots, and where they are.
SlotsKept(c) == SlotsCounted(c) /\ RingHolds(c)

LEMMA CloseSlots ==
    ASSUME MailBoxInv, NEW t \in Clients, NEW d \in Boxes, do_mbox_close(t, d), NEW c \in Boxes
    PROVE  SlotsKept(c)'
<1>0. /\ SlotsKept(c) /\ UNCHANGED <<where, arg, box>> /\ MailBoxTypeOK
      /\ \A P : Cardinality(At(c, P)) \in Nat
  BY AtFinite DEF MailBoxInv, SlotsKept, do_mbox_close, callVars
<1>1. CASE user_number'[d] = 0 /\ c = d
  <2>0. init_one_mbox(c)
    BY <1>1 DEF do_mbox_close
  <2>1. /\ sem_value'[not_used(c)] = MAX_MBOX_LENGTH /\ sem_value'[used(c)] = 0
    BY <2>0, BoxSemaphoreTypes DEF init_one_mbox, BoxSemaphores
  <2>2. in_flight'[c] = <<>> /\ write_index'[c] = 0 /\ read_index'[c] = 0
    BY <1>0, <2>0 DEF init_one_mbox, MailBoxTypeOK
  <2>3. /\ Cardinality(At(c, Sending)) = 0 /\ Cardinality(At(c, Announcing)) = 0
        /\ Cardinality(At(c, Receiving)) = 0 /\ Cardinality(At(c, Freeing)) = 0
    BY <1>1, CloseFindsNoCall
  <2>4. SlotsCounted(c)'
    <3>1. \A P : NewAt(c, P) = At(c, P)
      BY <1>0 DEF At, NewAt
    <3>2. /\ sem_value'[not_used(c)] + Cardinality(NewAt(c, Sending)) + Cardinality(NewAt(c, Freeing))
               = MAX_MBOX_LENGTH - Len(in_flight'[c])
          /\ sem_value'[used(c)] + Cardinality(NewAt(c, Receiving)) + Cardinality(NewAt(c, Announcing))
               = Len(in_flight'[c])
      BY <2>1, <2>2, <2>3, <3>1, MailBoxAssumption
    <3>3. QED
      BY <3>2 DEF SlotsCounted, At, NewAt
  <2>5. RingHolds(c)'
    <3>1. Len(in_flight'[c]) = 0 /\ 0 % MAX_MBOX_LENGTH = 0 /\ 0 <= MAX_MBOX_LENGTH
      BY <2>2, MailBoxAssumption
    <3>2. QED
      BY <2>2, <3>1 DEF RingHolds
  <2>6. QED
    BY <2>4, <2>5 DEF SlotsKept
<1>2. CASE ~(user_number'[d] = 0 /\ c = d)
  <2>1. /\ sem_value'[not_used(c)] = sem_value[not_used(c)]
        /\ sem_value'[used(c)] = sem_value[used(c)]
        /\ in_flight'[c] = in_flight[c]
        /\ write_index'[c] = write_index[c] /\ read_index'[c] = read_index[c]
    <3>1. CASE user_number'[d] = 0
      <4>1. d \in Boxes /\ c # d /\ init_one_mbox(d)
        BY <1>0, <1>2, <3>1 DEF do_mbox_close, MailBoxTypeOK
      <4>2. /\ used(c) \in Semaphores \ BoxSemaphores(d)
            /\ not_used(c) \in Semaphores \ BoxSemaphores(d)
        BY <4>1, SemaphoresDiffer, BoxSemaphoreTypes DEF BoxSemaphores
      <4>3. QED
        BY <1>0, <4>1, <4>2 DEF init_one_mbox, MailBoxTypeOK
    <3>2. CASE user_number'[d] # 0
      BY <3>2 DEF do_mbox_close
    <3>3. QED
      BY <3>1, <3>2
  <2>2. QED
    BY <1>0, <2>1 DEF SlotsKept, SlotsCounted, RingHolds, At
<1>3. QED
  BY <1>1, <1>2

LEMMA SlotsStep ==
    ASSUME MailBoxInv, [MailBoxNext]_mboxVars, NEW c \in Boxes
    PROVE  SlotsKept(c)'
<1>1. CASE System \/ UNCHANGED mboxVars \/ \E t \in Clients, n \in Names : do_mbox_open(t, n)
  <2>1. UNCHANGED <<sem_value, slotVars, where, arg>>
    BY <1>1, SystemQueues DEF mboxVars, vars, syncVars, callVars, do_mbox_open
  <2>2. SlotsKept(c)
    BY DEF MailBoxInv, SlotsKept
  <2>3. QED
    BY <2>1, <2>2 DEF slotVars, SlotsKept, SlotsCounted, RingHolds, At
<1>2. ASSUME NEW t \in Clients, Transfer(t)
      PROVE  SlotsKept(c)'
  BY <1>2, TransferCounts, TransferRing DEF SlotsKept
<1>3. ASSUME NEW t \in Clients, NEW d \in Boxes, do_mbox_close(t, d)
      PROVE  SlotsKept(c)'
  BY <1>3, CloseSlots
<1>4. QED
  BY <1>1, <1>2, <1>3 DEF MailBoxNext, OpenOrClose

-----------------------------------------------------------------------------
(***************************************************************************)
(* The theorems.                                                           *)
(***************************************************************************)
(* The boxes start empty, with nobody in a call.                           *)
LEMMA MailBoxInitial ==
    ASSUME MailBoxInit
    PROVE  MailBoxInv
<1>0. /\ MAX_MBOX_LENGTH \in Nat \ {0} /\ 0 \in Slots /\ 0 \in Boxes
      /\ 0 \in 0..MaxOpens /\ \A u : ~In(u, <<>>)
  BY MailBoxAssumption DEF Slots, Boxes, In
<1>1. /\ SchedInit /\ SyncTypeOK
      /\ \A q \in Queues : wait_queue[q] = <<>>
      /\ sem_value = SemInit
  BY SemInitAssumption, MembersAssumption, OrderAssumption, EmptySeq
     DEF MailBoxInit, SyncInit, SyncTypeOK, SchedInit, SchedTypeOK, Status
<1>2. BootInv /\ EachTaskInOnePlace
  BY <1>1, InitPlaces DEF SchedInit, BootInv
<1>3. MailBoxTypeOK
  BY <1>0, <1>1, EmptySeq DEF MailBoxInit, MailBoxTypeOK, Calls
<1>4. SemaphoreCountsWaiters
  <2> SUFFICES ASSUME NEW s \in Semaphores
               PROVE  SemInv(s)
    BY DEF SemaphoreCountsWaiters, SemInv
  <2>1. wait_queue[s] = <<>> /\ sem_value[s] \in Nat
    BY <1>1, QueuesAssumption, SemInitAssumption
  <2>2. QED
    BY <2>1 DEF SemInv
<1>5. CallsAreUsers /\ WaitersInCall
  BY <1>0, <1>1, BoxSemaphoreTypes DEF MailBoxInit, CallsAreUsers, WaitersInCall, Sending
<1>6. UsersCounted
  <2>1. \A b \in Boxes : Opens(b) = {} /\ user_number[b] = 0 /\ ~named[b]
    BY MailBoxAssumption DEF MailBoxInit, Opens
  <2>2. QED
    BY <2>1, FS_EmptySet DEF UsersCounted
<1>7. ASSUME NEW b \in Boxes
      PROVE  SlotsCounted(b) /\ RingHolds(b)
  <2>1. \A P \in {Sending, Announcing, Receiving, Freeing} : Cardinality(At(b, P)) = 0
    <3>1. \A P \in {Sending, Announcing, Receiving, Freeing} : At(b, P) = {}
      BY DEF MailBoxInit, At, Sending, Announcing, Receiving, Freeing
    <3>2. QED
      BY <3>1, FS_EmptySet
  <2>2. sem_value[not_used(b)] = MAX_MBOX_LENGTH /\ sem_value[used(b)] = 0
    BY <1>1, BoxSemaphoreTypes, MailBoxAssumption
  <2>3. in_flight[b] = <<>> /\ read_index[b] = 0 /\ write_index[b] = 0
    BY DEF MailBoxInit
  <2>4. Len(<<>>) = 0 /\ 0 <= MAX_MBOX_LENGTH /\ (0 + 0) % MAX_MBOX_LENGTH = 0
    BY <1>0
  <2>5. SlotsCounted(b)
    BY <1>0, <2>1, <2>2, <2>3, <2>4 DEF SlotsCounted
  <2>6. RingHolds(b)
    BY <2>3, <2>4 DEF RingHolds
  <2>7. QED
    BY <2>5, <2>6
<1>8. QED
  BY <1>2, <1>3, <1>4, <1>5, <1>6, <1>7 DEF MailBoxInv

LEMMA MailBoxInvariant == MailBoxSpec => []MailBoxInv
<1>1. MailBoxInit => MailBoxInv
  BY MailBoxInitial
<1>2. MailBoxInv /\ [MailBoxNext]_mboxVars => MailBoxInv'
  <2> SUFFICES ASSUME MailBoxInv, [MailBoxNext]_mboxVars
               PROVE  MailBoxInv'
    OBVIOUS
  <2>1. MailBoxTypeOK' /\ BootInv' /\ EachTaskInOnePlace'
    BY MailBoxTypeStep, SchedulerKept
  <2>2. CallsAreUsers' /\ WaitersInCall' /\ SemaphoreCountsWaiters' /\ UsersCounted'
    BY CallsAreUsersStep, WaitersInCallStep, UsersCountedStep
  <2>3. \A b \in Boxes : SlotsCounted(b)' /\ RingHolds(b)'
    BY SlotsStep DEF SlotsKept
  <2>4. QED
    BY <2>1, <2>2, <2>3 DEF MailBoxInv
<1>3. QED
  BY <1>1, <1>2, PTL DEF MailBoxSpec

(* The boxes, their table and the calls on them keep their types.          *)
THEOREM MailBoxTypeCorrect == MailBoxSpec => []MailBoxTypeOK
<1>1. MailBoxInv => MailBoxTypeOK
  BY DEF MailBoxInv
<1>2. QED
  BY <1>1, MailBoxInvariant, PTL

(* The slots from read_index to write_index hold the messages written and  *)
(* not read, and never more than there are slots.                          *)
THEOREM SlotsCorrect == MailBoxSpec => []SlotsHoldInFlight
<1>1. MailBoxInv => SlotsHoldInFlight
  BY DEF MailBoxInv, RingHolds, SlotsHoldInFlight
<1>2. QED
  BY <1>1, MailBoxInvariant, PTL

(* user_number counts the opens of a box that no close has followed, and a *)
(* box is emptied when there are none, whatever names clients use and      *)
(* however often a task opens a box.                                       *)
THEOREM UsersAreCounted == MailBoxSpec => []UsersCounted
<1>1. MailBoxInv => UsersCounted
  BY DEF MailBoxInv
<1>2. QED
  BY <1>1, MailBoxInvariant, PTL

(* No task is lost from the queues of the scheduler and the boxes, though  *)
(* do_mbox_close() empties three of them with whoever waits there.         *)
THEOREM NobodyIsForgotten == MailBoxSpec => []EachTaskInOnePlace
<1>1. MailBoxInv => EachTaskInOnePlace
  BY DEF MailBoxInv
<1>2. QED
  BY <1>1, MailBoxInvariant, PTL

(* A negative semaphore of a box counts the tasks that wait at it, across  *)
(* every open, close, send and recv: no wakeup is lost or given twice.     *)
THEOREM BoxSemaphoresCount == MailBoxSpec => []SemaphoreCountsWaiters
<1>1. MailBoxInv => SemaphoreCountsWaiters
  BY DEF MailBoxInv
<1>2. QED
  BY <1>1, MailBoxInvariant, PTL

(* The message boxes leave the scheduler as Scheduler says it is: what it  *)
(* promises of queues and states holds while processes use them.           *)
THEOREM MailBoxImplementsScheduler == MailBoxSpec => SchedulerSpec
<1>1. MailBoxInit => SchedInit
  BY DEF MailBoxInit, SyncInit
<1>2. MailBoxInv /\ [MailBoxNext]_mboxVars => [SchedNext]_schedVars
  BY MailBoxStepIsSchedStep
<1>3. QED
  BY <1>1, <1>2, MailBoxInvariant, PTL DEF MailBoxSpec, SchedSpec, SchedulerSpec

(* A step of a call, seen as one of the channel.                           *)
LEMMA TransferIsChannelStep ==
    ASSUME MailBoxInv, NEW t \in Clients, Transfer(t)
    PROVE  [Chan!ChanNext]_(Chan!chanVars)
<1>0. arg[t] \in Boxes
  BY DEF MailBoxInv, MailBoxTypeOK
<1>1. CASE send_write(t)
  <2>1. msg[t] \in Msgs
    BY <1>1 DEF send_write, Step, MailBoxInv, CallsAreUsers, Sending
  <2>2. Len(in_flight[arg[t]]) < MAX_MBOX_LENGTH
    BY <1>1, SenderFindsSlot DEF send_write, Step
  <2>3. Chan!Put(arg[t], msg[t])
    BY <1>1, <2>2 DEF send_write, Chan!Put
  <2>4. QED
    BY <1>0, <2>1, <2>3 DEF Chan!ChanNext
<1>2. CASE recv_read(t)
  <2>1. in_flight[arg[t]] # <<>>
    BY <1>2, ReceiverFindsMessage DEF recv_read, Step
  <2>2. got' = Head(in_flight[arg[t]])
    BY <1>2, ReadRing
  <2>3. Chan!Get(arg[t])
    BY <1>2, <2>1, <2>2 DEF recv_read, Chan!Get
  <2>4. QED
    BY <1>0, <2>3 DEF Chan!ChanNext
<1>3. CASE UNCHANGED <<in_flight, got>>
  BY <1>3 DEF Chan!chanVars
<1>4. QED
  BY <1>1, <1>2, <1>3 DEF Transfer, do_mbox_send, do_mbox_recv, send_enter, send_mutex,
     send_used, recv_enter, recv_mutex, recv_not_used, slotVars

(* A message box is a bounded FIFO channel, for any number of senders,     *)
(* receivers, slots and messages: nothing is lost, doubled, reordered, or  *)
(* read before it is there, and a sender never overwrites what is not read.*)
THEOREM MailBoxIsChannel == MailBoxSpec => IsChannel
<1>1. MailBoxInit => Chan!ChanInit
  BY DEF MailBoxInit, Chan!ChanInit
<1>2. MailBoxInv /\ [MailBoxNext]_mboxVars => [Chan!ChanNext]_(Chan!chanVars)
  <2> SUFFICES ASSUME MailBoxInv, [MailBoxNext]_mboxVars
               PROVE  [Chan!ChanNext]_(Chan!chanVars)
    OBVIOUS
  <2>1. CASE System \/ UNCHANGED mboxVars \/ \E t \in Clients, n \in Names : do_mbox_open(t, n)
    BY <2>1, SystemQueues
       DEF mboxVars, slotVars, callVars, do_mbox_open, Chan!chanVars
  <2>2. ASSUME NEW t \in Clients, Transfer(t)
        PROVE  [Chan!ChanNext]_(Chan!chanVars)
    BY <2>2, TransferIsChannelStep
  <2>3. ASSUME NEW t \in Clients, NEW d \in Boxes, do_mbox_close(t, d)
        PROVE  [Chan!ChanNext]_(Chan!chanVars)
    <3>0. d \in Boxes /\ UNCHANGED got
      BY <2>3 DEF do_mbox_close, MailBoxInv, MailBoxTypeOK, callVars
    <3>1. CASE init_one_mbox(d)
      <4>1. Chan!Reset(d)
        BY <3>0, <3>1 DEF init_one_mbox, Chan!Reset
      <4>2. QED
        BY <3>0, <4>1 DEF Chan!ChanNext
    <3>2. CASE UNCHANGED in_flight
      BY <3>0, <3>2 DEF Chan!chanVars
    <3>3. QED
      BY <2>3, <3>1, <3>2 DEF do_mbox_close
  <2>4. QED
    BY <2>1, <2>2, <2>3 DEF MailBoxNext, OpenOrClose
<1>3. QED
  BY <1>1, <1>2, MailBoxInvariant, PTL DEF MailBoxSpec, IsChannel, Chan!ChanSpec
=============================================================================
