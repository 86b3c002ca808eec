-------------------------- MODULE KernelProofs --------------------------
(***************************************************************************)
(* The safety properties of the kernel of P2, for any number of tasks and  *)
(* any set of locks.                                                       *)
(***************************************************************************)
EXTENDS NonPreemptiveKernel, TaskQueueLemmas

(***************************************************************************)
(* The ring of queue.c is a queue: it takes a task to its end as long as   *)
(* the task is not in it, and gives back the oldest, for any capacity.     *)
(***************************************************************************)
\* a position that has gone round at most once, as a slot
Slot(x) == IF x < NUM_TASKS THEN x ELSE x - NUM_TASKS

RingOK(q) ==
  /\ q \in [pcbs : [Slots -> Tasks \cup {NULL}], head : Slots, tail : Slots,
            isEmpty : BOOLEAN]
  /\ q.isEmpty => q.head = q.tail
  /\ \A k \in 1..queue_size(q) : q.pcbs[Slot(q.head + k - 1)] \in Tasks

\* the modulo wraps once
LEMMA Wrap == \A x \in 0..2 * NUM_TASKS - 1 : x % NUM_TASKS = Slot(x)
BY CapacityAssumption DEF Slot

LEMMA SlotLemma ==
  ASSUME NEW h \in Slots, NEW k \in 1..NUM_TASKS
  PROVE  (h + k - 1) % NUM_TASKS = Slot(h + k - 1) /\ Slot(h + k - 1) \in Slots
<1>1. h + k - 1 \in 0..2 * NUM_TASKS - 1
  BY CapacityAssumption DEF Slots
<1>2. (h + k - 1) % NUM_TASKS = Slot(h + k - 1)
  BY <1>1, Wrap, CapacityAssumption DEF Slots
<1>3. QED
  BY <1>1, <1>2, CapacityAssumption DEF Slots, Slot

LEMMA AdvanceLemma ==
  ASSUME NEW i \in Slots
  PROVE  Advance(i) = (IF i = NUM_TASKS - 1 THEN 0 ELSE i + 1) /\ Advance(i) \in Slots
<1>1. i + 1 \in 0..2 * NUM_TASKS - 1
  BY CapacityAssumption DEF Slots
<1>2. Advance(i) = Slot(i + 1)
  BY <1>1, Wrap, CapacityAssumption DEF Slots, Advance
<1>3. QED
  BY <1>2, CapacityAssumption DEF Slots, Slot

\* the fields of a ring; tail is the slot after the youngest
LEMMA FieldsLemma ==
  ASSUME NEW q, RingOK(q)
  PROVE  /\ q.head \in Slots /\ q.tail \in Slots /\ q.isEmpty \in BOOLEAN
         /\ q.pcbs \in [Slots -> Tasks \cup {NULL}]
         /\ queue_size(q) \in 0..NUM_TASKS
         /\ q.isEmpty <=> queue_size(q) = 0
         /\ q.tail = Slot(q.head + queue_size(q))
<1>1. /\ q.head \in Slots /\ q.tail \in Slots /\ q.isEmpty \in BOOLEAN
      /\ q.pcbs \in [Slots -> Tasks \cup {NULL}] /\ (q.isEmpty => q.head = q.tail)
  BY DEF RingOK
<1>2. ASSUME NEW h \in Slots, NEW t \in Slots
      PROVE  /\ h < t => t - h \in 1..NUM_TASKS /\ t = Slot(h + (t - h))
             /\ ~(h < t) => /\ t + NUM_TASKS - h \in 1..NUM_TASKS
                            /\ t = Slot(h + (t + NUM_TASKS - h))
             /\ t = Slot(t + 0)
  BY CapacityAssumption DEF Slots, Slot
<1>3. QED
  BY <1>1, <1>2, CapacityAssumption DEF queue_size

\* what waits are tasks
LEMMA WaitingLemma ==
  ASSUME NEW q, RingOK(q)
  PROVE  /\ Waiting(q) = [k \in 1..queue_size(q) |-> q.pcbs[Slot(q.head + k - 1)]]
         /\ Waiting(q) \in Seq(Tasks)
         /\ Len(Waiting(q)) = queue_size(q)
<1>1. q.head \in Slots /\ queue_size(q) \in 0..NUM_TASKS
  BY FieldsLemma
<1>2. \A k \in 1..queue_size(q) : (q.head + k - 1) % NUM_TASKS = Slot(q.head + k - 1)
  BY <1>1, SlotLemma, CapacityAssumption
<1>3. Waiting(q) = [k \in 1..queue_size(q) |-> q.pcbs[Slot(q.head + k - 1)]]
  BY <1>2 DEF Waiting
<1>4. Waiting(q) \in [1..queue_size(q) -> Tasks]
  BY <1>3 DEF RingOK
<1>5. QED
  BY <1>1, <1>3, <1>4

\* a task that is not in the ring finds room
LEMMA RoomLemma ==
  ASSUME NEW q, RingOK(q), NoDup(Waiting(q)), NEW t \in Tasks, ~In(t, Waiting(q))
  PROVE  ~Full(q) /\ queue_size(q) < NUM_TASKS
<1> DEFINE n == queue_size(q)
           w == Waiting(q)
           others == Tasks \ {t}
<1>1. n \in 0..NUM_TASKS /\ w \in [1..n -> Tasks] /\ Len(w) = n
  BY FieldsLemma, WaitingLemma, LenProperties
<1>2. w \in [1..n -> others]
  BY <1>1 DEF In
<1>3. IsFiniteSet(Tasks) /\ Cardinality(Tasks) = NUM_TASKS
  BY FS_Interval, CapacityAssumption DEF Tasks
<1>4. IsFiniteSet(others) /\ Cardinality(others) = NUM_TASKS - 1
  BY <1>3, FS_RemoveElement
<1>5. \A i, j \in 1..n : w[i] = w[j] => i = j
  BY <1>1 DEF NoDup
<1>6. n \in Nat
  BY <1>1, CapacityAssumption
<1> HIDE DEF n, w, others
<1>7. n <= Cardinality(others)
  BY <1>2, <1>4, <1>5, <1>6, FitsLemma
<1>8. n < NUM_TASKS
  BY <1>1, <1>4, <1>7, CapacityAssumption
<1>9. Full(q) => n = NUM_TASKS
  BY FieldsLemma, CapacityAssumption DEF Full, queue_size, Slots, n
<1>10. QED
  BY <1>8, <1>9, CapacityAssumption DEF n

(* queue_push() appends a task that is not in the ring.                    *)
LEMMA PushLemma ==
  ASSUME NEW q, RingOK(q), NoDup(Waiting(q)), NEW t \in Tasks, ~In(t, Waiting(q))
  PROVE  /\ RingOK(queue_push(q, t))
         /\ Waiting(queue_push(q, t)) = Append(Waiting(q), t)
<1> DEFINE r == queue_push(q, t)
           n == queue_size(q)
<1>1. /\ ~Full(q) /\ n \in 0..NUM_TASKS - 1
      /\ q.head \in Slots /\ q.tail \in Slots /\ q.tail = Slot(q.head + n)
      /\ q.pcbs \in [Slots -> Tasks \cup {NULL}]
      /\ Advance(q.tail) \in Slots
  BY RoomLemma, FieldsLemma, AdvanceLemma, CapacityAssumption
<1>2. /\ q \in [pcbs : [Slots -> Tasks \cup {NULL}], head : Slots, tail : Slots,
                isEmpty : BOOLEAN]
      /\ r = [q EXCEPT !.pcbs = [@ EXCEPT ![q.tail] = t], !.tail = Advance(q.tail),
                       !.isEmpty = FALSE]
  BY <1>1 DEF queue_push, RingOK
<1>3. /\ r.head = q.head /\ r.tail = Advance(q.tail) /\ r.isEmpty = FALSE
      /\ r.pcbs = [q.pcbs EXCEPT ![q.tail] = t]
      /\ r \in [pcbs : [Slots -> Tasks \cup {NULL}], head : Slots, tail : Slots,
                isEmpty : BOOLEAN]
  BY <1>1, <1>2
<1> HIDE DEF r
<1>4. queue_size(r) = n + 1
  <2>1. ASSUME NEW h \in Slots, NEW t0 \in Slots, NEW m \in 0..NUM_TASKS - 1,
               t0 = Slot(h + m)
        PROVE  m + 1 = IF h < Advance(t0) THEN Advance(t0) - h
                       ELSE Advance(t0) + NUM_TASKS - h
    BY <2>1, AdvanceLemma, CapacityAssumption DEF Slots, Slot
  <2>2. QED
    BY <1>1, <1>3, <2>1 DEF queue_size
<1>5. \A k \in 1..n + 1 :
        r.pcbs[Slot(q.head + k - 1)] = IF k = n + 1 THEN t ELSE q.pcbs[Slot(q.head + k - 1)]
  <2> TAKE k \in 1..n + 1
  <2>1. ASSUME NEW h \in Slots, NEW m \in 0..NUM_TASKS - 1, NEW j \in 1..m + 1
        PROVE  /\ Slot(h + j - 1) \in Slots
               /\ j = m + 1 <=> Slot(h + j - 1) = Slot(h + m)
    BY CapacityAssumption DEF Slots, Slot
  <2>2. /\ Slot(q.head + k - 1) \in Slots
        /\ k = n + 1 <=> Slot(q.head + k - 1) = q.tail
    BY <1>1, <2>1
  <2> HIDE DEF n
  <2>3. QED
    BY <1>1, <1>3, <2>2
<1>6. RingOK(r)
  <2>1. \A k \in 1..n : q.pcbs[Slot(q.head + k - 1)] \in Tasks
    BY DEF RingOK
  <2>2. \A k \in 1..n + 1 : k # n + 1 => k \in 1..n
    BY <1>1
  <2>3. \A k \in 1..n + 1 : r.pcbs[Slot(q.head + k - 1)] \in Tasks
    BY <1>5, <2>1, <2>2
  <2>4. QED
    BY <1>3, <1>4, <2>3 DEF RingOK
<1>7. Waiting(r) = Append(Waiting(q), t)
  <2>1. /\ Waiting(q) \in Seq(Tasks) /\ Len(Waiting(q)) = n
        /\ \A k \in 1..n : Waiting(q)[k] = q.pcbs[Slot(q.head + k - 1)]
    BY WaitingLemma
  <2>2. /\ Waiting(r) \in Seq(Tasks) /\ Len(Waiting(r)) = n + 1
        /\ \A k \in 1..n + 1 : Waiting(r)[k] = r.pcbs[Slot(q.head + k - 1)]
    <3>1. /\ Waiting(r) = [k \in 1..queue_size(r) |-> r.pcbs[Slot(r.head + k - 1)]]
          /\ Waiting(r) \in Seq(Tasks) /\ Len(Waiting(r)) = queue_size(r)
      BY <1>6, WaitingLemma
    <3> HIDE DEF n
    <3>2. QED
      BY <1>3, <1>4, <3>1
  <2>3. /\ Append(Waiting(q), t) \in Seq(Tasks) /\ Len(Append(Waiting(q), t)) = n + 1
        /\ \A k \in 1..n : Append(Waiting(q), t)[k] = Waiting(q)[k]
        /\ Append(Waiting(q), t)[n + 1] = t
    BY <2>1, AppendProperties
  <2> HIDE DEF n
  <2>4. \A k \in 1..n + 1 : Waiting(r)[k] = Append(Waiting(q), t)[k]
    BY <1>1, <1>5, <2>1, <2>2, <2>3
  <2>5. QED
    BY <2>2, <2>3, <2>4, SeqEqual
<1>8. QED
  BY <1>6, <1>7 DEF r

(* queue_pop() takes the oldest task.                                      *)
LEMMA PopLemma ==
  ASSUME NEW q, RingOK(q), ~q.isEmpty
  PROVE  /\ RingOK(queue_pop(q))
         /\ Waiting(q) # <<>>
         /\ Popped(q) = Head(Waiting(q))
         /\ Waiting(queue_pop(q)) = Tail(Waiting(q))
<1> DEFINE r == queue_pop(q)
           n == queue_size(q)
<1>1. /\ n \in 1..NUM_TASKS /\ q.head \in Slots /\ q.tail \in Slots
      /\ q.pcbs \in [Slots -> Tasks \cup {NULL}]
      /\ q.tail = Slot(q.head + n) /\ Advance(q.head) \in Slots
  BY FieldsLemma, AdvanceLemma, CapacityAssumption
<1>2. /\ q \in [pcbs : [Slots -> Tasks \cup {NULL}], head : Slots, tail : Slots,
                isEmpty : BOOLEAN]
      /\ r = [q EXCEPT !.head = Advance(q.head), !.isEmpty = (Advance(q.head) = q.tail)]
  BY DEF RingOK, queue_pop
<1>3. /\ r.head = Advance(q.head) /\ r.tail = q.tail /\ r.pcbs = q.pcbs
      /\ r.isEmpty = (Advance(q.head) = q.tail)
      /\ r \in [pcbs : [Slots -> Tasks \cup {NULL}], head : Slots, tail : Slots,
                isEmpty : BOOLEAN]
  BY <1>1, <1>2
<1> HIDE DEF r
<1>4. queue_size(r) = n - 1
  <2>1. ASSUME NEW h \in Slots, NEW t0 \in Slots, NEW m \in 1..NUM_TASKS,
               t0 = Slot(h + m)
        PROVE  m - 1 = IF Advance(h) = t0 THEN 0
                       ELSE IF Advance(h) < t0 THEN t0 - Advance(h)
                       ELSE t0 + NUM_TASKS - Advance(h)
    BY <2>1, AdvanceLemma, CapacityAssumption DEF Slots, Slot
  <2>2. QED
    BY <1>1, <1>3, <2>1 DEF queue_size
<1>5. \A k \in 1..n - 1 : r.pcbs[Slot(r.head + k - 1)] = q.pcbs[Slot(q.head + (k + 1) - 1)]
  <2> TAKE k \in 1..n - 1
  <2>1. ASSUME NEW h \in Slots, NEW m \in 1..NUM_TASKS, NEW j \in 1..m - 1
        PROVE  Slot(Advance(h) + j - 1) = Slot(h + (j + 1) - 1)
    BY AdvanceLemma, CapacityAssumption DEF Slots, Slot
  <2>2. QED
    BY <1>1, <1>3, <2>1
<1>6. RingOK(r)
  <2>1. \A k \in 1..n : q.pcbs[Slot(q.head + k - 1)] \in Tasks
    BY DEF RingOK
  <2>2. \A k \in 1..n - 1 : k + 1 \in 1..n
    BY <1>1
  <2>3. \A k \in 1..n - 1 : r.pcbs[Slot(r.head + k - 1)] \in Tasks
    BY <1>5, <2>1, <2>2
  <2>4. QED
    BY <1>3, <1>4, <2>3 DEF RingOK
<1>7. /\ Waiting(q) \in Seq(Tasks) /\ Len(Waiting(q)) = n
      /\ \A k \in 1..n : Waiting(q)[k] = q.pcbs[Slot(q.head + k - 1)]
  BY WaitingLemma
<1>8. Popped(q) = Head(Waiting(q)) /\ Waiting(q) # <<>>
  <2>1. \A h \in Slots : Slot(h + 1 - 1) = h
    BY CapacityAssumption DEF Slots, Slot
  <2>2. Popped(q) = Waiting(q)[1]
    BY <1>1, <1>7, <2>1 DEF Popped
  <2>3. QED
    BY <1>1, <1>7, <2>2
<1>9. Waiting(r) = Tail(Waiting(q))
  <2>1. /\ Waiting(r) \in Seq(Tasks) /\ Len(Waiting(r)) = n - 1
        /\ \A k \in 1..n - 1 : Waiting(r)[k] = r.pcbs[Slot(r.head + k - 1)]
    BY <1>3, <1>4, <1>6, WaitingLemma
  <2>2. /\ Tail(Waiting(q)) \in Seq(Tasks) /\ Len(Tail(Waiting(q))) = n - 1
        /\ \A k \in 1..n - 1 : Tail(Waiting(q))[k] = Waiting(q)[k + 1]
    BY <1>7, <1>8, HeadTailProperties
  <2> HIDE DEF n
  <2>3. \A k \in 1..n - 1 : Waiting(r)[k] = Tail(Waiting(q))[k]
    <3> TAKE k \in 1..n - 1
    <3>1. k + 1 \in 1..n
      BY <1>1
    <3>2. Waiting(q)[k + 1] = q.pcbs[Slot(q.head + (k + 1) - 1)]
      BY <1>7, <3>1
    <3>3. r.pcbs[Slot(r.head + k - 1)] = q.pcbs[Slot(q.head + (k + 1) - 1)]
      BY <1>5
    <3>4. QED
      BY <2>1, <2>2, <3>2, <3>3
  <2>4. QED
    BY <2>1, <2>2, <2>3, SeqEqual
<1>10. QED
  BY <1>6, <1>8, <1>9 DEF r

(***************************************************************************)
(* The kernel.                                                             *)
(***************************************************************************)
States == {"READY", "RUNNING", "BLOCKED", "EXITED"}

\* the variables of scheduler.c
SchedulerTypeOK ==
  /\ RingOK(ready_queue) /\ RingOK(blocked_queue)
  /\ current_running \in Tasks \cup {NULL}
  /\ state \in [Tasks -> States]

KernelTypeOK ==
  /\ SchedulerTypeOK
  /\ lock \in [Locks -> {"LOCKED", "UNLOCKED"}]
  /\ at \in [Tasks -> Places]
  /\ wants \in [Tasks -> Locks \cup {NULL}]

\* the processor is idle only when no task is ready
IdleWhenNoneReady == current_running = NULL => \A t \in Tasks : ~IsReady(t)

\* a task that asks for a lock, or holds one, says which
WantsALock == \A t \in Tasks : at[t] \in {"asking", "inside", "yielded"} => wants[t] \in Locks

Unblocking == \E u \in Tasks : Running(u) /\ at[u] = "unblocking"

\* what BlockedTasksWait says, of the lock instead of its holder
WaitsForLock ==
  \A t \in Tasks : IsBlocked(t) =>
    at[t] = "asking" /\ (lock[wants[t]] = "LOCKED" \/ Unblocking)

\* where a task is not when it does not run, or never will again
OwnPlaces ==
  \A t \in Tasks : /\ at[t] = "unblocking" => Running(t)
                   /\ state[t] = "EXITED" => at[t] \in {"outside", "released"}

Queues == SchedulerTypeOK /\ TasksInOnePlace /\ IdleWhenNoneReady

KernelInv ==
  KernelTypeOK /\ Queues /\ WantsALock /\ OneHolder /\ WaitsForLock /\ OwnPlaces

-----------------------------------------------------------------------------
(* What pushing and popping do to the members of a ring.                   *)
LEMMA PushMembers ==
  ASSUME NEW q, RingOK(q), NoDup(Waiting(q)), NEW t \in Tasks, ~In(t, Waiting(q))
  PROVE  /\ RingOK(queue_push(q, t)) /\ NoDup(Waiting(queue_push(q, t)))
         /\ \A u : In(u, Waiting(queue_push(q, t))) <=> In(u, Waiting(q)) \/ u = t
<1>1. Waiting(q) \in Seq(Tasks)
  BY WaitingLemma
<1>2. /\ RingOK(queue_push(q, t))
      /\ Waiting(queue_push(q, t)) = Append(Waiting(q), t)
  BY PushLemma
<1>3. QED
  BY <1>1, <1>2, EnqueueLemma

LEMMA PopMembers ==
  ASSUME NEW q, RingOK(q), NoDup(Waiting(q))
  PROVE  /\ RingOK(queue_pop(q)) /\ NoDup(Waiting(queue_pop(q)))
         /\ Popped(q) \in Tasks \cup {NULL}
         /\ q.isEmpty <=> Popped(q) = NULL
         /\ \A u \in Tasks : In(u, Waiting(q)) <=> In(u, Waiting(queue_pop(q))) \/ u = Popped(q)
         /\ ~In(Popped(q), Waiting(queue_pop(q)))
<1>1. Waiting(q) \in Seq(Tasks) /\ Len(Waiting(q)) = queue_size(q)
  BY WaitingLemma
<1>2. CASE q.isEmpty
  <2>1. queue_pop(q) = q /\ Popped(q) = NULL /\ Len(Waiting(q)) = 0
    BY <1>1, <1>2 DEF queue_pop, Popped, queue_size
  <2>2. \A u : ~In(u, Waiting(q))
    BY <2>1 DEF In
  <2>3. NULL \notin Tasks
    BY CapacityAssumption DEF NULL, Tasks
  <2>4. QED
    BY <1>2, <2>1, <2>2, <2>3
<1>3. CASE ~q.isEmpty
  <2>1. /\ RingOK(queue_pop(q)) /\ Waiting(q) # <<>>
        /\ Popped(q) = Head(Waiting(q))
        /\ Waiting(queue_pop(q)) = Tail(Waiting(q))
    BY <1>3, PopLemma
  <2>2. Popped(q) \in Tasks /\ Popped(q) # NULL
    BY <1>1, <2>1, DequeueLemma, CapacityAssumption DEF NULL, Tasks
  <2>3. QED
    BY <1>1, <1>3, <2>1, <2>2, DequeueLemma
<1>4. QED
  BY <1>2, <1>3

(* scheduler() takes one task from the ready queue, if there is one.       *)
LEMMA ScheduleLemma ==
  ASSUME NEW rq, RingOK(rq), NoDup(Waiting(rq)), NEW st \in [Tasks -> States],
         Schedule(rq, st), \A u \in Tasks : In(u, Waiting(rq)) => st[u] # "EXITED"
  PROVE  /\ RingOK(ready_queue') /\ NoDup(Waiting(ready_queue'))
         /\ current_running' \in Tasks \cup {NULL}
         /\ state' \in [Tasks -> States]
         /\ \A u \in Tasks : In(u, Waiting(rq)) <=> IsReady(u)' \/ Running(u)'
         /\ \A u \in Tasks : Running(u)' => ~IsReady(u)'
         /\ \A u \in Tasks : state'[u] = "EXITED" <=> st[u] = "EXITED"
         /\ IdleWhenNoneReady'
<1>1. /\ current_running' = Popped(rq) /\ ready_queue' = queue_pop(rq)
      /\ state' = [t \in Tasks |-> IF t = Popped(rq) THEN "RUNNING" ELSE st[t]]
  BY DEF Schedule
<1>2. /\ RingOK(ready_queue') /\ NoDup(Waiting(ready_queue'))
      /\ current_running' \in Tasks \cup {NULL}
      /\ rq.isEmpty <=> current_running' = NULL
      /\ \A u \in Tasks : In(u, Waiting(rq)) <=> In(u, Waiting(ready_queue')) \/ u = current_running'
      /\ ~In(current_running', Waiting(ready_queue'))
  BY <1>1, PopMembers
<1>3. /\ \A u \in Tasks : In(u, Waiting(rq)) <=> IsReady(u)' \/ Running(u)'
      /\ \A u \in Tasks : Running(u)' => ~IsReady(u)'
  BY <1>2 DEF IsReady, Running
<1>4. state' \in [Tasks -> States]
  BY <1>1 DEF States
<1>5. ASSUME NEW u \in Tasks PROVE state'[u] = "EXITED" <=> st[u] = "EXITED"
  <2>1. CASE u = Popped(rq)
    BY <1>1, <1>2, <2>1
  <2>2. CASE u # Popped(rq)
    BY <1>1, <2>2
  <2>3. QED
    BY <2>1, <2>2
<1>6. IdleWhenNoneReady'
  <2>1. ASSUME current_running' = NULL, NEW u \in Tasks PROVE ~IsReady(u)'
    <3>1. rq.isEmpty /\ queue_pop(rq) = rq
      BY <1>2, <2>1 DEF queue_pop
    <3>2. Len(Waiting(rq)) = 0
      BY <3>1, WaitingLemma DEF queue_size
    <3>3. QED
      BY <1>1, <3>1, <3>2 DEF IsReady, In
  <2>2. QED
    BY <2>1 DEF IdleWhenNoneReady
<1>7. QED
  BY <1>2, <1>3, <1>4, <1>5, <1>6

-----------------------------------------------------------------------------
(***************************************************************************)
(* The functions of scheduler.c keep each task in one place.               *)
(***************************************************************************)
LEMMA YieldLemma ==
  ASSUME Queues, NEW t \in Tasks, Running(t), do_yield(t), state[t] # "EXITED"
  PROVE  /\ Queues' /\ blocked_queue' = blocked_queue
         /\ \A u \in Tasks : state'[u] = "EXITED" <=> state[u] = "EXITED"
<1> DEFINE rq == queue_push(ready_queue, t)
           st == [state EXCEPT ![t] = "READY"]
<1>1. /\ RingOK(rq) /\ NoDup(Waiting(rq))
      /\ \A u : In(u, Waiting(rq)) <=> IsReady(u) \/ u = t
  BY PushMembers DEF Queues, SchedulerTypeOK, TasksInOnePlace, IsReady
<1>2. st \in [Tasks -> States] /\ \A u \in Tasks : st[u] = "EXITED" <=> state[u] = "EXITED"
  BY DEF Queues, SchedulerTypeOK, States
<1>3. Schedule(rq, st) /\ blocked_queue' = blocked_queue
  BY DEF do_yield
<1>4. \A u \in Tasks : In(u, Waiting(rq)) => st[u] # "EXITED"
  BY <1>1, <1>2 DEF Queues, TasksInOnePlace
<1> HIDE DEF rq, st
<1>5. /\ RingOK(ready_queue') /\ NoDup(Waiting(ready_queue'))
      /\ current_running' \in Tasks \cup {NULL}
      /\ state' \in [Tasks -> States]
      /\ \A u \in Tasks : In(u, Waiting(rq)) <=> IsReady(u)' \/ Running(u)'
      /\ \A u \in Tasks : Running(u)' => ~IsReady(u)'
      /\ \A u \in Tasks : state'[u] = "EXITED" <=> st[u] = "EXITED"
      /\ IdleWhenNoneReady'
  BY <1>1, <1>2, <1>3, <1>4, ScheduleLemma
<1>6. \A u \in Tasks : IsBlocked(u)' <=> IsBlocked(u)
  BY <1>3 DEF IsBlocked
<1>7. \A u \in Tasks : Running(u) <=> u = t
  BY DEF Running
<1>8. TasksInOnePlace'
  BY <1>1, <1>2, <1>3, <1>5, <1>6, <1>7 DEF Queues, TasksInOnePlace
<1>9. QED
  BY <1>2, <1>3, <1>5, <1>8 DEF Queues, SchedulerTypeOK

LEMMA ExitLemma ==
  ASSUME Queues, NEW t \in Tasks, Running(t), do_exit(t)
  PROVE  /\ Queues' /\ blocked_queue' = blocked_queue
         /\ \A u \in Tasks : state'[u] = "EXITED" <=> state[u] = "EXITED" \/ u = t
<1> DEFINE st == [state EXCEPT ![t] = "EXITED"]
<1>1. st \in [Tasks -> States] /\ \A u \in Tasks : st[u] = "EXITED" <=> state[u] = "EXITED" \/ u = t
  BY DEF Queues, SchedulerTypeOK, States
<1>2. Schedule(ready_queue, st) /\ blocked_queue' = blocked_queue
  BY DEF do_exit
<1>3. \A u \in Tasks : IsReady(u) => st[u] # "EXITED"
  BY <1>1 DEF Queues, TasksInOnePlace
<1>4. RingOK(ready_queue) /\ NoDup(Waiting(ready_queue))
  BY DEF Queues, SchedulerTypeOK, TasksInOnePlace
<1> HIDE DEF st
<1>5. /\ RingOK(ready_queue') /\ NoDup(Waiting(ready_queue'))
      /\ current_running' \in Tasks \cup {NULL}
      /\ state' \in [Tasks -> States]
      /\ \A u \in Tasks : IsReady(u) <=> IsReady(u)' \/ Running(u)'
      /\ \A u \in Tasks : Running(u)' => ~IsReady(u)'
      /\ \A u \in Tasks : state'[u] = "EXITED" <=> st[u] = "EXITED"
      /\ IdleWhenNoneReady'
  BY <1>1, <1>2, <1>3, <1>4, ScheduleLemma DEF IsReady
<1>6. \A u \in Tasks : IsBlocked(u)' <=> IsBlocked(u)
  BY <1>2 DEF IsBlocked
<1>7. \A u \in Tasks : Running(u) <=> u = t
  BY DEF Running
<1>8. TasksInOnePlace'
  BY <1>1, <1>2, <1>5, <1>6, <1>7 DEF Queues, TasksInOnePlace
<1>9. QED
  BY <1>1, <1>2, <1>5, <1>8 DEF Queues, SchedulerTypeOK

LEMMA BlockLemma ==
  ASSUME Queues, NEW t \in Tasks, Running(t), block(t), state[t] # "EXITED"
  PROVE  /\ Queues'
         /\ \A u \in Tasks : IsBlocked(u)' <=> IsBlocked(u) \/ u = t
         /\ \A u \in Tasks : state'[u] = "EXITED" <=> state[u] = "EXITED"
<1> DEFINE st == [state EXCEPT ![t] = "BLOCKED"]
<1>1. st \in [Tasks -> States] /\ \A u \in Tasks : st[u] = "EXITED" <=> state[u] = "EXITED"
  BY DEF Queues, SchedulerTypeOK, States
<1>2. Schedule(ready_queue, st) /\ blocked_queue' = queue_push(blocked_queue, t)
  BY DEF block
<1>3. \A u \in Tasks : IsReady(u) => st[u] # "EXITED"
  BY <1>1 DEF Queues, TasksInOnePlace
<1>4. RingOK(ready_queue) /\ NoDup(Waiting(ready_queue))
  BY DEF Queues, SchedulerTypeOK, TasksInOnePlace
<1> HIDE DEF st
<1>5. /\ RingOK(ready_queue') /\ NoDup(Waiting(ready_queue'))
      /\ current_running' \in Tasks \cup {NULL}
      /\ state' \in [Tasks -> States]
      /\ \A u \in Tasks : IsReady(u) <=> IsReady(u)' \/ Running(u)'
      /\ \A u \in Tasks : Running(u)' => ~IsReady(u)'
      /\ \A u \in Tasks : state'[u] = "EXITED" <=> st[u] = "EXITED"
      /\ IdleWhenNoneReady'
  BY <1>1, <1>2, <1>3, <1>4, ScheduleLemma DEF IsReady
<1>6. /\ RingOK(blocked_queue') /\ NoDup(Waiting(blocked_queue'))
      /\ \A u \in Tasks : IsBlocked(u)' <=> IsBlocked(u) \/ u = t
  BY <1>2, PushMembers DEF Queues, SchedulerTypeOK, TasksInOnePlace, IsBlocked
<1>7. \A u \in Tasks : Running(u) <=> u = t
  BY DEF Running
<1>8. TasksInOnePlace'
  BY <1>1, <1>5, <1>6, <1>7 DEF Queues, TasksInOnePlace
<1>9. QED
  BY <1>1, <1>5, <1>6, <1>8 DEF Queues, SchedulerTypeOK

LEMMA UnblockLemma ==
  ASSUME Queues, current_running \in Tasks, unblock_one, ~blocked_queue.isEmpty
  PROVE  /\ Queues'
         /\ \A u \in Tasks : IsBlocked(u)' => IsBlocked(u)
<1> DEFINE p == Popped(blocked_queue)
<1>1. /\ ready_queue' = queue_push(ready_queue, p)
      /\ blocked_queue' = queue_pop(blocked_queue)
      /\ current_running' = current_running /\ state' = state
  BY DEF unblock_one
<1>2. /\ RingOK(blocked_queue') /\ NoDup(Waiting(blocked_queue'))
      /\ p \in Tasks
      /\ \A u \in Tasks : IsBlocked(u) <=> IsBlocked(u)' \/ u = p
      /\ \A u \in Tasks : u = p => ~IsBlocked(u)'
  BY <1>1, PopMembers DEF Queues, SchedulerTypeOK, TasksInOnePlace, IsBlocked
<1>3. /\ RingOK(ready_queue') /\ NoDup(Waiting(ready_queue'))
      /\ \A u \in Tasks : IsReady(u)' <=> IsReady(u) \/ u = p
  <2>1. ~IsReady(p) /\ RingOK(ready_queue) /\ NoDup(Waiting(ready_queue))
    BY <1>2 DEF Queues, SchedulerTypeOK, TasksInOnePlace
  <2> HIDE DEF p
  <2>2. QED
    BY <1>1, <1>2, <2>1, PushMembers DEF IsReady
<1> HIDE DEF p
<1>4. \A u \in Tasks : Running(u)' <=> Running(u)
  BY <1>1 DEF Running
<1>5. TasksInOnePlace'
  <2>1. /\ NoDup(Waiting(ready_queue)) /\ NoDup(Waiting(blocked_queue))
        /\ \A u \in Tasks :
             /\ ~(IsReady(u) /\ IsBlocked(u))
             /\ Running(u) => ~IsReady(u) /\ ~IsBlocked(u)
             /\ state[u] # "EXITED" <=> Running(u) \/ IsReady(u) \/ IsBlocked(u)
    BY DEF Queues, TasksInOnePlace
  <2>2. ASSUME NEW u \in Tasks
        PROVE  /\ ~(IsReady(u)' /\ IsBlocked(u)')
               /\ Running(u)' => ~IsReady(u)' /\ ~IsBlocked(u)'
               /\ state'[u] # "EXITED" <=> Running(u)' \/ IsReady(u)' \/ IsBlocked(u)'
    BY <1>1, <1>2, <1>3, <1>4, <2>1
  <2>3. QED
    BY <1>2, <1>3, <2>2 DEF TasksInOnePlace
<1>6. current_running # NULL
  BY CapacityAssumption DEF NULL, Tasks
<1>7. QED
  BY <1>1, <1>2, <1>3, <1>5, <1>6 DEF Queues, SchedulerTypeOK, IdleWhenNoneReady

-----------------------------------------------------------------------------
(***************************************************************************)
(* Every action keeps the invariant.                                       *)
(***************************************************************************)
LEMMA InitLemma == KernelInit => KernelInv
<1> SUFFICES ASSUME KernelInit PROVE KernelInv
  OBVIOUS
<1> DEFINE all == [pcbs |-> [i \in Slots |-> i], head |-> 0, tail |-> 0, isEmpty |-> FALSE]
<1>1. /\ ready_queue = queue_pop(all) /\ current_running = Popped(all)
      /\ blocked_queue = queue_init
      /\ state = [t \in Tasks |-> IF t = 0 THEN "RUNNING" ELSE "READY"]
      /\ lock = [l \in Locks |-> "UNLOCKED"]
      /\ at = [t \in Tasks |-> "outside"]
      /\ wants = [t \in Tasks |-> NULL]
  BY DEF KernelInit
<1>2. 0 \in Slots /\ 0 \in Tasks /\ NULL \notin Tasks
  BY CapacityAssumption DEF Slots, Tasks, NULL
<1>3. queue_size(all) = NUM_TASKS
  BY CapacityAssumption DEF queue_size
<1>4. \A k \in 1..NUM_TASKS : Slot(0 + k - 1) = k - 1 /\ k - 1 \in Slots /\ k - 1 \in Tasks
  BY CapacityAssumption DEF Slot, Slots, Tasks
<1>5. RingOK(all)
  <2>1. all \in [pcbs : [Slots -> Tasks \cup {NULL}], head : Slots, tail : Slots,
                 isEmpty : BOOLEAN]
    BY <1>2, CapacityAssumption DEF Slots, Tasks
  <2>2. \A k \in 1..NUM_TASKS : all.pcbs[Slot(all.head + k - 1)] \in Tasks
    BY <1>4
  <2>3. all.isEmpty = FALSE
    OBVIOUS
  <2> HIDE DEF all
  <2>4. QED
    BY <1>3, <2>1, <2>2, <2>3 DEF RingOK
<1>6. NoDup(Waiting(all)) /\ \A u \in Tasks : In(u, Waiting(all))
  <2>1. Waiting(all) = [k \in 1..NUM_TASKS |-> all.pcbs[Slot(all.head + k - 1)]]
        /\ Len(Waiting(all)) = NUM_TASKS
    BY <1>3, <1>5, WaitingLemma
  <2>2. \A k \in 1..NUM_TASKS : Waiting(all)[k] = k - 1
    BY <1>4, <2>1
  <2>3. \A i, j \in 1..NUM_TASKS : i - 1 = j - 1 => i = j
    BY CapacityAssumption
  <2>4. NoDup(Waiting(all))
    <3> HIDE DEF all
    <3>1. ASSUME NEW i \in 1..NUM_TASKS, NEW j \in 1..NUM_TASKS,
                 Waiting(all)[i] = Waiting(all)[j]
          PROVE  i = j
      <4>1. i - 1 = j - 1
        BY <2>2, <3>1
      <4>2. QED
        BY <2>3, <4>1
    <3>2. QED
      BY <2>1, <3>1 DEF NoDup
  <2>5. \A u \in Tasks : u + 1 \in 1..NUM_TASKS /\ (u + 1) - 1 = u
    BY CapacityAssumption DEF Tasks
  <2>6. QED
    BY <2>1, <2>2, <2>4, <2>5 DEF In
<1>7. all.isEmpty = FALSE /\ all.pcbs[all.head] = 0
  BY <1>2
<1> HIDE DEF all
<1>8. /\ RingOK(ready_queue) /\ NoDup(Waiting(ready_queue))
      /\ current_running = 0
      /\ \A u \in Tasks : IsReady(u) \/ u = 0
      /\ ~IsReady(0)
  <2>1. Popped(all) = 0
    BY <1>7 DEF Popped
  <2>2. QED
    BY <1>1, <1>5, <1>6, <2>1, PopMembers DEF IsReady
<1>9. RingOK(blocked_queue) /\ Len(Waiting(blocked_queue)) = 0
  <2>1. queue_size(queue_init) = 0 /\ queue_init.isEmpty
    BY DEF queue_size, queue_init
  <2>2. RingOK(queue_init)
    BY <1>2, <2>1 DEF RingOK, queue_init
  <2>3. QED
    BY <1>1, <2>1, <2>2, WaitingLemma
<1>10. NoDup(Waiting(blocked_queue)) /\ \A u : ~IsBlocked(u)
  BY <1>9 DEF NoDup, IsBlocked, In
<1>11. TasksInOnePlace
  BY <1>1, <1>2, <1>8, <1>10 DEF TasksInOnePlace, Running
<1>12. SchedulerTypeOK
  BY <1>1, <1>2, <1>8, <1>9 DEF SchedulerTypeOK, States
<1>13. Queues
  BY <1>2, <1>8, <1>11, <1>12 DEF Queues, IdleWhenNoneReady
<1>14. KernelTypeOK
  BY <1>1, <1>12 DEF KernelTypeOK, Places
<1>15. OneHolder
  BY <1>1 DEF OneHolder, Holds
<1>16. WantsALock /\ WaitsForLock /\ OwnPlaces
  BY <1>1, <1>10 DEF WantsALock, WaitsForLock, OwnPlaces
<1>17. QED
  BY <1>13, <1>14, <1>15, <1>16 DEF KernelInv

\* a running task has not exited; it and no other runs
LEMMA RunningLemma ==
  ASSUME KernelInv, NEW t \in Tasks, Running(t)
  PROVE  /\ state[t] # "EXITED" /\ current_running \in Tasks
         /\ \A u \in Tasks : u # t => ~Running(u) /\ at[u] # "unblocking"
         /\ ~IsBlocked(t)
BY DEF KernelInv, Queues, TasksInOnePlace, Running, OwnPlaces

LEMMA YieldStep ==
  ASSUME KernelInv, NEW t \in Tasks, Yield(t)
  PROVE  KernelInv'
<1>1. /\ Running(t) /\ at[t] \in {"outside", "inside", "released"}
      /\ at' = [at EXCEPT ![t] = IF at[t] = "inside" THEN "yielded" ELSE "outside"]
      /\ do_yield(t) /\ lock' = lock /\ wants' = wants
  BY DEF Yield, Goes
<1>2. /\ Queues' /\ blocked_queue' = blocked_queue
      /\ \A u \in Tasks : state'[u] = "EXITED" <=> state[u] = "EXITED"
  BY <1>1, RunningLemma, YieldLemma DEF KernelInv
<1>3. /\ at \in [Tasks -> Places] /\ \A u \in Tasks : u # t => at'[u] = at[u]
      /\ at'[t] = IF at[t] = "inside" THEN "yielded" ELSE "outside"
      /\ at' \in [Tasks -> Places]
  BY <1>1 DEF KernelInv, KernelTypeOK, Places
<1>4. KernelTypeOK'
  BY <1>1, <1>2, <1>3 DEF KernelInv, KernelTypeOK, Queues
<1>5. WantsALock'
  BY <1>1, <1>3 DEF KernelInv, WantsALock
<1>6. OneHolder'
  <2>1. \A u \in Tasks, l \in Locks : Holds(u, l)' <=> Holds(u, l)
    BY <1>1, <1>3 DEF Holds
  <2>2. QED
    BY <1>1, <2>1 DEF KernelInv, OneHolder
<1>7. OwnPlaces'
  BY <1>1, <1>2, <1>3, RunningLemma DEF KernelInv, OwnPlaces
<1>8. WaitsForLock'
  <2>1. \A u \in Tasks : IsBlocked(u)' <=> IsBlocked(u)
    BY <1>2 DEF IsBlocked
  <2>2. ~Unblocking
    BY <1>1, RunningLemma DEF Unblocking
  <2>3. QED
    BY <1>1, <1>3, <2>1, <2>2, RunningLemma DEF KernelInv, WaitsForLock
<1>9. QED
  BY <1>2, <1>4, <1>5, <1>6, <1>7, <1>8 DEF KernelInv

LEMMA ExitStep ==
  ASSUME KernelInv, NEW t \in Tasks, Exit(t)
  PROVE  KernelInv'
<1>1. /\ Running(t) /\ at[t] \in {"outside", "released"} /\ do_exit(t)
      /\ lock' = lock /\ at' = at /\ wants' = wants
  BY DEF Exit
<1>2. /\ Queues' /\ blocked_queue' = blocked_queue
      /\ \A u \in Tasks : state'[u] = "EXITED" <=> state[u] = "EXITED" \/ u = t
  BY <1>1, ExitLemma DEF KernelInv
<1>3. KernelTypeOK'
  BY <1>1, <1>2 DEF KernelInv, KernelTypeOK, Queues
<1>4. WantsALock' /\ OneHolder'
  BY <1>1 DEF KernelInv, WantsALock, OneHolder, Holds
<1>5. OwnPlaces'
  BY <1>1, <1>2, RunningLemma DEF KernelInv, OwnPlaces
<1>6. WaitsForLock'
  <2>1. \A u \in Tasks : IsBlocked(u)' <=> IsBlocked(u)
    BY <1>2 DEF IsBlocked
  <2>2. ~Unblocking
    BY <1>1, RunningLemma DEF Unblocking
  <2>3. QED
    BY <1>1, <2>1, <2>2 DEF KernelInv, WaitsForLock
<1>7. QED
  BY <1>2, <1>3, <1>4, <1>5, <1>6 DEF KernelInv

LEMMA AcquireStep ==
  ASSUME KernelInv, NEW t \in Tasks, NEW l \in Locks, lock_acquire(t, l)
  PROVE  KernelInv'
<1>1. /\ Running(t) /\ at[t] \in {"outside", "asking"}
      /\ wants' = [wants EXCEPT ![t] = l]
  BY DEF lock_acquire
<1>2. /\ wants \in [Tasks -> Locks \cup {NULL}] /\ wants' \in [Tasks -> Locks \cup {NULL}]
      /\ wants'[t] = l /\ \A u \in Tasks : u # t => wants'[u] = wants[u]
  BY <1>1 DEF KernelInv, KernelTypeOK
<1>3. ~Unblocking
  BY <1>1, RunningLemma DEF Unblocking
<1>4. \A m \in Locks : ~Holds(t, m)
  BY <1>1 DEF Holds
<1>5. CASE lock[l] = "LOCKED"
  <2>1. /\ at' = [at EXCEPT ![t] = "asking"] /\ block(t) /\ lock' = lock
    BY <1>5 DEF lock_acquire, Goes
  <2>2. /\ Queues' /\ \A u \in Tasks : IsBlocked(u)' <=> IsBlocked(u) \/ u = t
        /\ \A u \in Tasks : state'[u] = "EXITED" <=> state[u] = "EXITED"
    BY <1>1, <2>1, RunningLemma, BlockLemma DEF KernelInv
  <2>3. /\ \A u \in Tasks : u # t => at'[u] = at[u]
        /\ at'[t] = "asking" /\ at' \in [Tasks -> Places]
    BY <2>1 DEF KernelInv, KernelTypeOK, Places
  <2>4. KernelTypeOK'
    BY <1>2, <2>1, <2>2, <2>3 DEF KernelInv, KernelTypeOK, Queues
  <2>5. WantsALock'
    BY <1>2, <2>3 DEF KernelInv, WantsALock
  <2>6. OneHolder'
    <3>1. \A u \in Tasks, m \in Locks : Holds(u, m)' <=> Holds(u, m)
      BY <1>2, <1>4, <2>3 DEF Holds
    <3>2. QED
      BY <2>1, <3>1 DEF KernelInv, OneHolder
  <2>7. OwnPlaces'
    BY <1>1, <2>2, <2>3, RunningLemma DEF KernelInv, OwnPlaces
  <2>8. WaitsForLock'
    BY <1>2, <1>3, <1>5, <2>1, <2>2, <2>3 DEF KernelInv, WaitsForLock
  <2>9. QED
    BY <2>2, <2>4, <2>5, <2>6, <2>7, <2>8 DEF KernelInv
<1>6. CASE lock[l] # "LOCKED"
  <2>1. /\ at' = [at EXCEPT ![t] = "inside"] /\ lock' = [lock EXCEPT ![l] = "LOCKED"]
        /\ UNCHANGED <<ready_queue, blocked_queue, current_running, state>>
    BY <1>6 DEF lock_acquire, Goes
  <2>2. Queues' /\ \A u \in Tasks : (IsBlocked(u)' <=> IsBlocked(u)) /\ (Running(u)' <=> Running(u))
    BY <2>1 DEF KernelInv, Queues, SchedulerTypeOK, TasksInOnePlace, IdleWhenNoneReady,
                IsReady, IsBlocked, Running
  <2>3. /\ \A u \in Tasks : u # t => at'[u] = at[u]
        /\ at'[t] = "inside" /\ at' \in [Tasks -> Places]
    BY <2>1 DEF KernelInv, KernelTypeOK, Places
  <2>4. /\ lock'[l] = "LOCKED" /\ \A m \in Locks : m # l => lock'[m] = lock[m]
        /\ lock' \in [Locks -> {"LOCKED", "UNLOCKED"}]
    BY <2>1 DEF KernelInv, KernelTypeOK
  <2>5. KernelTypeOK'
    BY <1>2, <2>2, <2>3, <2>4 DEF KernelTypeOK, Queues
  <2>6. WantsALock'
    BY <1>2, <2>3 DEF KernelInv, WantsALock
  <2>7. OneHolder'
    <3>1. \A u \in Tasks, m \in Locks : Holds(u, m)' <=> IF u = t THEN m = l ELSE Holds(u, m)
      BY <1>2, <2>3 DEF Holds
    <3>2. \A u \in Tasks : ~Holds(u, l)
      BY <1>6 DEF KernelInv, OneHolder
    <3>3. QED
      BY <1>4, <2>4, <3>1, <3>2 DEF KernelInv, OneHolder
  <2>8. OwnPlaces'
    BY <1>1, <2>1, <2>2, <2>3, RunningLemma DEF KernelInv, OwnPlaces
  <2>9. WaitsForLock'
    <3>1. ASSUME NEW u \in Tasks, IsBlocked(u)
          PROVE  at'[u] = "asking" /\ lock'[wants'[u]] = "LOCKED"
      <4>1. at[u] = "asking" /\ lock[wants[u]] = "LOCKED" /\ wants[u] \in Locks /\ u # t
        BY <1>1, <1>3, <3>1, RunningLemma DEF KernelInv, WaitsForLock, WantsALock
      <4>2. QED
        BY <1>2, <2>3, <2>4, <4>1
    <3>2. QED
      BY <2>2, <3>1 DEF WaitsForLock
  <2>10. QED
    BY <2>2, <2>5, <2>6, <2>7, <2>8, <2>9 DEF KernelInv
<1>7. QED
  BY <1>5, <1>6

LEMMA ReleaseStep ==
  ASSUME KernelInv, NEW t \in Tasks, lock_release(t)
  PROVE  KernelInv'
<1> DEFINE l == wants[t]
<1>1. /\ Running(t) /\ at[t] \in {"inside", "yielded"}
      /\ at' = [at EXCEPT ![t] = "unblocking"]
      /\ lock' = [lock EXCEPT ![l] = "UNLOCKED"]
      /\ wants' = [wants EXCEPT ![t] = NULL]
      /\ UNCHANGED <<ready_queue, blocked_queue, current_running, state>>
  BY DEF lock_release, Goes
<1>2. l \in Locks
  BY <1>1 DEF KernelInv, WantsALock
<1>3. Queues' /\ \A u \in Tasks : (IsBlocked(u)' <=> IsBlocked(u)) /\ (Running(u)' <=> Running(u))
  BY <1>1 DEF KernelInv, Queues, SchedulerTypeOK, TasksInOnePlace, IdleWhenNoneReady,
              IsReady, IsBlocked, Running
<1>4. /\ \A u \in Tasks : u # t => at'[u] = at[u] /\ wants'[u] = wants[u]
      /\ at'[t] = "unblocking" /\ at' \in [Tasks -> Places]
      /\ wants' \in [Tasks -> Locks \cup {NULL}]
  BY <1>1 DEF KernelInv, KernelTypeOK, Places
<1>5. \A u \in Tasks, m \in Locks : Holds(u, m)' <=> Holds(u, m) /\ u # t
  BY <1>4 DEF Holds
<1>6. Holds(t, l) /\ \A m \in Locks : Holds(t, m) => m = l
  BY <1>1, <1>2 DEF Holds
<1>7. /\ lock'[l] = "UNLOCKED" /\ \A m \in Locks : m # l => lock'[m] = lock[m]
      /\ lock' \in [Locks -> {"LOCKED", "UNLOCKED"}]
  BY <1>1, <1>2 DEF KernelInv, KernelTypeOK
<1> HIDE DEF l
<1>8. KernelTypeOK'
  BY <1>3, <1>4, <1>7 DEF KernelTypeOK, Queues
<1>9. WantsALock'
  BY <1>4 DEF KernelInv, WantsALock
<1>10. OneHolder'
  <2>1. ASSUME NEW m \in Locks
        PROVE  lock'[m] = "LOCKED" <=> \E u \in Tasks : Holds(u, m)'
    <3>1. CASE m = l
      BY <1>2, <1>5, <1>6, <1>7, <3>1 DEF KernelInv, OneHolder
    <3>2. CASE m # l
      BY <1>5, <1>6, <1>7, <3>2 DEF KernelInv, OneHolder
    <3>3. QED
      BY <3>1, <3>2
  <2>2. QED
    BY <1>5, <2>1 DEF KernelInv, OneHolder
<1>11. OwnPlaces'
  BY <1>1, <1>3, <1>4, RunningLemma DEF KernelInv, OwnPlaces
<1>12. WaitsForLock'
  <2>1. Unblocking'
    BY <1>1, <1>3, <1>4 DEF Unblocking
  <2>2. QED
    BY <1>1, <1>3, <1>4, <2>1, RunningLemma DEF KernelInv, WaitsForLock
<1>13. QED
  BY <1>3, <1>8, <1>9, <1>10, <1>11, <1>12 DEF KernelInv

LEMMA UnblockStep ==
  ASSUME KernelInv, NEW t \in Tasks, unblock(t)
  PROVE  KernelInv'
<1>1. Running(t) /\ at[t] = "unblocking" /\ lock' = lock /\ wants' = wants
  BY DEF unblock
<1>2. CASE blocked_queue.isEmpty
  <2>1. /\ at' = [at EXCEPT ![t] = "released"]
        /\ UNCHANGED <<ready_queue, blocked_queue, current_running, state>>
    BY <1>2 DEF unblock, Goes
  <2>2. Queues' /\ \A u \in Tasks : (IsBlocked(u)' <=> IsBlocked(u)) /\ (Running(u)' <=> Running(u))
    BY <2>1 DEF KernelInv, Queues, SchedulerTypeOK, TasksInOnePlace, IdleWhenNoneReady,
                IsReady, IsBlocked, Running
  <2>3. /\ \A u \in Tasks : u # t => at'[u] = at[u]
        /\ at'[t] = "released" /\ at' \in [Tasks -> Places]
    BY <2>1 DEF KernelInv, KernelTypeOK, Places
  <2>4. \A u \in Tasks : ~IsBlocked(u)
    <3>1. RingOK(blocked_queue)
      BY DEF KernelInv, Queues, SchedulerTypeOK
    <3>2. Len(Waiting(blocked_queue)) = 0
      BY <1>2, <3>1, WaitingLemma DEF queue_size
    <3>3. QED
      BY <3>2 DEF IsBlocked, In
  <2>5. KernelTypeOK'
    BY <1>1, <2>2, <2>3 DEF KernelInv, KernelTypeOK, Queues
  <2>6. WantsALock' /\ WaitsForLock'
    BY <1>1, <2>2, <2>3, <2>4 DEF KernelInv, WantsALock, WaitsForLock
  <2>7. OneHolder'
    <3>1. \A u \in Tasks, m \in Locks : Holds(u, m)' <=> Holds(u, m)
      BY <1>1, <2>3 DEF Holds
    <3>2. QED
      BY <1>1, <3>1 DEF KernelInv, OneHolder
  <2>8. OwnPlaces'
    BY <1>1, <2>1, <2>2, <2>3, RunningLemma DEF KernelInv, OwnPlaces
  <2>9. QED
    BY <2>2, <2>5, <2>6, <2>7, <2>8 DEF KernelInv
<1>3. CASE ~blocked_queue.isEmpty
  <2>1. unblock_one /\ at' = at
    BY <1>3 DEF unblock
  <2>2. Queues' /\ \A u \in Tasks : IsBlocked(u)' => IsBlocked(u)
    BY <1>1, <1>3, <2>1, RunningLemma, UnblockLemma DEF KernelInv
  <2>3. state' = state /\ \A u \in Tasks : Running(u)' <=> Running(u)
    BY <2>1 DEF unblock_one, Running
  <2>4. KernelTypeOK'
    BY <1>1, <2>1, <2>2 DEF KernelInv, KernelTypeOK, Queues
  <2>5. WantsALock' /\ OneHolder' /\ OwnPlaces'
    BY <1>1, <2>1, <2>3 DEF KernelInv, WantsALock, OneHolder, Holds, OwnPlaces
  <2>6. WaitsForLock'
    <3>1. Unblocking'
      BY <1>1, <2>1, <2>3 DEF Unblocking
    <3>2. QED
      BY <1>1, <2>1, <2>2, <3>1 DEF KernelInv, WaitsForLock
  <2>7. QED
    BY <2>2, <2>4, <2>5, <2>6 DEF KernelInv
<1>4. QED
  BY <1>2, <1>3

LEMMA InvariantLemma == KernelSpec => []KernelInv
<1>1. KernelInv /\ [KernelNext]_kernelVars => KernelInv'
  <2> SUFFICES ASSUME KernelInv, [KernelNext]_kernelVars PROVE KernelInv'
    OBVIOUS
  <2>1. CASE KernelNext
    BY <2>1, YieldStep, ExitStep, AcquireStep, ReleaseStep, UnblockStep DEF KernelNext
  <2>2. CASE UNCHANGED kernelVars
    BY <2>2 DEF kernelVars, KernelInv, KernelTypeOK, SchedulerTypeOK, Queues, TasksInOnePlace,
                IdleWhenNoneReady, WantsALock, OneHolder, WaitsForLock, OwnPlaces,
                Unblocking, IsReady, IsBlocked, Running, Holds
  <2>3. QED
    BY <2>1, <2>2
<1>2. QED
  BY InitLemma, <1>1, PTL DEF KernelSpec

(***************************************************************************)
(* What waits is waited for: the lock's status, not who holds it, is what  *)
(* the steps keep, and OneHolder says that somebody holds it.              *)
(***************************************************************************)
LEMMA HolderLemma == KernelInv => BlockedTasksWait
<1> SUFFICES ASSUME KernelInv, NEW t \in Tasks, IsBlocked(t)
             PROVE  /\ at[t] = "asking"
                    /\ \/ \E u \in Tasks : Holds(u, wants[t]) /\ ~IsBlocked(u) /\ state[u] # "EXITED"
                       \/ \E u \in Tasks : Running(u) /\ at[u] = "unblocking"
  BY DEF BlockedTasksWait
<1>1. at[t] = "asking" /\ wants[t] \in Locks /\ (lock[wants[t]] = "LOCKED" \/ Unblocking)
  BY DEF KernelInv, WaitsForLock, WantsALock
<1>2. ASSUME lock[wants[t]] = "LOCKED"
      PROVE  \E u \in Tasks : Holds(u, wants[t]) /\ ~IsBlocked(u) /\ state[u] # "EXITED"
  <2>1. PICK u \in Tasks : Holds(u, wants[t])
    BY <1>1, <1>2 DEF KernelInv, OneHolder
  <2>2. ~IsBlocked(u) /\ state[u] # "EXITED"
    BY <2>1 DEF KernelInv, WaitsForLock, OwnPlaces, Holds
  <2>3. QED
    BY <2>1, <2>2
<1>3. QED
  BY <1>1, <1>2 DEF Unblocking

(* No task is lost or doubled by the rings of queue.c, full or wrapped     *)
(* around, for any number of tasks.                                        *)
THEOREM KernelKeepsTasks == KernelSpec => []TasksInOnePlace
<1>1. KernelInv => TasksInOnePlace
  BY DEF KernelInv, Queues
<1>2. QED
  BY InvariantLemma, <1>1, PTL

(* A lock has one holder, although lock_release() frees it before its      *)
(* waiters look at it again.                                               *)
THEOREM KernelLocksHeldOnce == KernelSpec => []OneHolder
<1>1. KernelInv => OneHolder
  BY DEF KernelInv
<1>2. QED
  BY InvariantLemma, <1>1, PTL

(* No wakeup is lost between lock_acquire() and lock_release().            *)
THEOREM KernelWakesWaiters == KernelSpec => []BlockedTasksWait
BY InvariantLemma, HolderLemma, PTL

(* scheduler() finds no task only when all have exited.                    *)
THEOREM KernelRunsOutWhenDone == KernelSpec => []RunsOutWhenDone
<1>1. KernelInv => RunsOutWhenDone
  <2> SUFFICES ASSUME KernelInv, current_running = NULL, NEW t \in Tasks
               PROVE  state[t] = "EXITED"
    BY DEF RunsOutWhenDone
  <2>1. \A u \in Tasks : ~Running(u) /\ ~IsReady(u)
    <3>1. NULL \notin Tasks
      BY CapacityAssumption DEF NULL, Tasks
    <3>2. QED
      BY <3>1 DEF KernelInv, Queues, IdleWhenNoneReady, Running
  <2>2. \A u \in Tasks : state[u] # "EXITED" => IsBlocked(u)
    BY <2>1 DEF KernelInv, Queues, TasksInOnePlace
  <2>3. QED
    BY <2>1, <2>2, HolderLemma DEF BlockedTasksWait
<1>2. QED
  BY InvariantLemma, <1>1, PTL
=============================================================================
