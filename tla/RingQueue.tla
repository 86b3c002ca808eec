---------------------------- MODULE RingQueue ----------------------------
(***************************************************************************)
(* queue.c of P2: an array of NUM_TASKS tasks used as a ring, from head up *)
(* to tail.  Whether the ring is empty or full when head and tail meet is  *)
(* told by isEmpty.                                                        *)
(***************************************************************************)
EXTENDS Integers, Sequences

CONSTANT NUM_TASKS

ASSUME CapacityAssumption == NUM_TASKS \in Nat \ {0}

Slots == 0..NUM_TASKS - 1
Tasks == 0..NUM_TASKS - 1      \* the tasks are numbered by their pid
NULL  == -1

\* (i + 1) modulo the capacity
Advance(i) == (i + 1) % NUM_TASKS

queue_init ==
  [pcbs |-> [i \in Slots |-> NULL], head |-> 0, tail |-> 0, isEmpty |-> TRUE]

Full(q) == ~q.isEmpty /\ q.head = q.tail

\* Faulty: the ring is not told that it holds something.
PushLeavesEmpty(q, t) ==
  IF Full(q) THEN q
  ELSE [q EXCEPT !.pcbs[q.tail] = t, !.tail = Advance(q.tail)]

\* nobody looks at the result, which says whether the ring was full
queue_push(q, t) ==
  IF Full(q) THEN q
  ELSE [q EXCEPT !.pcbs[q.tail] = t, !.tail = Advance(q.tail), !.isEmpty = FALSE]

\* what queue_pop() returns, and what it leaves
Popped(q) == IF q.isEmpty THEN NULL ELSE q.pcbs[q.head]

queue_pop(q) ==
  IF q.isEmpty THEN q
  ELSE [q EXCEPT !.head = Advance(q.head),
                 !.isEmpty = (Advance(q.head) = q.tail)]

queue_size(q) ==
  IF q.isEmpty THEN 0
  ELSE IF q.head < q.tail THEN q.tail - q.head
  ELSE q.tail + NUM_TASKS - q.head

\* the tasks in the ring, oldest first
Waiting(q) ==
  [k \in 1..queue_size(q) |-> q.pcbs[(q.head + k - 1) % NUM_TASKS]]
=============================================================================
