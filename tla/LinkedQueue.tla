----------------------------- MODULE LinkedQueue -----------------------------
(***************************************************************************)
(* queue.c: circular doubly linked lists with a sentinel, and the unlinking *)
(* of a task's node that do_kill() does by hand.                           *)
(*                                                                         *)
(* Every list node belongs to a queue head or is the node of one PCB.      *)
(* The nodes of PCBs start as zeroes and keep what was written last when   *)
(* they leave a list.  queue is what each list is meant to hold; clients   *)
(* enqueue a node that is in no list and unlink one that is in some, as    *)
(* the kernel does while EachTaskInOnePlace holds of it.                   *)
(***************************************************************************)
EXTENDS TaskQueue, Integers

CONSTANTS
    Queues,     \* the heads
    Tasks,      \* the PCBs
    NULL

ASSUME NodesAssumption == Queues \cap Tasks = {} /\ NULL \notin Queues \cup Tasks

Nodes == Queues \cup Tasks

VARIABLES
    next, prev,
    item,       \* what the last dequeue() returned
    queue       \* history: the tasks enqueued in each list, in order

linkVars == <<next, prev, item, queue>>

LinkTypeOK ==
    /\ next \in [Nodes -> Nodes \cup {NULL}]
    /\ prev \in [Nodes -> Nodes \cup {NULL}]
    /\ item \in Tasks \cup {NULL}
    /\ queue \in [Queues -> Seq(Tasks)]

\* queue_init() of every head.
LinkInit ==
    /\ next = [x \in Nodes |-> IF x \in Queues THEN x ELSE NULL]
    /\ prev = [x \in Nodes |-> IF x \in Queues THEN x ELSE NULL]
    /\ item = NULL
    /\ queue = [q \in Queues |-> <<>>]

Linked(x) == \E q \in Queues : In(x, queue[q])

is_empty(q) == next[q] = q

\* Faulty: the node before is not told of its new next.
enqueue_loose(q, x) ==
    /\ ~Linked(x)
    /\ prev' = [prev EXCEPT ![x] = prev[q], ![q] = x]
    /\ next' = [next EXCEPT ![x] = q]
    /\ queue' = [queue EXCEPT ![q] = Append(@, x)]
    /\ UNCHANGED item

enqueue(q, x) ==
    /\ ~Linked(x)
    /\ prev' = [prev EXCEPT ![x] = prev[q], ![q] = x]
    /\ next' = [next EXCEPT ![x] = q, ![prev[q]] = x]
    /\ queue' = [queue EXCEPT ![q] = Append(@, x)]
    /\ UNCHANGED item

\* x->prev->next = x->next; x->next->prev = x->prev
unlink(x) ==
    /\ next' = [next EXCEPT ![prev[x]] = next[x]]
    /\ prev' = [prev EXCEPT ![next[x]] = prev[x]]

\* Faulty: takes the youngest node.
dequeue_last(q) ==
    IF is_empty(q)
    THEN item' = NULL /\ UNCHANGED <<next, prev, queue>>
    ELSE /\ item' = prev[q]
         /\ unlink(prev[q])
         /\ queue' = [queue EXCEPT ![q] = IF @ = <<>> THEN @ ELSE Tail(@)]

\* Faulty: does not look whether the list is empty.
dequeue_any(q) ==
    /\ item' = next[q]
    /\ unlink(next[q])
    /\ queue' = [queue EXCEPT ![q] = IF @ = <<>> THEN @ ELSE Tail(@)]

dequeue(q) ==
    IF is_empty(q)
    THEN item' = NULL /\ UNCHANGED <<next, prev, queue>>
    ELSE /\ item' = next[q]
         /\ unlink(next[q])
         /\ queue' = [queue EXCEPT ![q] = IF @ = <<>> THEN @ ELSE Tail(@)]

\* do_kill(): the node leaves whatever list it is in.
kill(x) ==
    \E q \in Queues : \E i \in 1..Len(queue[q]) :
        /\ queue[q][i] = x
        /\ unlink(x)
        /\ queue' = [queue EXCEPT ![q] = Without(@, i)]
        /\ UNCHANGED item

LinkNext ==
    \/ \E q \in Queues : dequeue(q) \/ \E x \in Tasks : enqueue(q, x)
    \/ \E x \in Tasks : kill(x)

LinkSpec == LinkInit /\ [][LinkNext]_linkVars

-----------------------------------------------------------------------------
\* The i-th node of the ring of q, whose first and last is the sentinel.
node(q, i) == IF i \in 1..Len(queue[q]) THEN queue[q][i] ELSE q

(* Each list is the ring of the tasks enqueued and not yet gone, whichever *)
(* way one goes round, after any number of enqueues, dequeues and kills in *)
(* the middle, although a node that leaves keeps its old links.            *)
RingsHold ==
    \A q \in Queues : \A i \in 0..Len(queue[q]) :
        /\ next[node(q, i)] = node(q, i + 1)
        /\ prev[node(q, i + 1)] = node(q, i)

(* dequeue() returns the task that has waited longest, and NULL only when  *)
(* none waits.                                                             *)
OldestLeaves ==
    [][\A q \in Queues :
          dequeue(q) => item' = IF queue[q] = <<>> THEN NULL ELSE Head(queue[q])]_linkVars
=============================================================================
