------------------------------ MODULE TaskQueue ------------------------------
(***************************************************************************)
(* The queues of queue.c as sequences: enqueue() is Append, dequeue() is   *)
(* Head and Tail, is_empty() is the comparison with <<>>.  This is what the *)
(* circular list does as long as no node is in two lists, or twice in one, *)
(* which is the invariant the modules that use it state.                   *)
(***************************************************************************)
EXTENDS Naturals, Sequences

In(t, queue) == \E i \in 1..Len(queue) : queue[i] = t

NoDup(queue) == \A i, j \in 1..Len(queue) : queue[i] = queue[j] => i = j

\* queue without its i-th element: x->prev->next = x->next and back.
Without(queue, i) == SubSeq(queue, 1, i - 1) \o SubSeq(queue, i + 1, Len(queue))
=============================================================================
