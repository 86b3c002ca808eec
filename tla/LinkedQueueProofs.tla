-------------------------- MODULE LinkedQueueProofs --------------------------
(***************************************************************************)
(* The lists of queue.c are the sequences they stand for, for any number   *)
(* of lists and tasks.                                                     *)
(***************************************************************************)
EXTENDS LinkedQueue, TaskQueueLemmas

(* A node is in one list at most, and once.                                *)
NodesOnce ==
    \A p, q \in Queues : \A i \in 1..Len(queue[p]), j \in 1..Len(queue[q]) :
        queue[p][i] = queue[q][j] => p = q /\ i = j

LinkInv == LinkTypeOK /\ NodesOnce /\ RingsHold

-----------------------------------------------------------------------------
(* Going round a ring one meets each node once: no two positions, of one   *)
(* ring or of two, are the same node.                                      *)
LEMMA PositionsDiffer ==
    ASSUME LinkTypeOK, NodesOnce,
           NEW p \in Queues, NEW q \in Queues,
           NEW i \in 0..Len(queue[p]), NEW j \in 0..Len(queue[q]),
           node(p, i) = node(q, j)
    PROVE  p = q /\ i = j
<1>1. Len(queue[p]) \in Nat /\ Len(queue[q]) \in Nat
  BY LenProperties DEF LinkTypeOK
<1>2. /\ \A k \in 1..Len(queue[p]) : queue[p][k] \in Tasks
      /\ \A k \in 1..Len(queue[q]) : queue[q][k] \in Tasks
  BY ElementOfSeq DEF LinkTypeOK
<1>3. CASE i = 0
  <2>1. node(p, i) = p
    BY <1>3 DEF node
  <2>2. j = 0
    BY <1>1, <1>2, <2>1, NodesAssumption DEF node
  <2>3. QED
    BY <1>3, <2>1, <2>2 DEF node
<1>4. CASE i # 0
  <2>1. i \in 1..Len(queue[p]) /\ node(p, i) = queue[p][i]
    BY <1>1, <1>4 DEF node
  <2>2. j \in 1..Len(queue[q]) /\ node(q, j) = queue[q][j]
    BY <1>1, <1>2, <2>1, NodesAssumption DEF node
  <2>3. QED
    BY <2>1, <2>2 DEF NodesOnce
<1>5. QED
  BY <1>3, <1>4

(* The nodes of a ring are nodes, and those between its ends are tasks.    *)
LEMMA NodeType ==
    ASSUME LinkTypeOK, NEW q \in Queues, NEW i \in Int
    PROVE  /\ node(q, i) \in Nodes
           /\ i \in 1..Len(queue[q]) => node(q, i) = queue[q][i] /\ node(q, i) \in Tasks
           /\ i \notin 1..Len(queue[q]) => node(q, i) = q
<1>1. \A k \in 1..Len(queue[q]) : queue[q][k] \in Tasks
  BY ElementOfSeq DEF LinkTypeOK
<1>2. QED
  BY <1>1 DEF node, Nodes

-----------------------------------------------------------------------------
(* enqueue() of a node in no list lengthens one ring by one.               *)
LEMMA EnqueueKeeps ==
    ASSUME LinkInv, NEW q \in Queues, NEW x \in Tasks, enqueue(q, x)
    PROVE  LinkInv'
<1> DEFINE n == Len(queue[q])
<1>0. /\ LinkTypeOK /\ NodesOnce /\ RingsHold
      /\ \A p \in Queues : queue[p] \in Seq(Tasks) /\ Len(queue[p]) \in Nat
  BY LenProperties DEF LinkInv, LinkTypeOK
<1>1. \A p \in Queues : \A i \in 1..Len(queue[p]) : queue[p][i] # x
  BY DEF enqueue, Linked, In
<1>2. /\ queue'[q] \in Seq(Tasks)
      /\ Len(queue'[q]) = n + 1
      /\ \A i \in 1..n : queue'[q][i] = queue[q][i]
      /\ queue'[q][n + 1] = x
      /\ \A p \in Queues \ {q} : queue'[p] = queue[p]
  <2>1. queue'[q] = Append(queue[q], x)
    BY <1>0 DEF enqueue, LinkTypeOK
  <2>2. QED
    BY <1>0, <2>1, AppendProperties DEF enqueue, LinkTypeOK
<1>3. \A p \in Queues : \A i \in 0..Len(queue[p]) :
         /\ node(p, i) \in Nodes
         /\ node(p, i) # x
  BY <1>0, <1>1, NodesAssumption DEF node, Nodes, LinkTypeOK
<1>4. prev[q] = node(q, n)
  <2>1. node(q, n + 1) = q /\ n \in 0..n
    BY <1>0 DEF node
  <2>2. QED
    BY <1>0, <2>1 DEF RingsHold
<1> HIDE DEF n
<1>5. /\ \A p \in Queues \ {q} : \A i \in Int : node(p, i)' = node(p, i)
      /\ \A i \in 0..n : node(q, i)' = node(q, i)
      /\ \A i \in Int : i = n + 1 => node(q, i)' = x
      /\ \A i \in Int : i = n + 2 => node(q, i)' = q
  <2>1. n = Len(queue[q]) /\ n \in Nat
    BY <1>0 DEF n
  <2>2. ASSUME NEW p \in Queues \ {q}, NEW i \in Int PROVE node(p, i)' = node(p, i)
    BY <1>2 DEF node
  <2>3. ASSUME NEW i \in 0..n PROVE node(q, i)' = node(q, i)
    BY <1>2, <2>1 DEF node
  <2>4. ASSUME NEW i \in Int, i = n + 1 PROVE node(q, i)' = x
    BY <1>2, <2>1, <2>4 DEF node
  <2>5. ASSUME NEW i \in Int, i = n + 2 PROVE node(q, i)' = q
    BY <1>2, <2>1, <2>5 DEF node
  <2>6. QED
    BY <2>2, <2>3, <2>4, <2>5
<1>6. LinkTypeOK'
  <2>1. node(q, n) \in Nodes /\ q \in Nodes /\ x \in Nodes
    BY <1>0, <1>3 DEF n, Nodes
  <2>2. \A p \in Queues : queue'[p] \in Seq(Tasks)
    BY <1>0, <1>2
  <2>3. queue' \in [Queues -> Seq(Tasks)]
    BY <1>0, <2>2 DEF enqueue, LinkTypeOK
  <2>4. next' \in [Nodes -> Nodes \cup {NULL}] /\ prev' \in [Nodes -> Nodes \cup {NULL}]
    BY <1>0, <1>4, <2>1 DEF enqueue, LinkTypeOK
  <2>5. QED
    BY <1>0, <2>3, <2>4 DEF enqueue, LinkTypeOK
<1>7. NodesOnce'
  <2>1. n = Len(queue[q]) /\ n \in Nat
    BY <1>0 DEF n
  <2>2. ASSUME NEW p \in Queues, NEW i \in 1..Len(queue'[p])
        PROVE  \/ i \in 1..Len(queue[p]) /\ queue'[p][i] = queue[p][i] /\ queue'[p][i] # x
               \/ p = q /\ i = n + 1 /\ queue'[p][i] = x
    <3>1. CASE p = q
      BY <1>1, <1>2, <2>1, <3>1
    <3>2. CASE p # q
      BY <1>1, <1>2, <3>2
    <3>3. QED
      BY <3>1, <3>2
  <2>3. ASSUME NEW p \in Queues, NEW r \in Queues,
               NEW i \in 1..Len(queue'[p]), NEW j \in 1..Len(queue'[r]),
               queue'[p][i] = queue'[r][j]
        PROVE  p = r /\ i = j
    <3>1. CASE queue'[p][i] = x
      BY <2>2, <2>3, <3>1
    <3>2. CASE queue'[p][i] # x
      <4>1. /\ i \in 1..Len(queue[p]) /\ j \in 1..Len(queue[r])
            /\ queue[p][i] = queue[r][j]
        BY <2>2, <2>3, <3>2
      <4>2. QED
        BY <1>0, <4>1 DEF NodesOnce
    <3>3. QED
      BY <3>1, <3>2
  <2>4. QED
    BY <2>3 DEF NodesOnce
<1>8. /\ next'[x] = q /\ next'[node(q, n)] = x
      /\ prev'[x] = node(q, n) /\ prev'[q] = x
      /\ \A y \in Nodes \ {x, node(q, n)} : next'[y] = next[y]
      /\ \A y \in Nodes \ {x, q} : prev'[y] = prev[y]
  <2>1. x \in Nodes /\ q \in Nodes /\ node(q, n) \in Nodes /\ node(q, n) # x /\ q # x
    BY <1>0, <1>3, NodesAssumption DEF n, Nodes
  <2>2. QED
    BY <1>0, <1>4, <2>1 DEF enqueue, LinkTypeOK
<1>9. ASSUME NEW p \in Queues \ {q}, NEW i \in 0..Len(queue[p])
      PROVE  /\ next'[node(p, i)'] = node(p, i + 1)'
             /\ prev'[node(p, i + 1)'] = node(p, i)'
  <2>1. node(p, i)' = node(p, i) /\ node(p, i + 1)' = node(p, i + 1)
    BY <1>0, <1>5
  <2>2. next[node(p, i)] = node(p, i + 1) /\ prev[node(p, i + 1)] = node(p, i)
    BY <1>0 DEF RingsHold
  <2>3. node(p, i) \in Nodes \ {x, node(q, n)}
    BY <1>0, <1>3, PositionsDiffer DEF n
  <2>4. node(p, i + 1) \in Nodes \ {x, q}
    <3>1. CASE i = Len(queue[p])
      BY <1>0, <3>1, NodesAssumption DEF node, Nodes
    <3>2. CASE i # Len(queue[p])
      <4>1. i + 1 \in 0..Len(queue[p]) /\ i + 1 # 0
        BY <1>0, <3>2
      <4>2. node(q, 0) = q
        BY DEF node
      <4>3. node(p, i + 1) # q
        BY <1>0, <4>1, <4>2, PositionsDiffer
      <4>4. QED
        BY <1>3, <4>1, <4>3
    <3>3. QED
      BY <3>1, <3>2
  <2>5. QED
    BY <1>8, <2>1, <2>2, <2>3, <2>4
<1>10. ASSUME NEW i \in 0..(n + 1)
       PROVE  /\ next'[node(q, i)'] = node(q, i + 1)'
              /\ prev'[node(q, i + 1)'] = node(q, i)'
  <2>0. n \in Nat /\ n = Len(queue[q])
    BY <1>0 DEF n
  <2>1. CASE i < n
    <3>1. i \in 0..n /\ i + 1 \in 0..n /\ i + 1 # 0 /\ i # n
      BY <2>0, <2>1
    <3>2. node(q, i)' = node(q, i) /\ node(q, i + 1)' = node(q, i + 1)
      BY <1>5, <3>1
    <3>3. next[node(q, i)] = node(q, i + 1) /\ prev[node(q, i + 1)] = node(q, i)
      BY <1>0, <2>0, <3>1 DEF RingsHold
    <3>4. node(q, 0) = q /\ 0 \in 0..n
      BY <2>0 DEF node
    <3>5. node(q, i) # node(q, n) /\ node(q, i + 1) # q
      BY <1>0, <2>0, <3>1, <3>4, PositionsDiffer
    <3>6. QED
      BY <1>3, <1>8, <2>0, <3>1, <3>2, <3>3, <3>5
  <2>2. CASE i = n
    <3>1. node(q, i)' = node(q, n) /\ node(q, i + 1)' = x
      BY <1>5, <2>0, <2>2
    <3>2. QED
      BY <1>8, <3>1
  <2>3. CASE i = n + 1
    <3>1. node(q, i)' = x /\ node(q, i + 1)' = q
      BY <1>5, <2>0, <2>3
    <3>2. QED
      BY <1>8, <3>1
  <2>4. QED
    BY <2>0, <2>1, <2>2, <2>3
<1>11. RingsHold'
  <2>1. Len(queue'[q]) = n + 1
    BY <1>2 DEF n
  <2>2. ASSUME NEW p \in Queues, NEW i \in 0..Len(queue'[p])
        PROVE  /\ next'[node(p, i)'] = node(p, i + 1)'
               /\ prev'[node(p, i + 1)'] = node(p, i)'
    <3>1. CASE p = q
      BY <1>10, <2>1, <3>1
    <3>2. CASE p # q
      BY <1>2, <1>9, <3>2
    <3>3. QED
      BY <3>1, <3>2
  <2>3. QED
    BY <2>2 DEF RingsHold
<1>12. QED
  BY <1>6, <1>7, <1>11 DEF LinkInv

(* Unlinking the k-th node of a ring closes the ring behind it.            *)
LEMMA UnlinkKeeps ==
    ASSUME LinkInv, NEW q \in Queues, NEW k \in 1..Len(queue[q]),
           unlink(queue[q][k]),
           queue' \in [Queues -> Seq(Tasks)],
           \A p \in Queues \ {q} : queue'[p] = queue[p],
           queue'[q] = Without(queue[q], k)
    PROVE  NodesOnce' /\ RingsHold'
           /\ next' \in [Nodes -> Nodes \cup {NULL}]
           /\ prev' \in [Nodes -> Nodes \cup {NULL}]
<1> DEFINE n == Len(queue[q])
           x == node(q, k)
<1>0. /\ LinkTypeOK /\ NodesOnce /\ RingsHold
      /\ \A p \in Queues : queue[p] \in Seq(Tasks) /\ Len(queue[p]) \in Nat
      /\ k \in 1..n /\ n \in Nat /\ k \in Nat
  BY LenProperties DEF LinkInv, LinkTypeOK
<1>1. /\ Len(queue'[q]) = n - 1
      /\ \A i \in 1..(n - 1) :
            queue'[q][i] = IF i < k THEN queue[q][i] ELSE queue[q][i + 1]
  BY <1>0, WithoutLemma
<1>2. /\ prev[x] = node(q, k - 1) /\ next[x] = node(q, k + 1)
      /\ x = queue[q][k]
  <2>1. k - 1 \in 0..n /\ k \in 0..n /\ (k - 1) + 1 = k
    BY <1>0
  <2>2. /\ \A i \in 0..n : /\ next[node(q, i)] = node(q, i + 1)
                           /\ prev[node(q, i + 1)] = node(q, i)
    BY <1>0 DEF RingsHold
  <2>3. x = queue[q][k]
    BY DEF node
  <2>4. QED
    BY <2>1, <2>2, <2>3
<1> HIDE DEF n, x
<1>3. /\ \A p \in Queues \ {q} : \A i \in Int : node(p, i)' = node(p, i)
      /\ \A i \in 0..(k - 1) : node(q, i)' = node(q, i)
      /\ \A i \in k..n : node(q, i)' = node(q, i + 1)
  <2>1. ASSUME NEW i \in 0..(k - 1) PROVE node(q, i)' = node(q, i)
    BY <1>0, <1>1 DEF node, n
  <2>2. ASSUME NEW i \in k..n PROVE node(q, i)' = node(q, i + 1)
    <3>1. CASE i = n
      BY <1>0, <1>1, <3>1 DEF node, n
    <3>2. CASE i # n
      <4>1. i \in 1..(n - 1) /\ i + 1 \in 1..n /\ ~(i < k)
        BY <1>0, <3>2
      <4>2. QED
        BY <1>0, <1>1, <4>1 DEF node, n
    <3>3. QED
      BY <3>1, <3>2
  <2>3. ASSUME NEW p \in Queues \ {q}, NEW i \in Int PROVE node(p, i)' = node(p, i)
    BY DEF node
  <2>4. QED
    BY <2>1, <2>2, <2>3
<1>4. /\ next' = [next EXCEPT ![node(q, k - 1)] = node(q, k + 1)]
      /\ prev' = [prev EXCEPT ![node(q, k + 1)] = node(q, k - 1)]
  BY <1>2 DEF unlink
<1>5. /\ k - 1 \in 0..n /\ k - 1 \in Int /\ k + 1 \in Int
      /\ node(q, k - 1) \in Nodes /\ node(q, k + 1) \in Nodes
  BY <1>0, NodeType
<1>6. /\ next'[node(q, k - 1)] = node(q, k + 1)
      /\ prev'[node(q, k + 1)] = node(q, k - 1)
      /\ \A y \in Nodes \ {node(q, k - 1)} : next'[y] = next[y]
      /\ \A y \in Nodes \ {node(q, k + 1)} : prev'[y] = prev[y]
  BY <1>0, <1>4, <1>5 DEF LinkTypeOK
<1>7. NodesOnce'
  <2>1. ASSUME NEW p \in Queues, NEW i \in 1..Len(queue'[p])
        PROVE  \E a \in 1..Len(queue[p]) :
                  /\ queue'[p][i] = queue[p][a]
                  /\ a = IF p = q /\ ~(i < k) THEN i + 1 ELSE i
    <3>1. CASE p = q
      BY <1>0, <1>1, <3>1 DEF n
    <3>2. CASE p # q
      BY <3>2
    <3>3. QED
      BY <3>1, <3>2
  <2>2. ASSUME NEW p \in Queues, NEW r \in Queues,
               NEW i \in 1..Len(queue'[p]), NEW j \in 1..Len(queue'[r]),
               queue'[p][i] = queue'[r][j]
        PROVE  p = r /\ i = j
    <3>1. PICK a \in 1..Len(queue[p]) :
             /\ queue'[p][i] = queue[p][a]
             /\ a = IF p = q /\ ~(i < k) THEN i + 1 ELSE i
      BY <2>1
    <3>2. PICK b \in 1..Len(queue[r]) :
             /\ queue'[r][j] = queue[r][b]
             /\ b = IF r = q /\ ~(j < k) THEN j + 1 ELSE j
      BY <2>1
    <3>3. p = r /\ a = b
      <4>1. queue[p][a] = queue[r][b]
        BY <2>2, <3>1, <3>2
      <4>2. QED
        BY <1>0, <4>1 DEF NodesOnce
    <3>4. i \in Int /\ j \in Int
      OBVIOUS
    <3>5. QED
      BY <1>0, <3>1, <3>2, <3>3, <3>4
  <2>3. QED
    BY <2>2 DEF NodesOnce
<1>8. ASSUME NEW p \in Queues \ {q}, NEW i \in 0..Len(queue[p])
      PROVE  /\ next'[node(p, i)'] = node(p, i + 1)'
             /\ prev'[node(p, i + 1)'] = node(p, i)'
  <2>1. node(p, i)' = node(p, i) /\ node(p, i + 1)' = node(p, i + 1)
    BY <1>3
  <2>2. next[node(p, i)] = node(p, i + 1) /\ prev[node(p, i + 1)] = node(p, i)
    BY <1>0 DEF RingsHold
  <2>3. node(p, i) # node(q, k - 1)
    BY <1>0, <1>5, PositionsDiffer DEF n
  <2>4. node(p, i + 1) # node(q, k + 1)
    <3>1. PICK j \in 0..Len(queue[p]) : node(p, i + 1) = node(p, j)
      <4>1. CASE i = Len(queue[p])
        <5>1. node(p, i + 1) = node(p, 0) /\ 0 \in 0..Len(queue[p])
          BY <1>0, <4>1 DEF node
        <5>2. QED
          BY <5>1
      <4>2. CASE i # Len(queue[p])
        <5>1. i + 1 \in 0..Len(queue[p])
          BY <1>0, <4>2
        <5>2. QED
          BY <5>1
      <4>3. QED
        BY <4>1, <4>2
    <3>2. PICK m \in 0..Len(queue[q]) : node(q, k + 1) = node(q, m)
      <4>1. CASE k = n
        <5>1. node(q, k + 1) = node(q, 0) /\ 0 \in 0..Len(queue[q])
          BY <1>0, <4>1 DEF node, n
        <5>2. QED
          BY <5>1
      <4>2. CASE k # n
        <5>1. k + 1 \in 0..Len(queue[q])
          BY <1>0, <4>2 DEF n
        <5>2. QED
          BY <5>1
      <4>3. QED
        BY <4>1, <4>2
    <3>3. QED
      BY <1>0, <3>1, <3>2, PositionsDiffer
  <2>5. node(p, i) \in Nodes /\ node(p, i + 1) \in Nodes
    BY <1>0, NodeType
  <2>6. QED
    BY <1>6, <2>1, <2>2, <2>3, <2>4, <2>5
<1>9. ASSUME NEW i \in 0..(n - 1)
      PROVE  /\ next'[node(q, i)'] = node(q, i + 1)'
             /\ prev'[node(q, i + 1)'] = node(q, i)'
  <2>0. n = Len(queue[q]) /\ \A j \in 0..n :
           next[node(q, j)] = node(q, j + 1) /\ prev[node(q, j + 1)] = node(q, j)
    BY <1>0 DEF RingsHold, n
  <2>1. CASE i < k - 1
    <3>1. i \in 0..(k - 1) /\ i + 1 \in 0..(k - 1) /\ i \in 0..n /\ i + 1 \in 0..n
          /\ i + 1 # 0
      BY <1>0, <2>1
    <3>2. node(q, i)' = node(q, i) /\ node(q, i + 1)' = node(q, i + 1)
      BY <1>3, <3>1
    <3>3. node(q, i) # node(q, k - 1)
      BY <1>0, <1>5, <2>0, <2>1, <3>1, PositionsDiffer
    <3>4. node(q, i + 1) # node(q, k + 1)
      <4>1. CASE k = n
        <5>1. node(q, k + 1) = node(q, 0) /\ 0 \in 0..n
          BY <1>0, <2>0, <4>1 DEF node
        <5>2. QED
          BY <1>0, <2>0, <3>1, <5>1, PositionsDiffer
      <4>2. CASE k # n
        <5>1. k + 1 \in 0..n /\ i + 1 # k + 1
          BY <1>0, <2>1, <4>2
        <5>2. QED
          BY <1>0, <2>0, <3>1, <5>1, PositionsDiffer
      <4>3. QED
        BY <4>1, <4>2
    <3>5. node(q, i) \in Nodes /\ node(q, i + 1) \in Nodes
      BY <1>0, <3>1, NodeType
    <3>6. QED
      BY <1>6, <2>0, <3>1, <3>2, <3>3, <3>4, <3>5
  <2>2. CASE i = k - 1
    <3>1. node(q, i)' = node(q, k - 1) /\ node(q, i + 1)' = node(q, k + 1)
      <4>1. i \in 0..(k - 1) /\ i + 1 = k /\ k \in k..n
        BY <1>0, <2>2
      <4>2. QED
        BY <1>3, <2>2, <4>1
    <3>2. QED
      BY <1>6, <3>1
  <2>3. CASE i > k - 1
    <3>1. i \in k..n /\ i + 1 \in k..n /\ i + 1 \in 0..n /\ i + 1 # k - 1
      BY <1>0, <2>3
    <3>2. node(q, i)' = node(q, i + 1) /\ node(q, i + 1)' = node(q, (i + 1) + 1)
      BY <1>3, <3>1
    <3>3. node(q, i + 1) # node(q, k - 1)
      BY <1>0, <1>5, <2>0, <3>1, PositionsDiffer
    <3>4. node(q, (i + 1) + 1) # node(q, k + 1)
      <4>1. k + 1 \in 0..n /\ k + 1 # 0
        BY <1>0, <2>3
      <4>2. CASE i + 1 = n
        <5>1. node(q, (i + 1) + 1) = node(q, 0) /\ 0 \in 0..n
          BY <1>0, <2>0, <4>2 DEF node
        <5>2. QED
          BY <1>0, <2>0, <4>1, <5>1, PositionsDiffer
      <4>3. CASE i + 1 # n
        <5>1. (i + 1) + 1 \in 0..n /\ (i + 1) + 1 # k + 1
          BY <1>0, <2>3, <4>3
        <5>2. QED
          BY <1>0, <2>0, <4>1, <5>1, PositionsDiffer
      <4>4. QED
        BY <4>2, <4>3
    <3>5. node(q, i + 1) \in Nodes /\ node(q, (i + 1) + 1) \in Nodes
      BY <1>0, <3>1, NodeType
    <3>6. QED
      BY <1>6, <2>0, <3>1, <3>2, <3>3, <3>4, <3>5
  <2>4. QED
    BY <1>0, <2>1, <2>2, <2>3
<1>10. RingsHold'
  <2>1. ASSUME NEW p \in Queues, NEW i \in 0..Len(queue'[p])
        PROVE  /\ next'[node(p, i)'] = node(p, i + 1)'
               /\ prev'[node(p, i + 1)'] = node(p, i)'
    <3>1. CASE p = q
      BY <1>1, <1>9, <3>1
    <3>2. CASE p # q
      BY <1>8, <3>2
    <3>3. QED
      BY <3>1, <3>2
  <2>2. QED
    BY <2>1 DEF RingsHold
<1>11. QED
  BY <1>0, <1>4, <1>5, <1>7, <1>10 DEF LinkTypeOK

(* What a list holds is what its head's next pointer leads to.             *)
LEMMA FirstNode ==
    ASSUME LinkInv, NEW q \in Queues
    PROVE  /\ is_empty(q) <=> queue[q] = <<>>
           /\ queue[q] # <<>> => /\ 1 \in 1..Len(queue[q])
                                 /\ next[q] = queue[q][1]
                                 /\ queue[q][1] = Head(queue[q])
                                 /\ queue[q][1] \in Tasks
<1>1. /\ queue[q] \in Seq(Tasks) /\ Len(queue[q]) \in Nat
      /\ queue[q] = <<>> <=> Len(queue[q]) = 0
  BY LenProperties, EmptySeq DEF LinkInv, LinkTypeOK
<1>2. next[node(q, 0)] = node(q, 1)
  <2>1. 0 \in 0..Len(queue[q]) /\ 0 + 1 = 1
    BY <1>1
  <2>2. QED
    BY <2>1 DEF LinkInv, RingsHold
<1>3. node(q, 0) = q
  BY DEF node
<1>4. CASE queue[q] = <<>>
  <2>1. node(q, 1) = q
    BY <1>1, <1>4 DEF node
  <2>2. QED
    BY <1>2, <1>3, <1>4, <2>1 DEF is_empty
<1>5. CASE queue[q] # <<>>
  <2>1. 1 \in 1..Len(queue[q])
    BY <1>1, <1>5
  <2>2. node(q, 1) = queue[q][1] /\ queue[q][1] \in Tasks
    BY <1>1, <2>1, ElementOfSeq DEF node
  <2>3. queue[q][1] = Head(queue[q])
    BY <1>1, <1>5
  <2>4. q # queue[q][1]
    BY <2>2, NodesAssumption
  <2>5. QED
    BY <1>2, <1>3, <1>5, <2>1, <2>2, <2>3, <2>4 DEF is_empty
<1>6. QED
  BY <1>4, <1>5

(* The tail of a sequence is what is left without its first element.       *)
LEMMA TailIsWithout ==
    ASSUME NEW S, NEW s \in Seq(S), s # <<>>
    PROVE  Tail(s) = Without(s, 1)
<1>1. Len(s) \in Nat
  BY LenProperties
<1>2. Tail(s) = SubSeq(s, 2, Len(s)) /\ Tail(s) \in Seq(S)
  BY TailIsSubSeq, HeadTailProperties
<1>3. SubSeq(s, 1, 0) = <<>>
  BY <1>1, SubSeqEmpty
<1>4. <<>> \o Tail(s) = Tail(s)
  BY <1>2, ConcatEmptySeq
<1>5. 1 - 1 = 0 /\ 1 + 1 = 2
  OBVIOUS
<1>6. QED
  BY <1>2, <1>3, <1>4, <1>5 DEF Without

(* queue_init() makes empty rings.                                         *)
LEMMA InitHolds == LinkInit => LinkInv
<1> SUFFICES ASSUME LinkInit PROVE LinkInv
  OBVIOUS
<1>1. \A q \in Queues : queue[q] = <<>> /\ Len(queue[q]) = 0
  BY DEF LinkInit
<1>2. LinkTypeOK
  BY DEF LinkInit, LinkTypeOK, Nodes
<1>3. NodesOnce
  BY <1>1 DEF NodesOnce
<1>4. RingsHold
  <2>1. ASSUME NEW q \in Queues, NEW i \in 0..Len(queue[q])
        PROVE  next[node(q, i)] = node(q, i + 1) /\ prev[node(q, i + 1)] = node(q, i)
    <3>1. node(q, i) = q /\ node(q, i + 1) = q
      BY <1>1 DEF node
    <3>2. next[q] = q /\ prev[q] = q
      BY DEF LinkInit, Nodes
    <3>3. QED
      BY <3>1, <3>2
  <2>2. QED
    BY <2>1 DEF RingsHold
<1>5. QED
  BY <1>2, <1>3, <1>4 DEF LinkInv

(* dequeue() keeps the rings, and takes the head of the sequence.          *)
LEMMA DequeueKeeps ==
    ASSUME LinkInv, NEW q \in Queues, dequeue(q)
    PROVE  /\ LinkInv'
           /\ item' = IF queue[q] = <<>> THEN NULL ELSE Head(queue[q])
<1>0. LinkTypeOK /\ queue[q] \in Seq(Tasks)
  BY DEF LinkInv, LinkTypeOK
<1>1. CASE is_empty(q)
  <2>1. item' = NULL /\ UNCHANGED <<next, prev, queue>>
    BY <1>1 DEF dequeue
  <2>2. LinkTypeOK'
    BY <1>0, <2>1 DEF LinkTypeOK
  <2>3. NodesOnce' /\ RingsHold'
    BY <2>1 DEF LinkInv, NodesOnce, RingsHold, node
  <2>4. QED
    BY <1>1, <2>1, <2>2, <2>3, FirstNode DEF LinkInv
<1>2. CASE ~is_empty(q)
  <2>1. /\ queue[q] # <<>> /\ 1 \in 1..Len(queue[q])
        /\ next[q] = queue[q][1] /\ queue[q][1] = Head(queue[q]) /\ queue[q][1] \in Tasks
    BY <1>2, FirstNode
  <2>2. /\ item' = queue[q][1] /\ unlink(queue[q][1])
        /\ queue' = [queue EXCEPT ![q] = Tail(queue[q])]
    BY <1>2, <2>1 DEF dequeue
  <2>3. Tail(queue[q]) = Without(queue[q], 1) /\ Without(queue[q], 1) \in Seq(Tasks)
    BY <1>0, <2>1, TailIsWithout, WithoutLemma
  <2>4. /\ queue' \in [Queues -> Seq(Tasks)]
        /\ \A p \in Queues \ {q} : queue'[p] = queue[p]
        /\ queue'[q] = Without(queue[q], 1)
    BY <1>0, <2>2, <2>3 DEF LinkTypeOK
  <2>5. /\ NodesOnce' /\ RingsHold'
        /\ next' \in [Nodes -> Nodes \cup {NULL}]
        /\ prev' \in [Nodes -> Nodes \cup {NULL}]
    BY <2>1, <2>2, <2>4, UnlinkKeeps
  <2>6. QED
    BY <2>1, <2>2, <2>4, <2>5 DEF LinkInv, LinkTypeOK
<1>3. QED
  BY <1>1, <1>2

(* do_kill() keeps the rings, wherever in one the killed task stands.      *)
LEMMA KillKeeps ==
    ASSUME LinkInv, NEW x \in Tasks, kill(x)
    PROVE  LinkInv'
<1>0. LinkTypeOK
  BY DEF LinkInv
<1>1. PICK q \in Queues : \E i \in 1..Len(queue[q]) :
         /\ queue[q][i] = x
         /\ unlink(x)
         /\ queue' = [queue EXCEPT ![q] = Without(@, i)]
         /\ UNCHANGED item
  BY DEF kill
<1>2. PICK i \in 1..Len(queue[q]) :
         /\ queue[q][i] = x
         /\ unlink(x)
         /\ queue' = [queue EXCEPT ![q] = Without(@, i)]
         /\ UNCHANGED item
  BY <1>1
<1>3. Without(queue[q], i) \in Seq(Tasks)
  BY <1>0, WithoutLemma DEF LinkTypeOK
<1>4. /\ queue' \in [Queues -> Seq(Tasks)]
      /\ \A p \in Queues \ {q} : queue'[p] = queue[p]
      /\ queue'[q] = Without(queue[q], i)
  BY <1>0, <1>2, <1>3 DEF LinkTypeOK
<1>5. /\ NodesOnce' /\ RingsHold'
      /\ next' \in [Nodes -> Nodes \cup {NULL}]
      /\ prev' \in [Nodes -> Nodes \cup {NULL}]
  BY <1>2, <1>4, UnlinkKeeps
<1>6. QED
  BY <1>0, <1>2, <1>4, <1>5 DEF LinkInv, LinkTypeOK

(* Every call on the lists keeps them.                                     *)
LEMMA StepKeeps == LinkInv /\ [LinkNext]_linkVars => LinkInv'
<1> SUFFICES ASSUME LinkInv, [LinkNext]_linkVars PROVE LinkInv'
  OBVIOUS
<1>1. ASSUME NEW q \in Queues, dequeue(q) PROVE LinkInv'
  BY <1>1, DequeueKeeps
<1>2. ASSUME NEW q \in Queues, NEW x \in Tasks, enqueue(q, x) PROVE LinkInv'
  BY <1>2, EnqueueKeeps
<1>3. ASSUME NEW x \in Tasks, kill(x) PROVE LinkInv'
  BY <1>3, KillKeeps
<1>4. CASE UNCHANGED linkVars
  BY <1>4 DEF linkVars, LinkInv, LinkTypeOK, NodesOnce, RingsHold, node
<1>5. QED
  BY <1>1, <1>2, <1>3, <1>4 DEF LinkNext

-----------------------------------------------------------------------------
(* Always the variables of the lists have their types.                     *)
THEOREM LinkTypes == LinkSpec => []LinkTypeOK
<1>1. LinkInv => LinkTypeOK
  BY DEF LinkInv
<1>2. QED
  BY InitHolds, StepKeeps, <1>1, PTL DEF LinkSpec

(* Always every list is the ring of the tasks enqueued in it, whichever    *)
(* way one goes round.                                                     *)
THEOREM Rings == LinkSpec => []RingsHold
<1>1. LinkInv => RingsHold
  BY DEF LinkInv
<1>2. QED
  BY InitHolds, StepKeeps, <1>1, PTL DEF LinkSpec

(* dequeue() never returns another task than the oldest one of its list.   *)
THEOREM Oldest == LinkSpec => OldestLeaves
<1>1. LinkInv =>
        \A q \in Queues :
           dequeue(q) => item' = IF queue[q] = <<>> THEN NULL ELSE Head(queue[q])
  BY DequeueKeeps
<1>2. QED
  BY InitHolds, StepKeeps, <1>1, PTL DEF LinkSpec, OldestLeaves
=============================================================================
