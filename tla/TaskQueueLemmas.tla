--------------------------- MODULE TaskQueueLemmas ---------------------------
(***************************************************************************)
(* What enqueue(), dequeue() and a transfer of a queue's first nodes do to *)
(* the members of queues without duplicates.                               *)
(***************************************************************************)
EXTENDS TaskQueue, Integers, SequenceTheorems, FiniteSetTheorems, TLAPS

(* enqueue() adds one member, and a duplicate only if it was there.        *)
LEMMA EnqueueLemma ==
    ASSUME NEW S, NEW s \in Seq(S), NEW t \in S
    PROVE  /\ Append(s, t) \in Seq(S)
           /\ \A u : In(u, Append(s, t)) <=> In(u, s) \/ u = t
           /\ NoDup(s) /\ ~In(t, s) => NoDup(Append(s, t))
<1>1. /\ Append(s, t) \in Seq(S)
      /\ Len(Append(s, t)) = Len(s) + 1
      /\ \A i \in 1..Len(s) : Append(s, t)[i] = s[i]
      /\ Append(s, t)[Len(s) + 1] = t
      /\ Len(s) \in Nat
  BY AppendProperties, LenProperties
<1>2. ASSUME NEW u
      PROVE  In(u, Append(s, t)) <=> In(u, s) \/ u = t
  <2>1. ASSUME In(u, Append(s, t)) PROVE In(u, s) \/ u = t
    BY <1>1, <2>1 DEF In
  <2>2. ASSUME In(u, s) PROVE In(u, Append(s, t))
    <3>1. PICK i \in 1..Len(s) : s[i] = u
      BY <2>2 DEF In
    <3>2. i \in 1..Len(Append(s, t)) /\ Append(s, t)[i] = u
      BY <1>1, <3>1
    <3>3. QED
      BY <3>2 DEF In
  <2>3. In(t, Append(s, t))
    <3>1. Len(s) + 1 \in 1..Len(Append(s, t))
      BY <1>1
    <3>2. QED
      BY <1>1, <3>1 DEF In
  <2>4. QED
    BY <2>1, <2>2, <2>3
<1>3. ASSUME NoDup(s), ~In(t, s)
      PROVE  NoDup(Append(s, t))
  BY <1>1, <1>3 DEF In, NoDup
<1>4. QED
  BY <1>1, <1>2, <1>3

(* dequeue() removes one member for good.                                  *)
LEMMA DequeueLemma ==
    ASSUME NEW S, NEW s \in Seq(S), s # <<>>
    PROVE  /\ Head(s) \in S
           /\ Tail(s) \in Seq(S)
           /\ In(Head(s), s)
           /\ \A u : In(u, s) <=> In(u, Tail(s)) \/ u = Head(s)
           /\ NoDup(s) => NoDup(Tail(s)) /\ ~In(Head(s), Tail(s))
<1>1. /\ Head(s) \in S
      /\ Tail(s) \in Seq(S)
      /\ Len(Tail(s)) = Len(s) - 1
      /\ \A i \in 1..Len(Tail(s)) : Tail(s)[i] = s[i + 1]
      /\ Len(s) \in Nat \ {0}
      /\ Head(s) = s[1]
  BY HeadTailProperties, EmptySeq
<1>2. In(Head(s), s)
  <2>1. 1 \in 1..Len(s)
    BY <1>1
  <2>2. QED
    BY <1>1, <2>1 DEF In
<1>3. ASSUME NEW u
      PROVE  In(u, s) <=> In(u, Tail(s)) \/ u = Head(s)
  <2>1. ASSUME In(u, s), u # Head(s) PROVE In(u, Tail(s))
    <3>1. PICK i \in 1..Len(s) : s[i] = u
      BY <2>1 DEF In
    <3>2. i - 1 \in 1..Len(Tail(s)) /\ Tail(s)[i - 1] = u
      BY <1>1, <2>1, <3>1
    <3>3. QED
      BY <3>2 DEF In
  <2>2. ASSUME In(u, Tail(s)) PROVE In(u, s)
    <3>1. PICK i \in 1..Len(Tail(s)) : Tail(s)[i] = u
      BY <2>2 DEF In
    <3>2. i + 1 \in 1..Len(s) /\ s[i + 1] = u
      BY <1>1, <3>1
    <3>3. QED
      BY <3>2 DEF In
  <2>3. QED
    BY <1>2, <2>1, <2>2
<1>4. ASSUME NoDup(s)
      PROVE  NoDup(Tail(s)) /\ ~In(Head(s), Tail(s))
  <2>1. ASSUME NEW i \in 1..Len(Tail(s)), NEW j \in 1..Len(Tail(s)),
               Tail(s)[i] = Tail(s)[j]
        PROVE  i = j
    <3>1. i + 1 \in 1..Len(s) /\ j + 1 \in 1..Len(s) /\ s[i + 1] = s[j + 1]
      BY <1>1, <2>1
    <3>2. i + 1 = j + 1
      BY <1>4, <3>1 DEF NoDup
    <3>3. QED
      BY <3>2
  <2>2. ASSUME NEW i \in 1..Len(Tail(s)), Tail(s)[i] = Head(s)
        PROVE  FALSE
    <3>1. i + 1 \in 1..Len(s) /\ 1 \in 1..Len(s) /\ s[i + 1] = s[1]
      BY <1>1, <2>2
    <3>2. i + 1 = 1
      BY <1>4, <3>1 DEF NoDup
    <3>3. QED
      BY <3>2
  <2>3. QED
    BY <2>1, <2>2 DEF NoDup, In
<1>5. QED
  BY <1>1, <1>2, <1>3, <1>4

(* The members of the first n nodes and of the others.                     *)
LEMMA SplitLemma ==
    ASSUME NEW S, NEW s \in Seq(S), NEW n \in 0..Len(s)
    PROVE  /\ SubSeq(s, 1, n) \in Seq(S)
           /\ SubSeq(s, n + 1, Len(s)) \in Seq(S)
           /\ \A u : In(u, SubSeq(s, 1, n)) <=> \E i \in 1..n : s[i] = u
           /\ \A u : In(u, SubSeq(s, n + 1, Len(s)))
                        <=> \E i \in (n + 1)..Len(s) : s[i] = u
           /\ NoDup(s) => NoDup(SubSeq(s, 1, n))
                          /\ NoDup(SubSeq(s, n + 1, Len(s)))
<1> DEFINE a == SubSeq(s, 1, n)
           b == SubSeq(s, n + 1, Len(s))
<1>0. Len(s) \in Nat /\ n \in Nat /\ n <= Len(s) /\ \A i \in 1..Len(s) : s[i] \in S
  BY LenProperties, ElementOfSeq
<1>1. a \in Seq(S) /\ Len(a) = n /\ \A i \in 1..n : a[i] = s[i]
  <2>1. \A i \in 1..n : s[i] \in S
    BY <1>0
  <2>2. /\ a \in Seq(S)
        /\ Len(a) = (IF 1 <= n THEN n - 1 + 1 ELSE 0)
        /\ \A i \in 1..(n - 1 + 1) : a[i] = s[1 + i - 1]
    BY <1>0, <2>1, SubSeqProperties
  <2>3. QED
    BY <1>0, <2>2
<1>2. b \in Seq(S) /\ Len(b) = Len(s) - n /\ \A i \in 1..Len(b) : b[i] = s[n + i]
  <2>1. \A i \in (n + 1)..Len(s) : s[i] \in S
    BY <1>0
  <2>2. /\ b \in Seq(S)
        /\ Len(b) = (IF n + 1 <= Len(s) THEN Len(s) - (n + 1) + 1 ELSE 0)
        /\ \A i \in 1..(Len(s) - (n + 1) + 1) : b[i] = s[(n + 1) + i - 1]
    BY <1>0, <2>1, SubSeqProperties
  <2>3. ASSUME NEW i \in 1..Len(b)
        PROVE  b[i] = s[n + i]
    <3>1. i \in 1..(Len(s) - (n + 1) + 1) /\ (n + 1) + i - 1 = n + i
      BY <1>0, <2>2
    <3>2. QED
      BY <2>2, <3>1
  <2>4. Len(b) = Len(s) - n
    BY <1>0, <2>2
  <2>5. QED
    BY <2>2, <2>3, <2>4
<1> HIDE DEF a, b
<1>3. \A u : In(u, a) <=> \E i \in 1..n : s[i] = u
  BY <1>1 DEF In
<1>4. ASSUME NEW u
      PROVE  In(u, b) <=> \E i \in (n + 1)..Len(s) : s[i] = u
  <2>1. ASSUME In(u, b) PROVE \E i \in (n + 1)..Len(s) : s[i] = u
    <3>1. PICK j \in 1..Len(b) : b[j] = u
      BY <2>1 DEF In
    <3>2. n + j \in (n + 1)..Len(s) /\ s[n + j] = u
      BY <1>0, <1>2, <3>1
    <3>3. QED
      BY <3>2
  <2>2. ASSUME NEW i \in (n + 1)..Len(s), s[i] = u PROVE In(u, b)
    <3>1. i - n \in 1..Len(b) /\ b[i - n] = u
      BY <1>0, <1>2, <2>2
    <3>2. QED
      BY <3>1 DEF In
  <2>3. QED
    BY <2>1, <2>2
<1>5. ASSUME NoDup(s)
      PROVE  NoDup(a) /\ NoDup(b)
  <2>1. ASSUME NEW i \in 1..Len(a), NEW j \in 1..Len(a), a[i] = a[j]
        PROVE  i = j
    BY <1>0, <1>1, <1>5, <2>1 DEF NoDup
  <2>2. ASSUME NEW i \in 1..Len(b), NEW j \in 1..Len(b), b[i] = b[j]
        PROVE  i = j
    <3>1. n + i \in 1..Len(s) /\ n + j \in 1..Len(s) /\ s[n + i] = s[n + j]
      BY <1>0, <1>2, <2>2
    <3>2. n + i = n + j
      BY <1>5, <3>1 DEF NoDup
    <3>3. QED
      BY <1>0, <3>2
  <2>3. QED
    BY <2>1, <2>2 DEF NoDup
<1>6. QED
  BY <1>1, <1>2, <1>3, <1>4, <1>5 DEF a, b

(* Moving the nodes of one queue behind those of a disjoint one.           *)
LEMMA ConcatLemma ==
    ASSUME NEW S, NEW s \in Seq(S), NEW r \in Seq(S)
    PROVE  /\ s \o r \in Seq(S)
           /\ \A u : In(u, s \o r) <=> In(u, s) \/ In(u, r)
           /\ NoDup(s) /\ NoDup(r) /\ (\A u : ~(In(u, s) /\ In(u, r)))
              => NoDup(s \o r)
<1> DEFINE c == s \o r
<1>1. /\ c \in Seq(S)
      /\ Len(c) = Len(s) + Len(r)
      /\ \A i \in 1..(Len(s) + Len(r)) :
            c[i] = IF i <= Len(s) THEN s[i] ELSE r[i - Len(s)]
      /\ Len(s) \in Nat /\ Len(r) \in Nat
  BY ConcatProperties, LenProperties
<1> HIDE DEF c
<1>2. ASSUME NEW u
      PROVE  In(u, c) <=> In(u, s) \/ In(u, r)
  <2>1. ASSUME In(u, c) PROVE In(u, s) \/ In(u, r)
    <3>1. PICK i \in 1..Len(c) : c[i] = u
      BY <2>1 DEF In
    <3>2. \/ i \in 1..Len(s) /\ s[i] = u
          \/ i - Len(s) \in 1..Len(r) /\ r[i - Len(s)] = u
      BY <1>1, <3>1
    <3>3. QED
      BY <3>2 DEF In
  <2>2. ASSUME NEW i \in 1..Len(s), s[i] = u PROVE In(u, c)
    <3>1. i \in 1..Len(c) /\ c[i] = u
      BY <1>1, <2>2
    <3>2. QED
      BY <3>1 DEF In
  <2>3. ASSUME NEW i \in 1..Len(r), r[i] = u PROVE In(u, c)
    <3>1. /\ Len(s) + i \in 1..(Len(s) + Len(r)) /\ ~(Len(s) + i <= Len(s))
          /\ (Len(s) + i) - Len(s) = i
      BY <1>1
    <3>2. c[Len(s) + i] = r[i] /\ Len(s) + i \in 1..Len(c)
      BY <1>1, <3>1
    <3>3. QED
      BY <2>3, <3>2 DEF In
  <2>4. QED
    BY <2>1, <2>2, <2>3 DEF In
<1>3. ASSUME NoDup(s), NoDup(r), \A u : ~(In(u, s) /\ In(u, r)),
             NEW i \in 1..Len(c), NEW j \in 1..Len(c), c[i] = c[j]
      PROVE  i = j
  <2>1. CASE i <= Len(s) /\ j <= Len(s)
    BY <1>1, <1>3, <2>1 DEF NoDup
  <2>2. CASE ~(i <= Len(s)) /\ ~(j <= Len(s))
    <3>1. /\ i - Len(s) \in 1..Len(r) /\ j - Len(s) \in 1..Len(r)
          /\ r[i - Len(s)] = r[j - Len(s)]
      BY <1>1, <1>3, <2>2
    <3>2. i - Len(s) = j - Len(s)
      BY <1>3, <3>1 DEF NoDup
    <3>3. QED
      BY <1>1, <3>2
  <2>3. CASE i <= Len(s) /\ ~(j <= Len(s))
    <3>1. i \in 1..Len(s) /\ j - Len(s) \in 1..Len(r)
      BY <1>1, <2>3
    <3>2. c[i] = s[i] /\ c[j] = r[j - Len(s)]
      BY <1>1, <2>3
    <3>3. QED
      BY <1>3, <3>1, <3>2 DEF In
  <2>4. CASE ~(i <= Len(s)) /\ j <= Len(s)
    <3>1. j \in 1..Len(s) /\ i - Len(s) \in 1..Len(r)
      BY <1>1, <2>4
    <3>2. c[j] = s[j] /\ c[i] = r[i - Len(s)]
      BY <1>1, <2>4
    <3>3. QED
      BY <1>3, <3>1, <3>2 DEF In
  <2>5. QED
    BY <2>1, <2>2, <2>3, <2>4
<1>4. QED
  BY <1>1, <1>2, <1>3 DEF c, NoDup

(* What is left of a sequence without its k-th element.                    *)
LEMMA WithoutLemma ==
    ASSUME NEW S, NEW s \in Seq(S), NEW k \in 1..Len(s)
    PROVE  /\ Without(s, k) \in Seq(S)
           /\ Len(Without(s, k)) = Len(s) - 1
           /\ \A i \in 1..(Len(s) - 1) :
                 Without(s, k)[i] = IF i < k THEN s[i] ELSE s[i + 1]
<1> DEFINE a == SubSeq(s, 1, k - 1)
           b == SubSeq(s, k + 1, Len(s))
<1>0. Len(s) \in Nat /\ k \in Nat /\ \A i \in 1..Len(s) : s[i] \in S
  BY LenProperties, ElementOfSeq
<1>1. a \in Seq(S) /\ Len(a) = k - 1 /\ \A i \in 1..(k - 1) : a[i] = s[i]
  <2>1. \A i \in 1..(k - 1) : s[i] \in S
    BY <1>0
  <2>2. /\ a \in Seq(S)
        /\ Len(a) = (IF 1 <= k - 1 THEN (k - 1) - 1 + 1 ELSE 0)
        /\ \A i \in 1..((k - 1) - 1 + 1) : a[i] = s[1 + i - 1]
    BY <1>0, <2>1, SubSeqProperties
  <2>3. QED
    BY <1>0, <2>2
<1>2. b \in Seq(S) /\ Len(b) = Len(s) - k /\ \A i \in 1..(Len(s) - k) : b[i] = s[k + i]
  <2>1. \A i \in (k + 1)..Len(s) : s[i] \in S
    BY <1>0
  <2>2. /\ b \in Seq(S)
        /\ Len(b) = (IF k + 1 <= Len(s) THEN Len(s) - (k + 1) + 1 ELSE 0)
        /\ \A i \in 1..(Len(s) - (k + 1) + 1) : b[i] = s[(k + 1) + i - 1]
    BY <1>0, <2>1, SubSeqProperties
  <2>3. QED
    BY <1>0, <2>2
<1>3. Without(s, k) = a \o b
  BY DEF Without
<1> HIDE DEF a, b
<1>4. /\ a \o b \in Seq(S)
      /\ Len(a \o b) = Len(a) + Len(b)
      /\ \A i \in 1..(Len(a) + Len(b)) :
            (a \o b)[i] = IF i <= Len(a) THEN a[i] ELSE b[i - Len(a)]
  BY <1>1, <1>2, ConcatProperties
<1>5. ASSUME NEW i \in 1..(Len(s) - 1)
      PROVE  (a \o b)[i] = IF i < k THEN s[i] ELSE s[i + 1]
  <2>1. i \in 1..(Len(a) + Len(b))
    BY <1>0, <1>1, <1>2
  <2>2. CASE i < k
    BY <1>0, <1>1, <1>4, <2>1, <2>2
  <2>3. CASE ~(i < k)
    <3>1. (a \o b)[i] = b[i - (k - 1)]
      BY <1>0, <1>1, <1>4, <2>1, <2>3
    <3>2. i - (k - 1) \in 1..(Len(s) - k) /\ k + (i - (k - 1)) = i + 1
      BY <1>0, <2>3
    <3>3. QED
      BY <1>2, <2>3, <3>1, <3>2
  <2>4. QED
    BY <2>2, <2>3
<1>6. QED
  BY <1>0, <1>1, <1>2, <1>3, <1>4, <1>5

(* Unlinking a node of a queue removes that member and no other.           *)
LEMMA UnlinkLemma ==
    ASSUME NEW S, NEW s \in Seq(S), NoDup(s), NEW k \in 1..Len(s)
    PROVE  /\ Without(s, k) \in Seq(S)
           /\ \A u : In(u, Without(s, k)) <=> In(u, s) /\ u # s[k]
           /\ NoDup(Without(s, k))
<1> DEFINE r == Without(s, k)
<1>1. /\ r \in Seq(S) /\ Len(r) = Len(s) - 1
      /\ \A i \in 1..(Len(s) - 1) : r[i] = IF i < k THEN s[i] ELSE s[i + 1]
      /\ Len(s) \in Nat
  BY WithoutLemma, LenProperties
<1> HIDE DEF r
<1>2. ASSUME NEW u, In(u, r) PROVE In(u, s) /\ u # s[k]
  <2>1. PICK i \in 1..(Len(s) - 1) : r[i] = u
    BY <1>1, <1>2 DEF In
  <2>2. PICK j \in 1..Len(s) : u = s[j] /\ j # k
    <3>1. CASE i < k
      BY <1>1, <2>1, <3>1
    <3>2. CASE ~(i < k)
      <4>1. i + 1 \in 1..Len(s) /\ i + 1 # k /\ u = s[i + 1]
        BY <1>1, <2>1, <3>2
      <4>2. QED
        BY <4>1
    <3>3. QED
      BY <3>1, <3>2
  <2>3. QED
    BY <2>2 DEF In, NoDup
<1>3. ASSUME NEW u, In(u, s), u # s[k] PROVE In(u, r)
  <2>1. PICK j \in 1..Len(s) : s[j] = u
    BY <1>3 DEF In
  <2>2. j # k
    BY <1>3, <2>1
  <2>3. CASE j < k
    <3>1. j \in 1..(Len(s) - 1) /\ r[j] = u
      BY <1>1, <2>1, <2>3
    <3>2. QED
      BY <1>1, <3>1 DEF In
  <2>4. CASE j > k
    <3>1. /\ j - 1 \in 1..(Len(s) - 1) /\ ~(j - 1 < k) /\ (j - 1) + 1 = j
      BY <1>1, <2>4
    <3>2. r[j - 1] = u
      BY <1>1, <2>1, <3>1
    <3>3. QED
      BY <1>1, <3>1, <3>2 DEF In
  <2>5. QED
    BY <1>1, <2>2, <2>3, <2>4
<1>4. NoDup(r)
  <2>1. ASSUME NEW i \in 1..(Len(s) - 1), NEW j \in 1..(Len(s) - 1), r[i] = r[j]
        PROVE  i = j
    <3>1. PICK a \in 1..Len(s) : r[i] = s[a] /\ a = IF i < k THEN i ELSE i + 1
      BY <1>1
    <3>2. PICK b \in 1..Len(s) : r[j] = s[b] /\ b = IF j < k THEN j ELSE j + 1
      BY <1>1
    <3>3. a = b
      BY <2>1, <3>1, <3>2 DEF NoDup
    <3>4. QED
      BY <3>1, <3>2, <3>3
  <2>2. QED
    BY <1>1, <2>1 DEF NoDup
<1>5. QED
  BY <1>1, <1>2, <1>3, <1>4 DEF r

(* Without a value twice, no more positions than values.                   *)
LEMMA FitsLemma ==
  ASSUME NEW m \in Nat, NEW T, IsFiniteSet(T), NEW f \in [1..m -> T],
         \A i, j \in 1..m : f[i] = f[j] => i = j
  PROVE  m <= Cardinality(T)
<1> DEFINE S == 1..m
<1>1. IsFiniteSet(S) /\ Cardinality(S) = m /\ Cardinality(T) \in Nat
  BY FS_Interval, FS_CardinalityType
<1>2. f \in Injection(S, T)
  BY DEF Injection, IsInjective
<1> HIDE DEF S
<1>3. Cardinality(S) <= Cardinality(T)
  BY <1>2, FS_Injection
<1>4. QED
  BY <1>1, <1>3
=============================================================================
