------------------------- MODULE FileSystemProofs -------------------------
(***************************************************************************)
(* The file system of P6 on a volume whose users keep all of its rules.    *)
(***************************************************************************)
EXTENDS FileSystem, SequenceTheorems, FiniteSetTheorems, TLAPS

-----------------------------------------------------------------------------
(***************************************************************************)
(* Sizes in blocks.                                                        *)
(***************************************************************************)
LEMMA Division ==
  ASSUME NEW a \in Nat, NEW b \in Nat \ {0}
  PROVE  /\ a \div b \in Nat
         /\ \A m \in Nat : a < m * b => a \div b < m
         /\ \A m \in Nat : m * b <= a => m <= a \div b
<1>1. a \div b \in Nat
  BY SMT
<1>2. ASSUME NEW m \in Nat, a < m * b
      PROVE  a \div b < m
  BY <1>2, SMT
<1>3. ASSUME NEW m \in Nat, m * b <= a
      PROVE  m <= a \div b
  BY <1>3, SMT
<1>4. QED
  BY <1>1, <1>2, <1>3

\* a size fits into m blocks if and only if it needs no more
LEMMA BlocksFit ==
  ASSUME NEW size \in Nat, NEW m \in Nat
  PROVE  /\ BlocksNum(size) \in Nat
         /\ size <= m * UnitsPerBlock => BlocksNum(size) <= m
         /\ BlocksNum(size) <= m => size <= m * UnitsPerBlock
<1>0. UnitsPerBlock \in Nat \ {0}
  BY FileAssumption
<1>1. CASE size = 0
  <2>1. m * UnitsPerBlock \in Nat
    BY <1>0
  <2>2. QED
    BY <1>1, <2>1 DEF BlocksNum, CeilDivision
<1>2. CASE size # 0
  <2> DEFINE q == (size - 1) \div UnitsPerBlock
  <2>1. size - 1 \in Nat /\ BlocksNum(size) = q + 1
    BY <1>2 DEF BlocksNum, CeilDivision
  <2>2. q \in Nat /\ (size - 1 < m * UnitsPerBlock => q < m)
        /\ (m * UnitsPerBlock <= size - 1 => m <= q)
    BY <1>0, <2>1, Division
  <2>3. m * UnitsPerBlock \in Nat
    BY <1>0
  <2> HIDE DEF q
  <2>4. QED
    BY <2>1, <2>2, <2>3
<1>3. QED
  BY <1>1, <1>2

LEMMA BlocksGrow ==
  ASSUME NEW small \in Nat, NEW large \in Nat, small <= large
  PROVE  BlocksNum(small) <= BlocksNum(large)
<1>1. BlocksNum(large) \in Nat /\ large <= BlocksNum(large) * UnitsPerBlock
  BY BlocksFit
<1>2. PICK m \in Nat : m = BlocksNum(large)
  BY <1>1
<1>3. m * UnitsPerBlock \in Nat
  BY FileAssumption
<1>4. QED
  BY <1>1, <1>2, <1>3, BlocksFit

\* what lies in the k-th block needs k blocks
LEMMA BlocksOfUnit ==
  ASSUME NEW k \in Nat \ {0}, NEW size \in Nat,
         (k - 1) * UnitsPerBlock < size, size <= k * UnitsPerBlock
  PROVE  BlocksNum(size) = k
<1>1. BlocksNum(size) \in Nat /\ BlocksNum(size) <= k
  BY BlocksFit
<1>2. k - 1 \in Nat /\ (k - 1) * UnitsPerBlock \in Nat
  BY FileAssumption
<1>3. ~(BlocksNum(size) <= k - 1)
  BY <1>2, BlocksFit
<1>4. QED
  BY <1>1, <1>3

-----------------------------------------------------------------------------
(***************************************************************************)
(* Sets of bits and their order.                                           *)
(***************************************************************************)
\* the ranks of the members of a finite set of integers are 0, 1, 2, ...
LEMMA EveryRank ==
  ASSUME NEW S \in SUBSET Int, IsFiniteSet(S), NEW k \in 1..Cardinality(S)
  PROVE  \E b \in S : Cardinality({c \in S : c < b}) = k - 1
<1> DEFINE Below(b) == {c \in S : c < b}
           rank == [b \in S |-> Cardinality(Below(b)) + 1]
           T == 1..Cardinality(S)
<1>0. Cardinality(S) \in Nat
  BY FS_CardinalityType
<1>1. ASSUME NEW b \in S
      PROVE  /\ IsFiniteSet(Below(b)) /\ Cardinality(Below(b)) \in Nat
             /\ Cardinality(Below(b)) < Cardinality(S)
  <2>1. /\ IsFiniteSet(Below(b)) /\ Cardinality(Below(b)) <= Cardinality(S)
        /\ (Cardinality(S) = Cardinality(Below(b)) => S = Below(b))
    <3>1. Below(b) \in SUBSET S
      OBVIOUS
    <3> HIDE DEF Below
    <3>2. QED
      BY <3>1, FS_Subset
  <2>2. Cardinality(Below(b)) \in Nat
    BY <2>1, FS_CardinalityType
  <2>3. b \in S /\ b \notin Below(b)
    OBVIOUS
  <2> HIDE DEF Below
  <2>4. QED
    BY <1>0, <2>1, <2>2, <2>3
<1>2. ASSUME NEW a \in S, NEW b \in S, a < b
      PROVE  Cardinality(Below(a)) < Cardinality(Below(b))
  <2>0. /\ \A c \in S : c \in Int
        /\ \A c \in S : c < a => c < b
    BY <1>2
  <2>1. Below(a) \in SUBSET Below(b) /\ a \in Below(b) /\ a \notin Below(a)
    <3>1. Below(a) \subseteq Below(b)
      BY <2>0
    <3>2. a \in Below(b) /\ ~(a < a)
      BY <1>2, <2>0
    <3>3. QED
      BY <3>1, <3>2
  <2>2. /\ Cardinality(Below(a)) <= Cardinality(Below(b))
        /\ (Cardinality(Below(b)) = Cardinality(Below(a)) => Below(b) = Below(a))
    BY <1>1, <2>1, FS_Subset
  <2>3. Cardinality(Below(a)) \in Nat /\ Cardinality(Below(b)) \in Nat
    BY <1>1
  <2> HIDE DEF Below
  <2>4. QED
    BY <2>1, <2>2, <2>3
<1>3. \A b \in S : rank[b] = Cardinality(Below(b)) + 1 /\ rank[b] \in T
  BY <1>0, <1>1
<1>4. rank \in [S -> T]
  BY <1>3
<1>5. ASSUME NEW a \in S, NEW b \in S, a # b
      PROVE  rank[a] # rank[b]
  <2>1. Cardinality(Below(a)) \in Nat /\ Cardinality(Below(b)) \in Nat
    BY <1>1
  <2>2. a < b \/ b < a
    BY <1>5
  <2>3. rank[a] = Cardinality(Below(a)) + 1 /\ rank[b] = Cardinality(Below(b)) + 1
    BY <1>3
  <2>4. Cardinality(Below(a)) < Cardinality(Below(b))
        \/ Cardinality(Below(b)) < Cardinality(Below(a))
    BY <1>2, <2>2
  <2> HIDE DEF Below, rank
  <2>5. QED
    BY <2>1, <2>3, <2>4
<1>6. IsFiniteSet(T) /\ Cardinality(T) = Cardinality(S)
  BY <1>0, FS_Interval
<1>7. rank \in Surjection(S, T)
  <2>1. rank \in Injection(S, T)
    <3> HIDE DEF rank, T
    <3>1. QED
      BY <1>4, <1>5 DEF Injection, IsInjective
  <2> HIDE DEF rank, T
  <2>2. QED
    BY <1>6, <2>1, FS_Injection
<1>8. PICK b \in S : rank[b] = k
  <2> HIDE DEF rank
  <2>1. QED
    BY <1>7 DEF Surjection
<1>9. Cardinality(Below(b)) + 1 = k /\ Cardinality(Below(b)) \in Nat
  BY <1>1, <1>3, <1>8
<1>10. Cardinality({c \in S : c < b}) = k - 1
  <2>1. k \in Int
    OBVIOUS
  <2>2. Cardinality(Below(b)) = k - 1
    <3> HIDE DEF Below
    <3>1. QED
      BY <1>9, <2>1
  <2>3. QED
    BY <2>2
<1>11. QED
  <2>1. WITNESS b \in S
  <2>2. QED
    BY <1>10

LEMMA SmallestBit ==
  ASSUME NEW S \in SUBSET Int, IsFiniteSet(S), S # {}
  PROVE  Min(S) \in S /\ \A c \in S : Min(S) <= c
<1>1. Cardinality(S) \in Nat /\ Cardinality(S) # 0
  BY FS_CardinalityType, FS_EmptySet
<1>2. 1 \in 1..Cardinality(S)
  BY <1>1
<1>3. PICK b \in S : Cardinality({c \in S : c < b}) = 1 - 1
  BY <1>2, EveryRank
<1>4. {c \in S : c < b} = {}
  <2>1. {c \in S : c < b} \in SUBSET S
    OBVIOUS
  <2>2. IsFiniteSet({c \in S : c < b})
    BY <2>1, FS_Subset
  <2>3. QED
    BY <1>3, <2>2, FS_EmptySet
<1>5. \A c \in S : b <= c
  BY <1>4
<1>6. QED
  BY <1>5 DEF Min

\* the bits in order are all different
LEMMA BitsInOrder ==
  ASSUME NEW S \in SUBSET Int, IsFiniteSet(S)
  PROVE  /\ InOrder(S) \in Seq(S) /\ Len(InOrder(S)) = Cardinality(S)
         /\ \A k \in 1..Cardinality(S) : InOrder(S)[k] \in S
         /\ \A k, l \in 1..Cardinality(S) : InOrder(S)[k] = InOrder(S)[l] => k = l
<1> DEFINE Rank(b) == Cardinality({c \in S : c < b})
           q == InOrder(S)
<1>0. Cardinality(S) \in Nat
  BY FS_CardinalityType
<1>1. q = [k \in 1..Cardinality(S) |-> CHOOSE b \in S : Rank(b) = k - 1]
  BY DEF InOrder
<1>2. ASSUME NEW k \in 1..Cardinality(S)
      PROVE  q[k] \in S /\ Rank(q[k]) = k - 1
  <2>1. \E b \in S : Rank(b) = k - 1
    BY EveryRank
  <2>2. q[k] = CHOOSE b \in S : Rank(b) = k - 1
    BY <1>1
  <2> HIDE DEF Rank, q
  <2>3. QED
    BY <2>1, <2>2
<1>3. q \in [1..Cardinality(S) -> S]
  <2> HIDE DEF Rank
  <2>1. QED
    BY <1>1, <1>2
<1>4. q \in Seq(S) /\ Len(q) = Cardinality(S)
  <2> HIDE DEF q
  <2>1. q \in Seq(S)
    BY <1>0, <1>3
  <2>2. QED
    BY <1>0, <1>3, <2>1
<1>5. ASSUME NEW k \in 1..Cardinality(S), NEW l \in 1..Cardinality(S), q[k] = q[l]
      PROVE  k = l
  <2>1. k - 1 = l - 1
    <3> HIDE DEF Rank, q
    <3>1. QED
      BY <1>2, <1>5
  <2>2. QED
    BY <2>1
<1>6. QED
  BY <1>2, <1>4, <1>5

\* what holds of 0 and passes on holds up to n
LEMMA UpTo ==
  ASSUME NEW n \in Nat, NEW S, 0 \in S, \A k \in 0..n - 1 : k \in S => k + 1 \in S
  PROVE  \A k \in 0..n : k \in S
<1> DEFINE T == {k \in 0..n : k \notin S}
<1>1. SUFFICES ASSUME T # {} PROVE FALSE
  OBVIOUS
<1>2. T \in SUBSET Int /\ IsFiniteSet(T)
  <2>1. IsFiniteSet(0..n) /\ T \in SUBSET (0..n)
    BY FS_Interval
  <2>2. QED
    BY <2>1, FS_Subset
<1>3. Min(T) \in T /\ \A c \in T : Min(T) <= c
  BY <1>1, <1>2, SmallestBit
<1>4. PICK m \in T : \A c \in T : m <= c
  BY <1>3
<1>5. m \in 0..n /\ m \notin S /\ m - 1 \in 0..n - 1 /\ m - 1 \notin T
  BY <1>4
<1>6. QED
  BY <1>5

\* a piece of a sequence, whatever its members are
LEMMA Cut ==
  ASSUME NEW s, NEW m \in Int, NEW n \in Int, m <= n + 1
  PROVE  /\ SubSeq(s, m, n) \in Seq({s[i] : i \in m..n})
         /\ Len(SubSeq(s, m, n)) = n - m + 1
         /\ DOMAIN SubSeq(s, m, n) = 1..(n - m + 1)
         /\ \A i \in 1..(n - m + 1) : SubSeq(s, m, n)[i] = s[m + i - 1]
<1> DEFINE S == {s[i] : i \in m..n}
           c == SubSeq(s, m, n)
<1>1. \A i \in m..n : s[i] \in S
  OBVIOUS
<1>2. /\ c \in Seq(S)
      /\ Len(c) = IF m <= n THEN n - m + 1 ELSE 0
      /\ \A i \in 1..(n - m + 1) : c[i] = s[m + i - 1]
  <2> HIDE DEF S
  <2>1. QED
    BY <1>1, SubSeqProperties
<1>3. Len(c) = n - m + 1
  BY <1>2
<1>4. DOMAIN c = 1..Len(c)
  <2> HIDE DEF S, c
  <2>1. QED
    BY <1>2, LenProperties
<1>5. QED
  BY <1>2, <1>3, <1>4

\* c is the piece of s with len entries that begins with the m-th
IsPiece(c, s, m, len) ==
  /\ \E S : c \in Seq(S)
  /\ Len(c) = len
  /\ \A k \in 1..len : c[k] = s[m + k - 1]

\* e is a sequence of m entries and behind it one of n
IsJoint(e, s, t, m, n) ==
  /\ Len(e) = m + n
  /\ \A k \in 1..m + n : e[k] = IF k <= m THEN s[k] ELSE t[k - m]

LEMMA CutOf ==
  ASSUME NEW s, NEW m \in Int, NEW n \in Int, NEW len \in Nat, len = n - m + 1,
         NEW c, c = SubSeq(s, m, n)
  PROVE  IsPiece(c, s, m, len)
<1>1. m <= n + 1
  OBVIOUS
<1>2. /\ SubSeq(s, m, n) \in Seq({s[i] : i \in m..n})
      /\ Len(SubSeq(s, m, n)) = n - m + 1
      /\ \A i \in 1..(n - m + 1) : SubSeq(s, m, n)[i] = s[m + i - 1]
  BY <1>1, Cut
<1>3. \E S : c \in Seq(S)
  BY <1>2, Zenon
<1>4. QED
  BY <1>2, <1>3 DEF IsPiece

LEMMA Joined ==
  ASSUME NEW s, NEW t, \E S : s \in Seq(S), \E T : t \in Seq(T),
         NEW m \in Nat, m = Len(s), NEW n \in Nat, n = Len(t)
  PROVE  IsJoint(s \o t, s, t, m, n)
<1>1. PICK S, T : s \in Seq(S) /\ t \in Seq(T)
  OBVIOUS
<1>2. PICK R : R = S \cup T
  OBVIOUS
<1>3. s \in Seq(R) /\ t \in Seq(R)
  BY <1>1, <1>2
<1>4. /\ Len(s \o t) = Len(s) + Len(t)
      /\ \A k \in 1..Len(s) + Len(t) : (s \o t)[k] = IF k <= Len(s) THEN s[k] ELSE t[k - Len(s)]
  BY <1>3, ConcatProperties
<1>5. QED
  BY <1>4 DEF IsJoint

LEMMA FrontOf ==
  ASSUME NEW T, NEW s \in Seq(T), s # <<>>
  PROVE  /\ Len(s) \in Nat \ {0}
         /\ Front(s) \in Seq(T) /\ Len(Front(s)) = Len(s) - 1
         /\ \A k \in 1..Len(s) - 1 : Front(s)[k] = s[k]
         /\ Last(s) \in T
<1>1. Len(s) \in Nat \ {0}
  BY EmptySeq
<1>2. PICK n \in Nat : n = Len(s) - 1
  BY <1>1
<1>3. Front(s) = SubSeq(s, 1, n)
  BY <1>2 DEF Front
<1>4. Len(SubSeq(s, 1, n)) = n /\ \A k \in 1..n : SubSeq(s, 1, n)[k] = s[k]
  <2>1. 1 <= n + 1 /\ n - 1 + 1 = n /\ \A k \in 1..n : 1 + k - 1 = k
    OBVIOUS
  <2>2. Len(SubSeq(s, 1, n)) = n - 1 + 1
        /\ \A k \in 1..(n - 1 + 1) : SubSeq(s, 1, n)[k] = s[1 + k - 1]
    BY <2>1, Cut
  <2>3. QED
    BY <2>1, <2>2
<1>5. SubSeq(s, 1, n) \in Seq(T)
  <2>1. \A k \in 1..n : s[k] \in T
    BY <1>1, <1>2, ElementOfSeq
  <2>2. QED
    BY <2>1, SubSeqProperties
<1>6. Last(s) \in T
  BY <1>1, ElementOfSeq DEF Last
<1>7. QED
  BY <1>1, <1>2, <1>3, <1>4, <1>5, <1>6

-----------------------------------------------------------------------------
(***************************************************************************)
(* path_analize(): a path is looked up name by name.                       *)
(***************************************************************************)
\* at leads down the first n names of the path
Leads(v, p, n, at) ==
  at = [k \in 0..n |-> IF k = 0 THEN Root ELSE LookupDirectory(v, at[k - 1], p[k])]

LEMMA LeadsStep ==
  ASSUME NEW v, NEW p, NEW n \in Nat, NEW at, Leads(v, p, n, at)
  PROVE  /\ at[0] = Root
         /\ \A k \in 1..n : at[k] = LookupDirectory(v, at[k - 1], p[k])
<1>1. DOMAIN at = 0..n
  BY DEF Leads
<1>2. \A k \in 0..n : at[k] = IF k = 0 THEN Root ELSE LookupDirectory(v, at[k - 1], p[k])
  BY DEF Leads
<1>3. QED
  BY <1>2

LEMMA SomeLeads ==
  ASSUME NEW v, NEW p, NEW n \in Nat
  PROVE  \E at : Leads(v, p, n, at)
<1> DEFINE S == {k \in 0..n : \E at : Leads(v, p, k, at)}
<1>1. 0 \in S
  <2> DEFINE at == [k \in 0..0 |-> Root]
  <2>1. Leads(v, p, 0, at)
    BY DEF Leads
  <2>2. QED
    BY <2>1
<1>2. ASSUME NEW m \in 0..n - 1, m \in S
      PROVE  m + 1 \in S
  <2>1. PICK at : Leads(v, p, m, at)
    BY <1>2
  <2> DEFINE more == [k \in 0..m + 1 |->
                        IF k = m + 1 THEN LookupDirectory(v, at[m], p[m + 1]) ELSE at[k]]
  <2>2. /\ at[0] = Root
        /\ \A k \in 1..m : at[k] = LookupDirectory(v, at[k - 1], p[k])
    BY <2>1, LeadsStep
  <2>3. \A k \in 0..m + 1 :
          more[k] = IF k = 0 THEN Root ELSE LookupDirectory(v, more[k - 1], p[k])
    <3> SUFFICES ASSUME NEW k \in 0..m + 1
                 PROVE  more[k] = IF k = 0 THEN Root ELSE LookupDirectory(v, more[k - 1], p[k])
      OBVIOUS
    <3>1. CASE k = 0
      BY <2>2, <3>1
    <3>2. CASE k \in 1..m
      <4>1. more[k] = at[k] /\ more[k - 1] = at[k - 1]
        BY <3>2
      <4>2. QED
        BY <2>2, <3>2, <4>1
    <3>3. CASE k = m + 1
      <4>1. more[k] = LookupDirectory(v, at[m], p[m + 1]) /\ more[k - 1] = at[m]
            /\ k - 1 = m
        BY <3>3
      <4>2. QED
        BY <3>3, <4>1
    <3>4. QED
      BY <3>1, <3>2, <3>3
  <2>4. Leads(v, p, m + 1, more)
    <3>1. more = [k \in 0..m + 1 |-> more[k]]
      OBVIOUS
    <3>2. QED
      BY <2>3, <3>1 DEF Leads
  <2>5. QED
    BY <2>4
<1>3. \A k \in 0..n : k \in S
  <2> HIDE DEF S
  <2>1. QED
    BY <1>1, <1>2, UpTo
<1>4. QED
  BY <1>3

LEMMA OneLeads ==
  ASSUME NEW v, NEW p, NEW q, NEW m \in Nat, NEW n \in Nat, m <= n,
         NEW at, NEW bt, Leads(v, p, m, at), Leads(v, q, n, bt),
         \A k \in 1..m : p[k] = q[k]
  PROVE  at[m] = bt[m]
<1> DEFINE S == {k \in 0..m : at[k] = bt[k]}
<1>1. /\ at[0] = Root
      /\ \A k \in 1..m : at[k] = LookupDirectory(v, at[k - 1], p[k])
  BY LeadsStep
<1>2. /\ bt[0] = Root
      /\ \A k \in 1..n : bt[k] = LookupDirectory(v, bt[k - 1], q[k])
  BY LeadsStep
<1>3. 0 \in S
  BY <1>1, <1>2
<1>4. ASSUME NEW k \in 0..m - 1, k \in S
      PROVE  k + 1 \in S
  <2>1. k + 1 \in 1..m /\ k + 1 \in 1..n /\ (k + 1) - 1 = k
    OBVIOUS
  <2>2. at[k + 1] = LookupDirectory(v, at[k], p[k + 1])
        /\ bt[k + 1] = LookupDirectory(v, bt[k], q[k + 1])
    BY <1>1, <1>2, <2>1
  <2>3. QED
    BY <1>4, <2>1, <2>2
<1>5. \A k \in 0..m : k \in S
  <2> HIDE DEF S
  <2>1. QED
    BY <1>3, <1>4, UpTo
<1>6. QED
  BY <1>5

LEMMA WalkLeads ==
  ASSUME NEW v, NEW p, Len(p) \in Nat
  PROVE  \E at : Leads(v, p, Len(p), at) /\ Walk(v, p) = at[Len(p)]
<1>1. PICK g : Leads(v, p, Len(p), g)
  BY SomeLeads
<1>2. QED
  BY <1>1 DEF Leads, Walk

\* the empty path is the root, a longer one is looked up below its front
LEMMA WalkStep ==
  ASSUME NEW v, NEW T, NEW p \in Seq(T)
  PROVE  /\ p = <<>> => Walk(v, p) = Root
         /\ p # <<>> => Walk(v, p) = LookupDirectory(v, Walk(v, Front(p)), Last(p))
<1>1. PICK at : Leads(v, p, Len(p), at) /\ Walk(v, p) = at[Len(p)]
  BY WalkLeads
<1>2. /\ at[0] = Root
      /\ \A k \in 1..Len(p) : at[k] = LookupDirectory(v, at[k - 1], p[k])
  BY <1>1, LeadsStep
<1>3. CASE p = <<>>
  BY <1>1, <1>2, <1>3
<1>4. CASE p # <<>>
  <2>1. /\ Len(p) \in Nat \ {0} /\ Len(Front(p)) = Len(p) - 1
        /\ \A k \in 1..Len(p) - 1 : Front(p)[k] = p[k]
    BY <1>4, FrontOf
  <2>2. PICK bt : Leads(v, Front(p), Len(Front(p)), bt)
                  /\ Walk(v, Front(p)) = bt[Len(Front(p))]
    BY <2>1, WalkLeads
  <2>3. PICK m \in Nat : m = Len(p) - 1
    BY <2>1
  <2>4. Leads(v, Front(p), m, bt) /\ Walk(v, Front(p)) = bt[m]
    BY <2>1, <2>2, <2>3
  <2>5. bt[m] = at[m]
    <3>1. m <= Len(p) /\ \A k \in 1..m : Front(p)[k] = p[k]
      BY <2>1, <2>3
    <3>2. QED
      BY <1>1, <2>1, <2>4, <3>1, OneLeads
  <2>6. at[Len(p)] = LookupDirectory(v, at[m], p[Len(p)])
    BY <1>2, <2>1, <2>3
  <2>7. QED
    BY <1>1, <1>4, <2>4, <2>5, <2>6 DEF Last
<1>5. QED
  BY <1>3, <1>4

-----------------------------------------------------------------------------
(***************************************************************************)
(* Volumes, and what the small writes do to one.                           *)
(***************************************************************************)
Direct == DIRECT_DATA_BLOCKS_NUM
Most   == Direct + UnitsPerBlock
FirstIndex  == Most + 1
SecondIndex == Most + 2
Kinds  == {"NORMAL_FILE", "DIRECTORY", "SOFT_LINK"}

InodeType ==
  [file_type : Kinds, file_size : Nat, dentry_num : Nat, blocks_number : Nat,
   links : Nat, indirect_block : Blocks, direct_block : [1..Direct -> Blocks]]

TablesType ==
  [inode_bitmap : SUBSET Inodes, datablock_bitmap : SUBSET Blocks,
   inode : [Inodes -> InodeType]]

Typed(v) ==
  /\ v = [mem |-> v.mem, disk |-> v.disk, device |-> v.device]
  /\ v.mem \in TablesType /\ v.disk \in TablesType

\* w has the tables of v on disk, or those in memory, or the device of v
SameDisk(v, w)   == w.disk = v.disk
SameMem(v, w)    == w.mem = v.mem
SameDevice(v, w) == w.device = v.device
SameBitmaps(v, w) == /\ w.mem.inode_bitmap = v.mem.inode_bitmap
                     /\ w.mem.datablock_bitmap = v.mem.datablock_bitmap

LEMMA Constants ==
  /\ Direct \in Nat \ {0} /\ UnitsPerBlock \in Nat /\ UnitsPerBlock >= 2
  /\ Most \in Nat /\ Most > Direct /\ FirstIndex \in Nat /\ SecondIndex \in Nat
  /\ FirstIndex > Most /\ SecondIndex > FirstIndex
  /\ 1 \in 1..Direct /\ 0 \in Blocks /\ Root \in Inodes
  /\ Blocks \in SUBSET Int /\ IsFiniteSet(Blocks)
  /\ Inodes \in SUBSET Int /\ IsFiniteSet(Inodes)
  /\ -1 \notin Blocks /\ -1 \notin Inodes
  /\ NoInode \in InodeType
<1>1. IsFiniteSet(Blocks) /\ IsFiniteSet(Inodes)
  BY FileAssumption, FS_Interval DEF Blocks, Inodes
<1>2. /\ Direct \in Nat \ {0} /\ UnitsPerBlock \in Nat /\ UnitsPerBlock >= 2
      /\ Most \in Nat /\ Most > Direct /\ FirstIndex \in Nat /\ SecondIndex \in Nat
      /\ FirstIndex > Most /\ SecondIndex > FirstIndex
      /\ 1 \in 1..Direct /\ 0 \in Blocks /\ Root \in Inodes
      /\ Blocks \in SUBSET Int /\ Inodes \in SUBSET Int
      /\ -1 \notin Blocks /\ -1 \notin Inodes
  BY FileAssumption DEF Direct, Most, FirstIndex, SecondIndex, Blocks, Inodes, Root
<1>3. NoInode \in InodeType
  BY <1>2 DEF NoInode, InodeType, Kinds, Direct
<1>4. QED
  BY <1>1, <1>2, <1>3

LEMMA SavesInodes ==
  ASSUME NEW v, Typed(v), NEW w, w = WriteInodeTable(v)
  PROVE  /\ Typed(w) /\ SameMem(v, w) /\ SameDevice(v, w)
         /\ w.disk.inode = v.mem.inode
         /\ w.disk.inode_bitmap = v.disk.inode_bitmap
         /\ w.disk.datablock_bitmap = v.disk.datablock_bitmap
BY DEF Typed, WriteInodeTable, SameMem, SameDevice, TablesType

LEMMA SavesInodeBitmap ==
  ASSUME NEW v, Typed(v), NEW w, w = WriteInodeBitmap(v)
  PROVE  /\ Typed(w) /\ SameMem(v, w) /\ SameDevice(v, w)
         /\ w.disk.inode = v.disk.inode
         /\ w.disk.inode_bitmap = v.mem.inode_bitmap
         /\ w.disk.datablock_bitmap = v.disk.datablock_bitmap
BY DEF Typed, WriteInodeBitmap, SameMem, SameDevice, TablesType

LEMMA SavesBlockBitmap ==
  ASSUME NEW v, Typed(v), NEW w, w = WriteBlockBitmap(v)
  PROVE  /\ Typed(w) /\ SameMem(v, w) /\ SameDevice(v, w)
         /\ w.disk.inode = v.disk.inode
         /\ w.disk.inode_bitmap = v.disk.inode_bitmap
         /\ w.disk.datablock_bitmap = v.mem.datablock_bitmap
BY DEF Typed, WriteBlockBitmap, SameMem, SameDevice, TablesType

WithInode(v, i, n)  == [v EXCEPT !.mem.inode[i] = n]
WithBits(v, ib, db) == [v EXCEPT !.mem.inode_bitmap = ib, !.mem.datablock_bitmap = db]

LEMMA SetsInode ==
  ASSUME NEW v, Typed(v), NEW i \in Inodes, NEW n \in InodeType,
         NEW w, w = WithInode(v, i, n)
  PROVE  /\ Typed(w) /\ SameBitmaps(v, w) /\ SameDisk(v, w) /\ SameDevice(v, w)
         /\ w.mem.inode[i] = n
         /\ \A j \in Inodes : j # i => w.mem.inode[j] = v.mem.inode[j]
BY DEF Typed, SameBitmaps, SameDisk, SameDevice, TablesType, WithInode

LEMMA TakesBits ==
  ASSUME NEW v, Typed(v), NEW w,
         NEW ib \in SUBSET Inodes, NEW db \in SUBSET Blocks,
         w = WithBits(v, ib, db)
  PROVE  /\ Typed(w) /\ SameDisk(v, w) /\ SameDevice(v, w)
         /\ w.mem.inode = v.mem.inode
         /\ w.mem.inode_bitmap = ib /\ w.mem.datablock_bitmap = db
BY DEF Typed, SameDisk, SameDevice, TablesType, WithBits

\* the first free bit
LEMMA AvailableBit ==
  ASSUME NEW bits \in SUBSET Int, IsFiniteSet(bits), NEW bitmap,
         ApplyAvailableBit(bitmap, bits) # -1
  PROVE  ApplyAvailableBit(bitmap, bits) \in bits \ bitmap
<1>1. /\ ~(bits \subseteq bitmap) /\ ApplyAvailableBit(bitmap, bits) = Min(bits \ bitmap)
  BY DEF ApplyAvailableBit
<1>2. /\ bits \ bitmap \in SUBSET Int /\ bits \ bitmap # {}
      /\ IsFiniteSet(bits \ bitmap)
  <2>1. bits \ bitmap \in SUBSET bits
    OBVIOUS
  <2>2. QED
    BY <1>1, <2>1, FS_Subset
<1>3. QED
  BY <1>1, <1>2, SmallestBit

-----------------------------------------------------------------------------
(***************************************************************************)
(* The blocks of a file by what it has them for: up to Direct its direct   *)
(* blocks, up to Most those behind the index, then the two index blocks.   *)
(***************************************************************************)
\* the blocks that hold what is written to the file
DataUses(v, i) == 1..v.mem.inode[i].blocks_number

Uses(v, i) ==
  DataUses(v, i) \cup (IF v.mem.inode[i].blocks_number <= Direct THEN {}
                       ELSE {FirstIndex, SecondIndex})

BlockAt(v, i, k) ==
  IF k <= Direct THEN v.mem.inode[i].direct_block[k]
  ELSE IF k <= Most THEN v.device[SecondIndirect(v, i, 0)][k - Direct]
  ELSE IF k = FirstIndex THEN v.mem.inode[i].indirect_block
  ELSE SecondIndirect(v, i, 0)

MarksUsed(v) ==
  \A i \in Inodes : \A k \in Uses(v, i) : BlockAt(v, i, k) \in v.mem.datablock_bitmap

OwnsOnce(v) ==
  \A i, j \in Inodes : \A k \in Uses(v, i), l \in Uses(v, j) :
    BlockAt(v, i, k) = BlockAt(v, j, l) => i = j /\ k = l

\* a file has the blocks its size needs, and no more than one index leads to
Fits(v) ==
  \A i \in Inodes :
    /\ v.mem.inode[i].blocks_number = BlocksNum(v.mem.inode[i].file_size)
    /\ v.mem.inode[i].blocks_number <= Most

Sound(v) == Typed(v) /\ Fits(v) /\ MarksUsed(v) /\ OwnsOnce(v)

SameFile(v, w, i) ==
  /\ Uses(w, i) = Uses(v, i)
  /\ \A k \in Uses(v, i) : BlockAt(w, i, k) = BlockAt(v, i, k)

SameFiles(v, w) == \A i \in Inodes : SameFile(v, w, i)

LEMMA InodeTypes ==
  ASSUME NEW v, Typed(v), NEW i \in Inodes
  PROVE  /\ v.mem.inode[i] \in InodeType
         /\ v.mem.inode[i].blocks_number \in Nat /\ v.mem.inode[i].file_size \in Nat
         /\ v.mem.inode[i].dentry_num \in Nat /\ v.mem.inode[i].links \in Nat
         /\ v.mem.inode[i].file_type \in Kinds
         /\ v.mem.inode[i].indirect_block \in Blocks
         /\ v.mem.inode[i].direct_block \in [1..Direct -> Blocks]
         /\ v.mem.datablock_bitmap \in SUBSET Blocks
         /\ v.mem.inode_bitmap \in SUBSET Inodes
         /\ v.disk.datablock_bitmap \in SUBSET Blocks
         /\ v.disk.inode_bitmap \in SUBSET Inodes
         /\ v.disk.inode[i] \in InodeType
BY DEF Typed, TablesType, InodeType

LEMMA UsesBounds ==
  ASSUME NEW v, Sound(v), NEW i \in Inodes
  PROVE  /\ Uses(v, i) \subseteq 1..SecondIndex
         /\ DataUses(v, i) \subseteq Uses(v, i)
         /\ DataUses(v, i) \subseteq 1..Most
         /\ v.mem.inode[i].blocks_number > Direct =>
              FirstIndex \in Uses(v, i) /\ SecondIndex \in Uses(v, i)
         /\ \A k \in Uses(v, i) : k > Direct => v.mem.inode[i].blocks_number > Direct
         /\ \A k \in Uses(v, i) : BlockAt(v, i, k) \in Blocks
<1>1. /\ v.mem.inode[i].blocks_number \in Nat /\ v.mem.inode[i].blocks_number <= Most
      /\ v.mem.datablock_bitmap \in SUBSET Blocks
  BY InodeTypes DEF Sound, Fits
<1>2. \A k \in Uses(v, i) : BlockAt(v, i, k) \in Blocks
  BY <1>1 DEF Sound, MarksUsed
<1>3. PICK n \in Nat : n = v.mem.inode[i].blocks_number /\ n <= Most
  BY <1>1
<1>4. /\ Uses(v, i) = 1..n \cup (IF n <= Direct THEN {} ELSE {FirstIndex, SecondIndex})
      /\ DataUses(v, i) = 1..n
  BY <1>3 DEF Uses, DataUses
<1>5. /\ Direct \in Nat /\ Most \in Nat /\ Most > Direct
      /\ FirstIndex \in Nat /\ SecondIndex \in Nat
      /\ FirstIndex > Most /\ SecondIndex > FirstIndex
  BY Constants
<1>6. QED
  BY <1>2, <1>3, <1>4, <1>5

LEMMA IndexBlocks ==
  ASSUME NEW v, NEW i
  PROVE  /\ BlockAt(v, i, FirstIndex) = v.mem.inode[i].indirect_block
         /\ BlockAt(v, i, SecondIndex) = SecondIndirect(v, i, 0)
<1>1. ~(FirstIndex <= Direct) /\ ~(FirstIndex <= Most)
      /\ ~(SecondIndex <= Direct) /\ ~(SecondIndex <= Most) /\ SecondIndex # FirstIndex
  BY Constants
<1>2. QED
  BY <1>1, Zenon DEF BlockAt

LEMMA DataBlocks ==
  ASSUME NEW v, Sound(v), NEW i \in Inodes
  PROVE  /\ DOMAIN DatablockIndex(v, i) = DataUses(v, i)
         /\ \A k \in DataUses(v, i) : DatablockIndex(v, i)[k] = BlockAt(v, i, k)
         /\ ToSet(DatablockIndex(v, i)) = {BlockAt(v, i, k) : k \in DataUses(v, i)}
<1>1. DOMAIN DatablockIndex(v, i) = DataUses(v, i)
  BY DEF DatablockIndex, DataUses
<1>2. ASSUME NEW k \in DataUses(v, i)
      PROVE  DatablockIndex(v, i)[k] = BlockAt(v, i, k)
  <2>1. k <= Most
    BY UsesBounds, Constants
  <2>2. DatablockIndex(v, i)[k] =
          IF k <= Direct THEN v.mem.inode[i].direct_block[k]
          ELSE v.device[SecondIndirect(v, i, 0)][k - Direct]
    BY DEF DatablockIndex, DataUses, Direct
  <2>3. QED
    BY <2>1, <2>2 DEF BlockAt
<1>3. QED
  BY <1>1, <1>2 DEF ToSet

-----------------------------------------------------------------------------
(***************************************************************************)
(* What is enough for a file to keep its blocks.                           *)
(***************************************************************************)
LEMMA KeepsFile ==
  ASSUME NEW v, Sound(v), NEW w, NEW i \in Inodes,
         w.mem.inode[i].blocks_number = v.mem.inode[i].blocks_number,
         w.mem.inode[i].direct_block = v.mem.inode[i].direct_block,
         w.mem.inode[i].indirect_block = v.mem.inode[i].indirect_block,
         v.mem.inode[i].blocks_number > Direct =>
           /\ w.device[BlockAt(v, i, FirstIndex)] = v.device[BlockAt(v, i, FirstIndex)]
           /\ w.device[BlockAt(v, i, SecondIndex)] = v.device[BlockAt(v, i, SecondIndex)]
  PROVE  SameFile(v, w, i) /\ DataUses(w, i) = DataUses(v, i)
<1>1. Uses(w, i) = Uses(v, i) /\ DataUses(w, i) = DataUses(v, i)
  BY DEF Uses, DataUses
<1>2. ASSUME NEW k \in Uses(v, i)
      PROVE  BlockAt(w, i, k) = BlockAt(v, i, k)
  <2>1. CASE k <= Direct
    BY <2>1 DEF BlockAt
  <2>2. CASE ~(k <= Direct)
    <3>1. v.mem.inode[i].blocks_number > Direct
      <4>1. k \in Nat /\ Direct \in Nat
        BY UsesBounds, Constants
      <4>2. QED
        BY <2>2, <4>1, UsesBounds
    <3>2. /\ BlockAt(v, i, FirstIndex) = v.mem.inode[i].indirect_block
          /\ BlockAt(v, i, SecondIndex) = SecondIndirect(v, i, 0)
      BY IndexBlocks
    <3>3. SecondIndirect(w, i, 0) = SecondIndirect(v, i, 0)
      BY <3>1, <3>2 DEF SecondIndirect
    <3>4. w.device[SecondIndirect(v, i, 0)] = v.device[SecondIndirect(v, i, 0)]
      BY <3>1, <3>2
    <3>5. QED
      BY <2>2, <3>3, <3>4 DEF BlockAt
  <2>3. QED
    BY <2>1, <2>2
<1>3. QED
  BY <1>1, <1>2 DEF SameFile

LEMMA KeepsBlocks ==
  ASSUME NEW v, Sound(v), NEW w, SameFiles(v, w),
         v.mem.datablock_bitmap \subseteq w.mem.datablock_bitmap
  PROVE  MarksUsed(w) /\ OwnsOnce(w)
<1>1. MarksUsed(w)
  BY DEF Sound, MarksUsed, SameFiles, SameFile
<1>2. OwnsOnce(w)
  BY DEF Sound, OwnsOnce, SameFiles, SameFile
<1>3. QED
  BY <1>1, <1>2

\* a change of the tables on disk, or of bits nobody needs
LEMMA KeepsSound ==
  ASSUME NEW v, Sound(v), NEW w, Typed(w), w.mem.inode = v.mem.inode, SameDevice(v, w),
         v.mem.datablock_bitmap \subseteq w.mem.datablock_bitmap
  PROVE  Sound(w) /\ SameFiles(v, w)
<1>1. \A i \in Inodes : SameFile(v, w, i)
  BY KeepsFile DEF SameDevice
<1>2. SameFiles(v, w) /\ Fits(w)
  BY <1>1 DEF SameFiles, Sound, Fits
<1>3. QED
  BY <1>2, KeepsBlocks DEF Sound

(***************************************************************************)
(* WriteFile() changes the data blocks of one file and nothing else.       *)
(***************************************************************************)
LEMMA WritesBlocks ==
  ASSUME NEW v, Sound(v), NEW i \in Inodes, NEW buf, NEW w, w = WriteFile(v, i, buf)
  PROVE  /\ Typed(w) /\ SameMem(v, w) /\ SameDisk(v, w)
         /\ \A k \in DataUses(v, i) : w.device[BlockAt(v, i, k)] = Block(buf, k)
         /\ \A b \in Blocks : (\A k \in DataUses(v, i) : b # BlockAt(v, i, k)) =>
              w.device[b] = v.device[b]
<1> DEFINE index == DatablockIndex(v, i)
           LastAt(b) == Max({k \in DOMAIN index : index[k] = b})
           dev == [b \in Blocks |->
                     IF b \in ToSet(index) THEN Block(buf, LastAt(b)) ELSE v.device[b]]
<1>1. w = [v EXCEPT !.device = dev]
  BY DEF WriteFile
<1>2. Typed(w) /\ SameMem(v, w) /\ SameDisk(v, w) /\ w.device = dev
  <2> HIDE DEF dev
  <2>1. QED
    BY <1>1 DEF Sound, Typed, SameMem, SameDisk
<1>3. ASSUME NEW k \in DataUses(v, i)
      PROVE  w.device[BlockAt(v, i, k)] = Block(buf, k)
  <2> DEFINE b == BlockAt(v, i, k)
  <2>1. b \in Blocks /\ b \in ToSet(index) /\ k \in Int
    BY DataBlocks, UsesBounds DEF DataUses
  <2>2. {l \in DOMAIN index : index[l] = b} = {k}
    <3>1. \A l \in DataUses(v, i) : BlockAt(v, i, l) = b => l = k
      BY UsesBounds DEF Sound, OwnsOnce
    <3>2. QED
      BY <3>1, DataBlocks
  <2>3. LastAt(b) = k
    <3>1. Max({k}) = k
      BY <2>1 DEF Max
    <3>2. QED
      BY <2>2, <3>1
  <2>4. dev[b] = Block(buf, LastAt(b))
    <3> HIDE DEF LastAt, index, b
    <3>1. QED
      BY <2>1
  <2>5. QED
    BY <1>2, <2>3, <2>4
<1>4. ASSUME NEW b \in Blocks, \A k \in DataUses(v, i) : b # BlockAt(v, i, k)
      PROVE  w.device[b] = v.device[b]
  <2>1. b \notin ToSet(index)
    BY <1>4, DataBlocks
  <2> HIDE DEF LastAt, index
  <2>2. QED
    BY <1>2, <2>1
<1>5. QED
  BY <1>2, <1>3, <1>4

\* only data blocks of file i are other ones
DataWritten(v, w, i) ==
  /\ Typed(w) /\ SameMem(v, w)
  /\ \A b \in Blocks : (\A k \in DataUses(v, i) : b # BlockAt(v, i, k)) =>
       w.device[b] = v.device[b]

LEMMA DataWrittenKeeps ==
  ASSUME NEW v, Sound(v), NEW i \in Inodes, NEW w, DataWritten(v, w, i)
  PROVE  /\ Sound(w) /\ SameFiles(v, w)
         /\ \A j \in Inodes, k \in Nat : j # i /\ k \in Uses(v, j) =>
              w.device[BlockAt(v, j, k)] = v.device[BlockAt(v, j, k)]
<1>1. /\ Typed(w) /\ w.mem = v.mem
      /\ \A b \in Blocks : (\A k \in DataUses(v, i) : b # BlockAt(v, i, k)) =>
           w.device[b] = v.device[b]
  BY DEF DataWritten, SameMem
<1>2. ASSUME NEW j \in Inodes, NEW k \in Uses(v, j), j # i \/ k \notin DataUses(v, i)
      PROVE  w.device[BlockAt(v, j, k)] = v.device[BlockAt(v, j, k)]
  <2>1. \A l \in DataUses(v, i) : BlockAt(v, j, k) # BlockAt(v, i, l)
    BY <1>2, UsesBounds DEF Sound, OwnsOnce
  <2>2. QED
    BY <1>1, <2>1, UsesBounds
<1>3. ASSUME NEW j \in Inodes
      PROVE  SameFile(v, w, j)
  <2>1. FirstIndex \notin DataUses(v, i) /\ SecondIndex \notin DataUses(v, i)
    BY UsesBounds, Constants
  <2>2. v.mem.inode[j].blocks_number > Direct =>
           /\ w.device[BlockAt(v, j, FirstIndex)] = v.device[BlockAt(v, j, FirstIndex)]
           /\ w.device[BlockAt(v, j, SecondIndex)] = v.device[BlockAt(v, j, SecondIndex)]
    BY <1>2, <2>1, UsesBounds
  <2>3. QED
    BY <1>1, <2>2, KeepsFile
<1>4. SameFiles(v, w) /\ Fits(w)
  BY <1>1, <1>3 DEF SameFiles, Sound, Fits
<1>5. Sound(w)
  BY <1>1, <1>4, KeepsBlocks DEF Sound
<1>6. QED
  BY <1>2, <1>4, <1>5

LEMMA WriteKeeps ==
  ASSUME NEW v, Sound(v), NEW i \in Inodes, NEW buf, NEW w, w = WriteFile(v, i, buf)
  PROVE  /\ Sound(w) /\ SameFiles(v, w)
         /\ \A j \in Inodes, k \in Nat : j # i /\ k \in Uses(v, j) =>
              w.device[BlockAt(v, j, k)] = v.device[BlockAt(v, j, k)]
<1>1. DataWritten(v, w, i)
  BY WritesBlocks DEF DataWritten
<1>2. QED
  BY <1>1, DataWrittenKeeps

-----------------------------------------------------------------------------
(***************************************************************************)
(* Directories: one block of entries, the first two for the directory      *)
(* above and the directory itself.                                         *)
(***************************************************************************)
Dirs(v) == {d \in Inodes : v.mem.inode[d].file_type = "DIRECTORY"}

EntryAt(v, d, k) == v.device[BlockAt(v, d, 1)][k]
Listed(v, d)     == 3..v.mem.inode[d].dentry_num

DirsFit(v) ==
  \A d \in Dirs(v) :
    /\ v.mem.inode[d].file_size = v.mem.inode[d].dentry_num
    /\ v.mem.inode[d].dentry_num \in 2..UnitsPerBlock

FirstTwo(v, d) == EntryAt(v, d, 1)[1] = ".." /\ EntryAt(v, d, 2)[1] = "."

EntriesOK(v, d) ==
  /\ FirstTwo(v, d)
  /\ \A k \in Listed(v, d) :
       EntryAt(v, d, k)[1] \in Names /\ EntryAt(v, d, k)[2] \in Inodes \ {Root}
  /\ \A k, l \in Listed(v, d) :
       EntryAt(v, d, k)[1] = EntryAt(v, d, l)[1] => k = l

Entries(v) ==
  UNION {{<<d, EntryAt(v, d, k)[1], EntryAt(v, d, k)[2]>> : k \in Listed(v, d)} : d \in Dirs(v)}

DirsOK(v) == /\ Root \in Dirs(v) /\ DirsFit(v)
             /\ \A d \in Dirs(v) : EntriesOK(v, d)

LEMMA EntryIn ==
  ASSUME NEW v, NEW d, NEW n, NEW i
  PROVE  <<d, n, i>> \in Entries(v) <=>
           /\ d \in Dirs(v)
           /\ \E k \in Listed(v, d) : EntryAt(v, d, k)[1] = n /\ EntryAt(v, d, k)[2] = i
BY DEF Entries

LEMMA EntryShape ==
  ASSUME NEW v, DirsOK(v), NEW e \in Entries(v)
  PROVE  /\ e = <<e[1], e[2], e[3]>>
         /\ e[1] \in Dirs(v) /\ e[1] \in Inodes /\ e[2] \in Names
         /\ e[3] \in Inodes \ {Root}
<1>1. PICK d \in Dirs(v) : \E k \in Listed(v, d) :
        e = <<d, EntryAt(v, d, k)[1], EntryAt(v, d, k)[2]>>
  BY DEF Entries
<1>2. PICK k \in Listed(v, d) : e = <<d, EntryAt(v, d, k)[1], EntryAt(v, d, k)[2]>>
  BY <1>1
<1>3. e = <<e[1], e[2], e[3]>> /\ e[1] = d
      /\ e[2] = EntryAt(v, d, k)[1] /\ e[3] = EntryAt(v, d, k)[2]
  BY <1>2
<1>4. EntryAt(v, d, k)[1] \in Names /\ EntryAt(v, d, k)[2] \in Inodes \ {Root}
  BY DEF DirsOK, EntriesOK
<1>5. QED
  BY <1>3, <1>4 DEF Dirs

\* a name of a directory leads to one file
LEMMA EntryUnique ==
  ASSUME NEW v, DirsOK(v), NEW d, NEW n, NEW i, NEW j,
         <<d, n, i>> \in Entries(v), <<d, n, j>> \in Entries(v)
  PROVE  i = j
<1>1. d \in Dirs(v) /\ EntriesOK(v, d)
  BY EntryIn DEF DirsOK
<1>2. PICK k \in Listed(v, d) : EntryAt(v, d, k)[1] = n /\ EntryAt(v, d, k)[2] = i
  BY EntryIn
<1>3. PICK l \in Listed(v, d) : EntryAt(v, d, l)[1] = n /\ EntryAt(v, d, l)[2] = j
  BY EntryIn
<1>4. k = l
  BY <1>1, <1>2, <1>3 DEF EntriesOK
<1>5. QED
  BY <1>2, <1>3, <1>4

\* a directory is one block
LEMMA DirIsBlock ==
  ASSUME NEW v, Sound(v), NEW d \in Inodes,
         v.mem.inode[d].file_size \in 1..UnitsPerBlock
  PROVE  /\ v.mem.inode[d].blocks_number = 1
         /\ DataUses(v, d) = {1} /\ Uses(v, d) = {1}
         /\ BlockAt(v, d, 1) \in Blocks
<1>1. BlocksNum(v.mem.inode[d].file_size) = 1
  <2>1. PICK s \in Nat : s = v.mem.inode[d].file_size /\ s >= 1 /\ s <= UnitsPerBlock
    BY Constants
  <2>2. (1 - 1) * UnitsPerBlock < s /\ s <= 1 * UnitsPerBlock
    BY <2>1, Constants
  <2>3. QED
    BY <2>1, <2>2, BlocksOfUnit
<1>2. v.mem.inode[d].blocks_number = 1
  BY <1>1 DEF Sound, Fits
<1>3. DataUses(v, d) = {1} /\ Uses(v, d) = {1}
  BY <1>2, Constants DEF DataUses, Uses
<1>4. QED
  BY <1>2, <1>3, UsesBounds

LEMMA ReadsDirectory ==
  ASSUME NEW v, Sound(v), NEW d \in Inodes,
         v.mem.inode[d].file_size \in 1..UnitsPerBlock,
         v.mem.inode[d].dentry_num \in 1..UnitsPerBlock
  PROVE  /\ Len(Directory(v, d)) = v.mem.inode[d].dentry_num
         /\ DOMAIN Directory(v, d) = 1..v.mem.inode[d].dentry_num
         /\ \A k \in 1..v.mem.inode[d].dentry_num : Directory(v, d)[k] = EntryAt(v, d, k)
         /\ \E S : Directory(v, d) \in Seq(S)
<1> DEFINE index == DatablockIndex(v, d)
           file == ReadFile(v, d)
<1>1. DOMAIN index = {1} /\ index[1] = BlockAt(v, d, 1) /\ Len(index) = 1
  <2>1. DOMAIN index = {1} /\ index[1] = BlockAt(v, d, 1)
    <3>1. DataUses(v, d) = {1}
      BY DirIsBlock
    <3>2. DOMAIN index = DataUses(v, d)
          /\ \A k \in DataUses(v, d) : index[k] = BlockAt(v, d, k)
      BY DataBlocks
    <3> HIDE DEF index
    <3>3. QED
      BY <3>1, <3>2
  <2>2. index \in Seq({index[1]})
    <3>1. index = [k \in 1..1 |-> index[1]]
      <4>1. v.mem.inode[d].blocks_number = 1
        BY DirIsBlock
      <4>2. QED
        BY <4>1, <2>1 DEF DatablockIndex
    <3>2. QED
      BY <3>1
  <2>3. QED
    BY <2>1, <2>2
<1>2. file = [u \in 1..1 * UnitsPerBlock |->
                v.device[index[BlocksNum(u)]][((u - 1) % UnitsPerBlock) + 1]]
  BY <1>1 DEF ReadFile
<1>3. ASSUME NEW u \in 1..UnitsPerBlock
      PROVE  file[u] = EntryAt(v, d, u)
  <2>1. BlocksNum(u) = 1
    <3>1. u \in Nat /\ (1 - 1) * UnitsPerBlock < u /\ u <= 1 * UnitsPerBlock
      BY Constants
    <3>2. QED
      BY <3>1, BlocksOfUnit
  <2>2. ((u - 1) % UnitsPerBlock) + 1 = u
    BY Constants, SMT
  <2>3. file[u] = v.device[index[BlocksNum(u)]][((u - 1) % UnitsPerBlock) + 1]
    BY <1>2, Constants
  <2>4. QED
    BY <1>1, <2>1, <2>2, <2>3 DEF EntryAt
<1>4. PICK m \in Nat : m = v.mem.inode[d].dentry_num /\ m \in 1..UnitsPerBlock
  BY Constants
<1>5. Directory(v, d) = SubSeq(file, 1, m)
  BY <1>4 DEF Directory
<1>6. /\ Len(SubSeq(file, 1, m)) = m
      /\ DOMAIN SubSeq(file, 1, m) = 1..m
      /\ \A k \in 1..m : SubSeq(file, 1, m)[k] = file[k]
      /\ SubSeq(file, 1, m) \in Seq({file[i] : i \in 1..m})
  <2>1. 1 <= m + 1 /\ m - 1 + 1 = m /\ \A k \in 1..m : 1 + k - 1 = k
    BY <1>4
  <2> HIDE DEF file
  <2>2. /\ Len(SubSeq(file, 1, m)) = m - 1 + 1
        /\ DOMAIN SubSeq(file, 1, m) = 1..(m - 1 + 1)
        /\ \A k \in 1..(m - 1 + 1) : SubSeq(file, 1, m)[k] = file[1 + k - 1]
        /\ SubSeq(file, 1, m) \in Seq({file[i] : i \in 1..m})
    BY <2>1, Cut
  <2>3. QED
    BY <2>1, <2>2
<1>7. \A k \in 1..m : k \in 1..UnitsPerBlock
  BY <1>4, Constants
<1> HIDE DEF file, index
<1>8. QED
  BY <1>3, <1>4, <1>5, <1>6, <1>7

\* looking up a name finds its only entry
LEMMA Finds ==
  ASSUME NEW v, Sound(v), DirsOK(v), NEW d \in Dirs(v), NEW n \in Names
  PROVE  /\ LookupDirectory(v, d, n) # -1 => <<d, n, LookupDirectory(v, d, n)>> \in Entries(v)
         /\ LookupDirectory(v, d, n) = -1 => \A i : <<d, n, i>> \notin Entries(v)
<1> DEFINE dir == Directory(v, d)
           at == {k \in DOMAIN dir : dir[k][1] = n}
<1>1. PICK m \in Nat : m = v.mem.inode[d].dentry_num /\ m \in 2..UnitsPerBlock
  <2>1. v.mem.inode[d].dentry_num \in 2..UnitsPerBlock
    BY DEF DirsOK, DirsFit
  <2>2. QED
    BY <2>1, Constants
<1>2. d \in Inodes /\ v.mem.inode[d].file_size \in 1..UnitsPerBlock /\ m \in 1..UnitsPerBlock
  <2>1. d \in Inodes
    BY DEF Dirs
  <2>2. v.mem.inode[d].file_size = m /\ m \in 2..UnitsPerBlock
    BY <1>1 DEF DirsOK, DirsFit
  <2>3. QED
    BY <2>1, <2>2, Constants
<1>3. DOMAIN dir = 1..m /\ \A k \in 1..m : dir[k] = EntryAt(v, d, k)
  BY <1>1, <1>2, ReadsDirectory
<1>4. at \subseteq 3..m
  <2>1. n # ".." /\ n # "."
    BY FileAssumption
  <2>2. dir[1][1] = ".." /\ dir[2][1] = "."
    BY <1>1, <1>3 DEF DirsOK, EntriesOK, FirstTwo
  <2>3. \A k \in 1..m : k = 1 \/ k = 2 \/ k \in 3..m
    BY <1>1
  <2> HIDE DEF dir
  <2>4. QED
    BY <1>3, <2>1, <2>2, <2>3
<1>5. LookupDirectory(v, d, n) = IF at = {} THEN -1 ELSE dir[Min(at)][2]
  BY DEF LookupDirectory
<1>6. CASE at = {}
  <2>1. \A k \in Listed(v, d) : EntryAt(v, d, k)[1] # n
    <3> SUFFICES ASSUME NEW k \in 3..m, EntryAt(v, d, k)[1] = n PROVE FALSE
      BY <1>1 DEF Listed
    <3>1. k \in DOMAIN dir /\ dir[k][1] = n
      BY <1>1, <1>3
    <3>2. QED
      BY <1>6, <3>1
  <2>2. QED
    BY <1>5, <1>6, <2>1, EntryIn
<1>7. CASE at # {}
  <2>1. at \in SUBSET Int /\ IsFiniteSet(at)
    <3> HIDE DEF at
    <3>1. IsFiniteSet(3..m)
      BY FS_Interval
    <3>2. at \in SUBSET (3..m)
      BY <1>4
    <3>3. IsFiniteSet(at)
      BY <3>1, <3>2, FS_Subset
    <3>4. QED
      BY <3>2, <3>3
  <2>2. PICK k \in at : k = Min(at)
    <3> HIDE DEF at
    <3>1. QED
      BY <1>7, <2>1, SmallestBit
  <2>3. /\ k \in 3..m /\ dir[k][1] = n /\ dir[k] = EntryAt(v, d, k)
        /\ LookupDirectory(v, d, n) = dir[k][2]
    BY <1>3, <1>4, <1>5, <1>7, <2>2
  <2>4. k \in Listed(v, d) /\ EntryAt(v, d, k)[1] = n
        /\ EntryAt(v, d, k)[2] = LookupDirectory(v, d, n)
    BY <1>1, <2>3 DEF Listed
  <2>5. LookupDirectory(v, d, n) # -1
    BY <2>4, Constants DEF DirsOK, EntriesOK
  <2>6. QED
    BY <2>4, <2>5, EntryIn
<1>8. QED
  BY <1>6, <1>7

-----------------------------------------------------------------------------
(***************************************************************************)
(* A directory written with other entries.                                 *)
(***************************************************************************)
SameContents(v, w, i) ==
  \A k \in Uses(v, i) : w.device[BlockAt(v, i, k)] = v.device[BlockAt(v, i, k)]

LEMMA Relisted ==
  ASSUME NEW v, Sound(v), NEW d \in Inodes, v.mem.inode[d].file_size \in 1..UnitsPerBlock,
         NEW m \in 1..UnitsPerBlock,
         NEW x, Typed(x), SameDevice(v, x),
         x.mem.datablock_bitmap = v.mem.datablock_bitmap,
         \A j \in Inodes : j # d => x.mem.inode[j] = v.mem.inode[j],
         x.mem.inode[d].file_size = m,
         x.mem.inode[d].blocks_number = BlocksNum(m),
         x.mem.inode[d].direct_block = v.mem.inode[d].direct_block,
         x.mem.inode[d].indirect_block = v.mem.inode[d].indirect_block,
         NEW buf, Len(buf) = m,
         NEW w, w = WriteFile(x, d, buf)
  PROVE  /\ Sound(w) /\ SameFiles(v, w) /\ SameMem(x, w) /\ SameDisk(x, w)
         /\ \A k \in 1..m : EntryAt(w, d, k) = buf[k]
         /\ \A j \in Inodes : j # d => SameContents(v, w, j)
<1>1. v.mem.inode[d].blocks_number = 1 /\ DataUses(v, d) = {1} /\ Uses(v, d) = {1}
      /\ BlockAt(v, d, 1) \in Blocks
  BY DirIsBlock
<1>2. BlocksNum(m) = 1
  <2>1. m \in Nat /\ (1 - 1) * UnitsPerBlock < m /\ m <= 1 * UnitsPerBlock
    BY Constants
  <2>2. QED
    BY <2>1, BlocksOfUnit
<1>3. \A j \in Inodes : SameFile(v, x, j)
  <2> SUFFICES ASSUME NEW j \in Inodes PROVE SameFile(v, x, j)
    OBVIOUS
  <2>1. /\ x.mem.inode[j].blocks_number = v.mem.inode[j].blocks_number
        /\ x.mem.inode[j].direct_block = v.mem.inode[j].direct_block
        /\ x.mem.inode[j].indirect_block = v.mem.inode[j].indirect_block
    BY <1>1, <1>2
  <2>2. QED
    BY <2>1, KeepsFile DEF SameDevice
<1>4. Sound(x)
  <2>1. MarksUsed(x) /\ OwnsOnce(x)
    BY <1>3, KeepsBlocks DEF SameFiles
  <2>2. Fits(x)
    <3> SUFFICES ASSUME NEW j \in Inodes
                 PROVE  /\ x.mem.inode[j].blocks_number = BlocksNum(x.mem.inode[j].file_size)
                        /\ x.mem.inode[j].blocks_number <= Most
      BY DEF Fits
    <3>1. CASE j = d
      BY <1>2, <3>1, Constants
    <3>2. CASE j # d
      BY <3>2 DEF Sound, Fits
    <3>3. QED
      BY <3>1, <3>2
  <2>3. QED
    BY <2>1, <2>2 DEF Sound
<1>5. /\ Sound(w) /\ SameFiles(x, w) /\ SameMem(x, w) /\ SameDisk(x, w)
      /\ \A j \in Inodes, k \in Nat : j # d /\ k \in Uses(x, j) =>
           w.device[BlockAt(x, j, k)] = x.device[BlockAt(x, j, k)]
      /\ \A k \in DataUses(x, d) : w.device[BlockAt(x, d, k)] = Block(buf, k)
  BY <1>4, WritesBlocks, WriteKeeps
<1>6. SameFiles(v, w)
  BY <1>3, <1>5 DEF SameFiles, SameFile
<1>7. \A k \in 1..m : EntryAt(w, d, k) = buf[k]
  <2>1. DataUses(x, d) = {1} /\ BlockAt(x, d, 1) = BlockAt(v, d, 1)
        /\ BlockAt(w, d, 1) = BlockAt(v, d, 1)
    BY <1>1, <1>2, <1>3, <1>6 DEF DataUses, SameFile, SameFiles
  <2>2. w.device[BlockAt(w, d, 1)] = Block(buf, 1)
    BY <1>5, <2>1
  <2>3. ASSUME NEW k \in 1..m
        PROVE  Block(buf, 1)[k] = buf[k]
    <3>1. k \in 1..UnitsPerBlock /\ (1 - 1) * UnitsPerBlock + k = k /\ k <= Len(buf)
      BY Constants
    <3>2. QED
      BY <3>1 DEF Block
  <2>4. QED
    BY <2>2, <2>3 DEF EntryAt
<1>8. ASSUME NEW j \in Inodes, j # d
      PROVE  SameContents(v, w, j)
  <2>1. \A k \in Uses(v, j) : k \in Nat /\ k \in Uses(x, j) /\ BlockAt(x, j, k) = BlockAt(v, j, k)
    BY <1>3, UsesBounds DEF SameFile
  <2>2. QED
    BY <1>5, <1>8, <2>1 DEF SameContents, SameDevice
<1>9. QED
  BY <1>5, <1>6, <1>7, <1>8

LEMMA EntryIsTriple ==
  ASSUME NEW v, NEW e \in Entries(v)
  PROVE  e = <<e[1], e[2], e[3]>>
<1>1. PICK d \in Dirs(v) : \E k \in Listed(v, d) :
        e = <<d, EntryAt(v, d, k)[1], EntryAt(v, d, k)[2]>>
  BY DEF Entries
<1>2. QED
  BY <1>1

\* other directories keep their entries
LEMMA OtherDirectory ==
  ASSUME NEW v, Sound(v), DirsFit(v), NEW w, NEW d \in Dirs(v),
         SameFiles(v, w), SameContents(v, w, d)
  PROVE  \A k : EntryAt(w, d, k) = EntryAt(v, d, k)
<1>1. d \in Inodes /\ v.mem.inode[d].file_size \in 1..UnitsPerBlock
  BY Constants DEF Dirs, DirsFit
<1>2. Uses(v, d) = {1}
  BY <1>1, DirIsBlock
<1>3. BlockAt(w, d, 1) = BlockAt(v, d, 1)
      /\ w.device[BlockAt(v, d, 1)] = v.device[BlockAt(v, d, 1)]
  BY <1>1, <1>2 DEF SameFiles, SameFile, SameContents
<1>4. QED
  BY <1>3 DEF EntryAt

(***************************************************************************)
(* One directory is listed anew, the others stay: the names differ in      *)
(* what the directory lists.                                               *)
(***************************************************************************)
OneRelisted(v, w, d) ==
  /\ Sound(w) /\ SameFiles(v, w)
  /\ \A j \in Inodes : j # d => SameContents(v, w, j)
  /\ w.mem.inode_bitmap = v.mem.inode_bitmap
  /\ w.mem.datablock_bitmap = v.mem.datablock_bitmap
  /\ w.disk.inode_bitmap = v.disk.inode_bitmap
  /\ w.disk.datablock_bitmap = v.disk.datablock_bitmap
  /\ w.disk.inode = w.mem.inode
  /\ \A j \in Inodes : j # d => w.mem.inode[j] = v.mem.inode[j]
  /\ w.mem.inode[d].file_type = v.mem.inode[d].file_type
  /\ w.mem.inode[d].links = v.mem.inode[d].links
  /\ w.mem.inode[d].file_size = w.mem.inode[d].dentry_num

LEMMA SmallRemainder ==
  ASSUME NEW a \in Nat, NEW b \in Nat, a < b
  PROVE  a % b = a
BY SMT

\* a directory with room in its block takes no other
LEMMA RoomInBlock ==
  ASSUME NEW v, DirsFit(v), NEW d \in Dirs(v), v.mem.inode[d].dentry_num < UnitsPerBlock
  PROVE  ~NeedsBlock(v, d)
<1>1. PICK m \in Nat : m = v.mem.inode[d].file_size /\ m \in 2..UnitsPerBlock
                       /\ m < UnitsPerBlock
  <2>1. v.mem.inode[d].file_size \in 2..UnitsPerBlock
        /\ v.mem.inode[d].file_size = v.mem.inode[d].dentry_num
    BY DEF DirsFit
  <2>2. QED
    BY <2>1, Constants
<1>2. m % UnitsPerBlock = m
  BY <1>1, SmallRemainder, Constants
<1>3. QED
  BY <1>1, <1>2 DEF NeedsBlock

-----------------------------------------------------------------------------
(***************************************************************************)
(* What the names of the volume are when a directory lists one name more   *)
(* or one name less.                                                       *)
(***************************************************************************)
EntryNum(v, d, m) == m = v.mem.inode[d].dentry_num

SameListing(v, w, c) ==
  /\ w.mem.inode[c].file_size = v.mem.inode[c].file_size
  /\ w.mem.inode[c].dentry_num = v.mem.inode[c].dentry_num
  /\ \A k : EntryAt(w, c, k) = EntryAt(v, c, k)

LEMMA SameListingKeeps ==
  ASSUME NEW v, DirsOK(v), NEW w, NEW c \in Dirs(v), SameListing(v, w, c)
  PROVE  /\ EntriesOK(w, c) /\ Listed(w, c) = Listed(v, c)
         /\ w.mem.inode[c].file_size = w.mem.inode[c].dentry_num
         /\ w.mem.inode[c].dentry_num \in 2..UnitsPerBlock
<1>1. Listed(w, c) = Listed(v, c)
  BY DEF Listed, SameListing
<1>2. EntriesOK(v, c)
  BY DEF DirsOK
<1>3. EntriesOK(w, c)
  BY <1>1, <1>2 DEF EntriesOK, FirstTwo, SameListing
<1>4. QED
  BY <1>1, <1>3 DEF SameListing, DirsOK, DirsFit

LEMMA ListsOneMore ==
  ASSUME NEW v, DirsOK(v), NEW w, NEW d \in Dirs(v),
         NEW m \in Nat, EntryNum(v, d, m), m < UnitsPerBlock,
         Dirs(v) \subseteq Dirs(w),
         \A c \in Dirs(w) \ Dirs(v) :
           w.mem.inode[c].file_size = 2 /\ w.mem.inode[c].dentry_num = 2 /\ FirstTwo(w, c),
         \A c \in Dirs(v) : c # d => SameListing(v, w, c),
         w.mem.inode[d].file_size = m + 1, w.mem.inode[d].dentry_num = m + 1,
         NEW n \in Names, NEW i \in Inodes \ {Root},
         \A k \in 1..m : EntryAt(w, d, k) = EntryAt(v, d, k),
         EntryAt(w, d, m + 1) = <<n, i>>,
         \A j : <<d, n, j>> \notin Entries(v)
  PROVE  DirsOK(w) /\ Entries(w) = Entries(v) \cup {<<d, n, i>>}
<1> USE DEF EntryNum
<1>0. m \in 2..UnitsPerBlock /\ UnitsPerBlock \in Nat /\ UnitsPerBlock >= 2
  BY Constants DEF DirsOK, DirsFit
<1>1. /\ Listed(v, d) = 3..m /\ Listed(w, d) = 3..(m + 1)
      /\ Listed(w, d) = Listed(v, d) \cup {m + 1} /\ m + 1 \notin Listed(v, d)
  BY <1>0 DEF Listed
<1>2. \A k \in Listed(v, d) : EntryAt(w, d, k) = EntryAt(v, d, k)
  BY <1>0, <1>1, SMTT(30)
<1>3. EntryAt(w, d, m + 1)[1] = n /\ EntryAt(w, d, m + 1)[2] = i
  OBVIOUS
<1>4. \A k \in Listed(v, d) : EntryAt(v, d, k)[1] # n
  <2> SUFFICES ASSUME NEW k \in Listed(v, d), EntryAt(v, d, k)[1] = n PROVE FALSE
    OBVIOUS
  <2>1. <<d, n, EntryAt(v, d, k)[2]>> \in Entries(v)
    BY EntryIn
  <2>2. QED
    BY <2>1
<1>5. EntriesOK(v, d)
  BY DEF DirsOK
<1>6. EntriesOK(w, d)
  <2>1. FirstTwo(w, d)
    BY <1>0, <1>5 DEF EntriesOK, FirstTwo
  <2>2. \A k \in Listed(w, d) : EntryAt(w, d, k)[1] \in Names
                                /\ EntryAt(w, d, k)[2] \in Inodes \ {Root}
    BY <1>1, <1>2, <1>3, <1>5 DEF EntriesOK
  <2>3. ASSUME NEW k \in Listed(w, d), NEW l \in Listed(w, d),
               EntryAt(w, d, k)[1] = EntryAt(w, d, l)[1]
        PROVE  k = l
    BY <1>1, <1>2, <1>3, <1>4, <1>5, <2>3 DEF EntriesOK
  <2>4. QED
    BY <2>1, <2>2, <2>3 DEF EntriesOK
<1>7. \A c \in Dirs(w) \ Dirs(v) : Listed(w, c) = {} /\ EntriesOK(w, c)
  <2> SUFFICES ASSUME NEW c \in Dirs(w) \ Dirs(v)
               PROVE  Listed(w, c) = {} /\ EntriesOK(w, c)
    OBVIOUS
  <2>1. Listed(w, c) = {}
    BY DEF Listed
  <2>2. QED
    BY <2>1 DEF EntriesOK
<1>8. DirsOK(w)
  <2>1. \A c \in Dirs(w) : EntriesOK(w, c)
    BY <1>6, <1>7, SameListingKeeps
  <2>2. DirsFit(w)
    <3> SUFFICES ASSUME NEW c \in Dirs(w)
                 PROVE  /\ w.mem.inode[c].file_size = w.mem.inode[c].dentry_num
                        /\ w.mem.inode[c].dentry_num \in 2..UnitsPerBlock
      BY DEF DirsFit
    <3>1. CASE c = d
      BY <1>0, <3>1
    <3>2. CASE c # d /\ c \in Dirs(v)
      BY <3>2, SameListingKeeps
    <3>3. CASE c \notin Dirs(v)
      BY <1>0, <3>3
    <3>4. QED
      BY <3>1, <3>2, <3>3
  <2>3. QED
    BY <2>1, <2>2 DEF DirsOK
<1>9. ASSUME NEW c, NEW o, NEW j
      PROVE  <<c, o, j>> \in Entries(w) <=>
               <<c, o, j>> \in Entries(v) \/ (c = d /\ o = n /\ j = i)
  <2>1. CASE c = d
    <3>1. d \in Dirs(w)
      OBVIOUS
    <3>2. (\E k \in Listed(w, d) : EntryAt(w, d, k)[1] = o /\ EntryAt(w, d, k)[2] = j)
          <=> \/ \E k \in Listed(v, d) : EntryAt(v, d, k)[1] = o /\ EntryAt(v, d, k)[2] = j
              \/ o = n /\ j = i
      BY <1>1, <1>2, <1>3
    <3>3. QED
      BY <2>1, <3>1, <3>2, EntryIn
  <2>2. CASE c # d /\ c \in Dirs(v)
    <3>1. Listed(w, c) = Listed(v, c) /\ \A k : EntryAt(w, c, k) = EntryAt(v, c, k)
      BY <2>2, SameListingKeeps DEF SameListing
    <3>2. QED
      BY <2>2, <3>1, EntryIn
  <2>3. CASE c \notin Dirs(v)
    <3>1. <<c, o, j>> \notin Entries(v) /\ c # d
      BY <2>3, EntryIn
    <3>2. <<c, o, j>> \notin Entries(w)
      BY <1>7, <2>3, EntryIn
    <3>3. QED
      BY <3>1, <3>2
  <2>4. QED
    BY <2>1, <2>2, <2>3
<1>10. Entries(w) = Entries(v) \cup {<<d, n, i>>}
  <2>1. ASSUME NEW e \in Entries(w)
        PROVE  e \in Entries(v) \cup {<<d, n, i>>}
    <3>1. e = <<e[1], e[2], e[3]>>
      BY EntryIsTriple
    <3>2. <<e[1], e[2], e[3]>> \in Entries(w)
      BY <3>1
    <3>3. <<e[1], e[2], e[3]>> \in Entries(v) \/ (e[1] = d /\ e[2] = n /\ e[3] = i)
      BY <1>9, <3>2
    <3>4. QED
      BY <3>1, <3>3
  <2>2. ASSUME NEW e \in Entries(v)
        PROVE  e \in Entries(w)
    <3>1. e = <<e[1], e[2], e[3]>>
      BY EntryIsTriple
    <3>2. <<e[1], e[2], e[3]>> \in Entries(v)
      BY <3>1
    <3>3. <<e[1], e[2], e[3]>> \in Entries(w)
      BY <1>9, <3>2
    <3>4. QED
      BY <3>1, <3>3
  <2>3. <<d, n, i>> \in Entries(w)
    BY <1>9
  <2>4. QED
    BY <2>1, <2>2, <2>3
<1>11. QED
  BY <1>8, <1>10

LEMMA ListsOneLess ==
  ASSUME NEW v, DirsOK(v), NEW w, NEW d \in Dirs(v),
         NEW m \in Nat, EntryNum(v, d, m), NEW g \in 3..m,
         Dirs(w) = Dirs(v),
         \A c \in Dirs(v) : c # d => SameListing(v, w, c),
         w.mem.inode[d].file_size = m - 1, w.mem.inode[d].dentry_num = m - 1,
         \A k \in 1..m - 1 :
           EntryAt(w, d, k) = IF k < g THEN EntryAt(v, d, k) ELSE EntryAt(v, d, k + 1)
  PROVE  /\ DirsOK(w)
         /\ Entries(w) = Entries(v) \ {<<d, EntryAt(v, d, g)[1], EntryAt(v, d, g)[2]>>}
<1> USE DEF EntryNum
<1> DEFINE n == EntryAt(v, d, g)[1]
           i == EntryAt(v, d, g)[2]
           from(k) == IF k < g THEN k ELSE k + 1
<1>0. m \in 3..UnitsPerBlock /\ UnitsPerBlock \in Nat
  <2>1. m \in 2..UnitsPerBlock
    BY DEF DirsOK, DirsFit
  <2>2. QED
    BY <2>1, Constants
<1>1. Listed(v, d) = 3..m /\ Listed(w, d) = 3..(m - 1) /\ g \in Listed(v, d)
  BY DEF Listed
<1>2. \A k \in Listed(w, d) : /\ from(k) \in Listed(v, d) /\ from(k) # g
                              /\ EntryAt(w, d, k) = EntryAt(v, d, from(k))
  BY <1>0, <1>1
<1>3. \A k, l \in Listed(w, d) : from(k) = from(l) => k = l
  BY <1>1
<1>4. \A k \in Listed(v, d) : k # g => \E l \in Listed(w, d) : from(l) = k
  <2> SUFFICES ASSUME NEW k \in Listed(v, d), k # g
               PROVE  \E l \in Listed(w, d) : from(l) = k
    OBVIOUS
  <2>1. CASE k < g
    <3>1. k \in Listed(w, d) /\ from(k) = k
      BY <1>1, <2>1
    <3>2. QED
      BY <3>1
  <2>2. CASE k > g
    <3>1. k - 1 \in Listed(w, d) /\ from(k - 1) = k
      BY <1>1, <2>2
    <3>2. QED
      BY <3>1
  <2>3. QED
    BY <1>1, <2>1, <2>2
<1> HIDE DEF from
<1>5. EntriesOK(v, d)
  BY DEF DirsOK
<1>6. EntriesOK(w, d)
  <2>1. FirstTwo(w, d)
    BY <1>0, <1>5 DEF EntriesOK, FirstTwo
  <2>2. \A k \in Listed(w, d) : EntryAt(w, d, k)[1] \in Names
                                /\ EntryAt(w, d, k)[2] \in Inodes \ {Root}
    BY <1>2, <1>5 DEF EntriesOK
  <2>3. ASSUME NEW k \in Listed(w, d), NEW l \in Listed(w, d),
               EntryAt(w, d, k)[1] = EntryAt(w, d, l)[1]
        PROVE  k = l
    BY <1>2, <1>3, <1>5, <2>3 DEF EntriesOK
  <2>4. QED
    BY <2>1, <2>2, <2>3 DEF EntriesOK
<1>7. DirsOK(w)
  <2>1. \A c \in Dirs(w) : EntriesOK(w, c)
    BY <1>6, SameListingKeeps
  <2>2. DirsFit(w)
    <3> SUFFICES ASSUME NEW c \in Dirs(w)
                 PROVE  /\ w.mem.inode[c].file_size = w.mem.inode[c].dentry_num
                        /\ w.mem.inode[c].dentry_num \in 2..UnitsPerBlock
      BY DEF DirsFit
    <3>1. CASE c = d
      BY <1>0, <3>1
    <3>2. CASE c # d
      BY <3>2, SameListingKeeps
    <3>3. QED
      BY <3>1, <3>2
  <2>3. QED
    BY <2>1, <2>2 DEF DirsOK
<1>8. ASSUME NEW c, NEW o, NEW j
      PROVE  <<c, o, j>> \in Entries(w) <=>
               <<c, o, j>> \in Entries(v) /\ ~(c = d /\ o = n /\ j = i)
  <2>1. CASE c = d
    <3>1. ASSUME NEW k \in Listed(w, d), EntryAt(w, d, k)[1] = o, EntryAt(w, d, k)[2] = j
          PROVE  <<d, o, j>> \in Entries(v) /\ o # n
      <4>1. EntryAt(v, d, from(k))[1] = o /\ EntryAt(v, d, from(k))[2] = j
            /\ from(k) \in Listed(v, d) /\ from(k) # g
        BY <1>2, <3>1
      <4>2. QED
        BY <1>1, <1>5, <4>1, EntryIn DEF EntriesOK
    <3>2. ASSUME NEW k \in Listed(v, d), EntryAt(v, d, k)[1] = o, EntryAt(v, d, k)[2] = j,
                 ~(o = n /\ j = i)
          PROVE  <<d, o, j>> \in Entries(w)
      <4>1. k # g
        BY <3>2
      <4>2. PICK l \in Listed(w, d) : from(l) = k
        BY <1>4, <4>1
      <4>3. EntryAt(w, d, l)[1] = o /\ EntryAt(w, d, l)[2] = j
        BY <1>2, <3>2, <4>2
      <4>4. QED
        BY <4>3, EntryIn
    <3>3. QED
      BY <2>1, <3>1, <3>2, EntryIn
  <2>2. CASE c # d /\ c \in Dirs(v)
    <3>1. Listed(w, c) = Listed(v, c) /\ \A k : EntryAt(w, c, k) = EntryAt(v, c, k)
      BY <2>2, SameListingKeeps DEF SameListing
    <3>2. QED
      BY <2>2, <3>1, EntryIn
  <2>3. CASE c \notin Dirs(v)
    BY <2>3, EntryIn
  <2>4. QED
    BY <2>1, <2>2, <2>3
<1>9. Entries(w) = Entries(v) \ {<<d, n, i>>}
  <2> HIDE DEF n, i
  <2>1. ASSUME NEW e \in Entries(w)
        PROVE  e \in Entries(v) /\ e # <<d, n, i>>
    <3>1. e = <<e[1], e[2], e[3]>>
      BY EntryIsTriple
    <3>2. <<e[1], e[2], e[3]>> \in Entries(w)
      BY <3>1
    <3>3. <<e[1], e[2], e[3]>> \in Entries(v) /\ ~(e[1] = d /\ e[2] = n /\ e[3] = i)
      BY <1>8, <3>2
    <3>4. QED
      BY <3>1, <3>3
  <2>2. ASSUME NEW e \in Entries(v), e # <<d, n, i>>
        PROVE  e \in Entries(w)
    <3>1. e = <<e[1], e[2], e[3]>>
      BY EntryIsTriple
    <3>2. <<e[1], e[2], e[3]>> \in Entries(v) /\ ~(e[1] = d /\ e[2] = n /\ e[3] = i)
      BY <2>2, <3>1
    <3>3. <<e[1], e[2], e[3]>> \in Entries(w)
      BY <1>8, <3>2
    <3>4. QED
      BY <3>1, <3>3
  <2>3. QED
    BY <2>1, <2>2
<1>10. QED
  BY <1>7, <1>9

-----------------------------------------------------------------------------
(***************************************************************************)
(* add_dentry_in_directory_by_inode() and its counterpart.                 *)
(***************************************************************************)
\* the inode of a directory, or of a file, of the given size
Resized(n, size, dentries) ==
  [n EXCEPT !.file_size = size, !.dentry_num = dentries, !.blocks_number = BlocksNum(size)]

LEMMA ResizedType ==
  ASSUME NEW n \in InodeType, NEW size \in Nat, NEW m \in Nat
  PROVE  /\ Resized(n, size, m) \in InodeType
         /\ Resized(n, size, m).file_size = size /\ Resized(n, size, m).dentry_num = m
         /\ Resized(n, size, m).blocks_number = BlocksNum(size)
         /\ Resized(n, size, m).file_type = n.file_type /\ Resized(n, size, m).links = n.links
         /\ Resized(n, size, m).direct_block = n.direct_block
         /\ Resized(n, size, m).indirect_block = n.indirect_block
<1>1. BlocksNum(size) \in Nat
  BY BlocksFit
<1>2. QED
  BY <1>1 DEF Resized, InodeType

LEMMA Enters ==
  ASSUME NEW v, NEW d, NEW n, NEW i
  PROVE  Enter(v, d, n, i)[2] = Append(Directory(v, d), <<n, i>>)
BY DEF Enter

Longer(v, d, x)  == Append(Directory(v, d), x)
Shorter(v, d, g) == RemoveAt(Directory(v, d), g)

\* the entries of a directory with one more at the end
LEMMA OneMoreEntry ==
  ASSUME NEW v, Sound(v), NEW d \in Inodes,
         v.mem.inode[d].file_size \in 1..UnitsPerBlock,
         v.mem.inode[d].dentry_num \in 1..UnitsPerBlock,
         NEW m \in Nat, EntryNum(v, d, m), NEW x
  PROVE  /\ Len(Longer(v, d, x)) = m + 1 /\ Longer(v, d, x)[m + 1] = x
         /\ \A k \in 1..m : Longer(v, d, x)[k] = EntryAt(v, d, k)
<1> USE DEF EntryNum
<1> DEFINE dir == Directory(v, d)
<1>1. PICK S : dir \in Seq(S)
  BY ReadsDirectory
<1>2. Len(dir) = m /\ \A k \in 1..m : dir[k] = EntryAt(v, d, k)
  BY ReadsDirectory
<1> HIDE DEF dir
<1>4. dir \in Seq(S \cup {x}) /\ x \in S \cup {x}
  BY <1>1, SeqMonotonic
<1>5. /\ Len(Append(dir, x)) = Len(dir) + 1
      /\ \A k \in 1..Len(dir) : Append(dir, x)[k] = dir[k]
      /\ Append(dir, x)[Len(dir) + 1] = x
  BY <1>4, AppendProperties
<1>6. /\ Len(Append(dir, x)) = m + 1 /\ Append(dir, x)[m + 1] = x
      /\ \A k \in 1..m : Append(dir, x)[k] = EntryAt(v, d, k)
  BY <1>2, <1>5
<1>7. QED
  BY <1>6 DEF dir, Longer

\* a sequence of m members without the one at g
LEMMA LeavesOut ==
  ASSUME NEW s, NEW m \in Nat, Len(s) = m, NEW g \in 1..m
  PROVE  /\ Len(RemoveAt(s, g)) = m - 1
         /\ \A k \in 1..m - 1 : RemoveAt(s, g)[k] = IF k < g THEN s[k] ELSE s[k + 1]
<1>0. g \in Int /\ 1 <= g /\ g <= m
  OBVIOUS
<1>1. PICK h \in Int : h = g + 1
  OBVIOUS
<1>2. PICK f \in Nat : f = g - 1
  BY <1>0
<1> DEFINE a == SubSeq(s, 1, f)
           b == SubSeq(s, h, m)
<1> DEFINE A == {s[k] : k \in 1..f}
           B == {s[k] : k \in h..m}
<1>3. a \in Seq(A) /\ Len(a) = f /\ \A k \in 1..f : a[k] = s[k]
  <2>1. 1 <= f + 1 /\ f - 1 + 1 = f /\ \A k \in 1..f : 1 + k - 1 = k
    OBVIOUS
  <2>2. \A k \in 1..f : s[k] \in A
    OBVIOUS
  <2> HIDE DEF A
  <2>3. /\ a \in Seq(A) /\ Len(a) = IF 1 <= f THEN f - 1 + 1 ELSE 0
        /\ \A k \in 1..(f - 1 + 1) : a[k] = s[1 + k - 1]
    BY <2>2, SubSeqProperties
  <2>4. QED
    BY <2>1, <2>3
<1>4. b \in Seq(B) /\ Len(b) = m - g /\ \A k \in 1..m - g : b[k] = s[g + k]
  <2>1. m \in Int /\ h <= m + 1 /\ m - h + 1 = m - g
        /\ \A k \in 1..m - g : h + k - 1 = g + k
    BY <1>0, <1>1
  <2>2. \A k \in h..m : s[k] \in B
    OBVIOUS
  <2> HIDE DEF B
  <2>3. /\ b \in Seq(B) /\ Len(b) = IF h <= m THEN m - h + 1 ELSE 0
        /\ \A k \in 1..(m - h + 1) : b[k] = s[h + k - 1]
    BY <2>1, <2>2, SubSeqProperties
  <2>4. QED
    BY <1>0, <1>1, <2>1, <2>3
<1> HIDE DEF a, b
<1>5. a \in Seq(A \cup B) /\ b \in Seq(A \cup B)
  <2> HIDE DEF A, B
  <2>1. A \subseteq A \cup B /\ B \subseteq A \cup B
    OBVIOUS
  <2>2. QED
    BY <1>3, <1>4, <2>1, SeqMonotonic
<1>6. /\ Len(a \o b) = Len(a) + Len(b)
      /\ \A k \in 1..Len(a) + Len(b) :
           (a \o b)[k] = IF k <= Len(a) THEN a[k] ELSE b[k - Len(a)]
  <2> HIDE DEF A, B
  <2>1. QED
    BY <1>5, ConcatProperties
<1>7. Len(a) = f /\ Len(b) = m - g /\ Len(a) + Len(b) = m - 1
  BY <1>0, <1>2, <1>3, <1>4
<1>8. ASSUME NEW k \in 1..m - 1
      PROVE  (a \o b)[k] = IF k < g THEN s[k] ELSE s[k + 1]
  <2>1. (a \o b)[k] = IF k <= f THEN a[k] ELSE b[k - f]
    BY <1>6, <1>7
  <2>2. CASE k < g
    <3>1. k \in 1..f /\ k <= f
      BY <1>0, <1>2, <2>2
    <3>2. QED
      BY <1>3, <2>1, <2>2, <3>1
  <2>3. CASE ~(k < g)
    <3>1. k - f \in 1..m - g /\ g + (k - f) = k + 1 /\ ~(k <= f)
      BY <1>0, <1>2, <2>3
    <3>2. PICK l \in 1..m - g : l = k - f /\ g + l = k + 1
      BY <3>1
    <3>3. QED
      BY <1>4, <2>1, <2>3, <3>1, <3>2
  <2>4. QED
    BY <2>2, <2>3
<1>9. a \o b = RemoveAt(s, g)
  BY <1>1, <1>2 DEF a, b, RemoveAt
<1>10. Len(a \o b) = m - 1
  BY <1>6, <1>7
<1>11. QED
  BY <1>8, <1>9, <1>10

LEMMA OneEntryLess ==
  ASSUME NEW v, Sound(v), NEW d \in Inodes,
         v.mem.inode[d].file_size \in 1..UnitsPerBlock,
         v.mem.inode[d].dentry_num \in 1..UnitsPerBlock,
         NEW m \in Nat, EntryNum(v, d, m), NEW g \in 1..m
  PROVE  /\ Len(Shorter(v, d, g)) = m - 1
         /\ \A k \in 1..m - 1 : Shorter(v, d, g)[k] =
              IF k < g THEN EntryAt(v, d, k) ELSE EntryAt(v, d, k + 1)
<1> USE DEF EntryNum
<1> DEFINE dir == Directory(v, d)
<1>1. Len(dir) = m /\ \A k \in 1..m : dir[k] = EntryAt(v, d, k)
  BY ReadsDirectory
<1> HIDE DEF dir
<1>3. /\ Len(RemoveAt(dir, g)) = m - 1
      /\ \A k \in 1..m - 1 : RemoveAt(dir, g)[k] = IF k < g THEN dir[k] ELSE dir[k + 1]
  BY <1>1, LeavesOut
<1>4. \A k \in 1..m - 1 : k \in 1..m /\ k + 1 \in 1..m
  OBVIOUS
<1>5. /\ Len(RemoveAt(dir, g)) = m - 1
      /\ \A k \in 1..m - 1 :
           RemoveAt(dir, g)[k] = IF k < g THEN EntryAt(v, d, k) ELSE EntryAt(v, d, k + 1)
  BY <1>1, <1>3, <1>4
<1>6. QED
  BY <1>5 DEF dir, Shorter

\* what the numbers of a directory with room are
LEMMA HasRoom ==
  ASSUME NEW v, Sound(v), DirsOK(v), NEW d \in Dirs(v),
         v.mem.inode[d].dentry_num < UnitsPerBlock
  PROVE  \E m, l \in Nat :
           /\ m = v.mem.inode[d].dentry_num /\ m = v.mem.inode[d].file_size /\ l = m + 1
           /\ m \in 1..UnitsPerBlock /\ l \in 1..UnitsPerBlock /\ 2 <= m
           /\ m < UnitsPerBlock /\ d \in Inodes
<1>1. d \in Inodes /\ v.mem.inode[d].dentry_num \in 2..UnitsPerBlock
      /\ v.mem.inode[d].file_size = v.mem.inode[d].dentry_num
  BY DEF DirsOK, DirsFit, Dirs
<1>2. PICK m \in Nat : m = v.mem.inode[d].dentry_num
  BY <1>1
<1>3. m \in 1..UnitsPerBlock /\ m + 1 \in 1..UnitsPerBlock /\ m < UnitsPerBlock /\ 2 <= m
  BY <1>1, <1>2, Constants
<1>4. PICK l \in Nat : l = m + 1
  OBVIOUS
<1>5. QED
  BY <1>1, <1>2, <1>3, <1>4

LEMMA AddsDentry ==
  ASSUME NEW v, Sound(v), DirsOK(v), NEW d \in Dirs(v),
         v.mem.inode[d].dentry_num < UnitsPerBlock,
         NEW n \in Names, NEW i \in Inodes \ {Root}, \A j : <<d, n, j>> \notin Entries(v),
         NEW w, w = AddDentry(v, d, n, i)
  PROVE  OneRelisted(v, w, d) /\ DirsOK(w) /\ Entries(w) = Entries(v) \cup {<<d, n, i>>}
<1>1. PICK m, l \in Nat :
        /\ m = v.mem.inode[d].dentry_num /\ m = v.mem.inode[d].file_size /\ l = m + 1
        /\ m \in 1..UnitsPerBlock /\ l \in 1..UnitsPerBlock /\ 2 <= m
        /\ m < UnitsPerBlock /\ d \in Inodes
  BY HasRoom
<1>2. Typed(v) /\ DirsFit(v)
  BY DEF Sound, DirsOK
<1> DEFINE x1 == Enter(v, d, n, i)[1]
           x == WriteInodeTable(x1)
           buf == Enter(v, d, n, i)[2]
           r == Resized(v.mem.inode[d], l, l)
<1>3. w = WriteFile(x, d, buf)
  <2>1. ~NeedsBlock(v, d)
    BY <1>2, RoomInBlock
  <2>2. QED
    BY <2>1 DEF AddDentry
<1>4. /\ Typed(x1) /\ SameBitmaps(v, x1) /\ SameDisk(v, x1) /\ SameDevice(v, x1)
      /\ x1.mem.inode[d] = r
      /\ \A j \in Inodes : j # d => x1.mem.inode[j] = v.mem.inode[j]
  <2>1. x1 = WithInode(v, d, r)
    <3>1. x1 = WithInode(v, d, Resized(v.mem.inode[d], v.mem.inode[d].file_size + 1,
                                       v.mem.inode[d].dentry_num + 1))
      BY DEF Enter, Resized, WithInode
    <3>2. v.mem.inode[d].file_size + 1 = l /\ v.mem.inode[d].dentry_num + 1 = l
      BY <1>1
    <3>3. QED
      BY <3>1, <3>2, Zenon
  <2> HIDE DEF x1, r
  <2>2. r \in InodeType
    BY <1>1, <1>2, InodeTypes, ResizedType DEF r
  <2>3. QED
    BY <1>1, <1>2, <2>1, <2>2, SetsInode
<1>5. /\ Typed(x) /\ SameMem(x1, x) /\ SameDevice(x1, x)
      /\ x.disk.inode = x1.mem.inode
      /\ x.disk.inode_bitmap = x1.disk.inode_bitmap
      /\ x.disk.datablock_bitmap = x1.disk.datablock_bitmap
  <2> HIDE DEF x1
  <2>1. QED
    BY <1>4, SavesInodes
<1>6. /\ Len(buf) = l /\ buf[l] = <<n, i>>
      /\ \A k \in 1..m : buf[k] = EntryAt(v, d, k)
  <2>1. buf = Append(Directory(v, d), <<n, i>>)
    BY Enters
  <2> DEFINE e == <<n, i>>
  <2> HIDE DEF buf, e
  <2>2. buf = Longer(v, d, e)
    BY <2>1 DEF e, Longer
  <2>3. /\ EntryNum(v, d, m)
        /\ d \in Inodes /\ v.mem.inode[d].file_size \in 1..UnitsPerBlock
        /\ v.mem.inode[d].dentry_num \in 1..UnitsPerBlock
    BY <1>1 DEF EntryNum
  <2>4. /\ Len(buf) = m + 1 /\ buf[m + 1] = e
        /\ \A k \in 1..m : buf[k] = EntryAt(v, d, k)
    BY <2>2, <2>3, OneMoreEntry
  <2>5. QED
    BY <1>1, <2>4 DEF e
<1>7. /\ r.file_size = l /\ r.dentry_num = l /\ r.blocks_number = BlocksNum(l)
      /\ r.file_type = v.mem.inode[d].file_type /\ r.links = v.mem.inode[d].links
      /\ r.direct_block = v.mem.inode[d].direct_block
      /\ r.indirect_block = v.mem.inode[d].indirect_block
  <2>1. v.mem.inode[d] \in InodeType
    BY <1>1, <1>2, InodeTypes
  <2>2. QED
    BY <2>1, ResizedType
<1> HIDE DEF x, x1, buf, r
<1>8. /\ SameDevice(v, x) /\ x.mem.datablock_bitmap = v.mem.datablock_bitmap
      /\ x.mem.inode_bitmap = v.mem.inode_bitmap
      /\ x.mem.inode[d] = r
      /\ \A j \in Inodes : j # d => x.mem.inode[j] = v.mem.inode[j]
  BY <1>4, <1>5 DEF SameDevice, SameMem, SameBitmaps
<1>9. /\ Sound(w) /\ SameFiles(v, w) /\ SameMem(x, w) /\ SameDisk(x, w)
      /\ \A k \in 1..l : EntryAt(w, d, k) = buf[k]
      /\ \A j \in Inodes : j # d => SameContents(v, w, j)
  <2>1. /\ d \in Inodes /\ v.mem.inode[d].file_size \in 1..UnitsPerBlock
        /\ l \in 1..UnitsPerBlock /\ Typed(x) /\ SameDevice(v, x) /\ Len(buf) = l
    BY <1>1, <1>5, <1>6, <1>8
  <2>2. /\ x.mem.inode[d].file_size = l /\ x.mem.inode[d].blocks_number = BlocksNum(l)
        /\ x.mem.inode[d].direct_block = v.mem.inode[d].direct_block
        /\ x.mem.inode[d].indirect_block = v.mem.inode[d].indirect_block
    BY <1>7, <1>8
  <2>3. QED
    BY <1>3, <1>8, <2>1, <2>2, Relisted
<1>10. OneRelisted(v, w, d)
  BY <1>4, <1>5, <1>7, <1>8, <1>9 DEF OneRelisted, SameMem, SameDisk
<1>11. /\ \A k \in 1..m : EntryAt(w, d, k) = EntryAt(v, d, k)
       /\ EntryAt(w, d, l) = <<n, i>>
  <2>1. l \in 1..l /\ \A k \in 1..m : k \in 1..l
    BY <1>1
  <2>2. QED
    BY <1>6, <1>9, <2>1
<1>12. \A c \in Dirs(v) : c # d => SameListing(v, w, c)
  <2> SUFFICES ASSUME NEW c \in Dirs(v), c # d
               PROVE  SameListing(v, w, c)
    OBVIOUS
  <2>1. c \in Inodes /\ SameContents(v, w, c) /\ w.mem.inode[c] = v.mem.inode[c]
    BY <1>8, <1>9 DEF Dirs, SameMem
  <2>2. \A k : EntryAt(w, c, k) = EntryAt(v, c, k)
    BY <1>2, <1>9, <2>1, OtherDirectory
  <2>3. QED
    BY <2>1, <2>2 DEF SameListing
<1>13. Dirs(w) = Dirs(v)
  BY <1>10 DEF OneRelisted, Dirs
<1>14. w.mem.inode[d].file_size = l /\ w.mem.inode[d].dentry_num = l
  BY <1>7, <1>8, <1>9 DEF SameMem
<1>15. QED
  <2>1. DirsOK(w) /\ Entries(w) = Entries(v) \cup {<<d, n, i>>}
    <3>1. /\ w.mem.inode[d].file_size = m + 1 /\ w.mem.inode[d].dentry_num = m + 1
          /\ EntryAt(w, d, m + 1) = <<n, i>>
      BY <1>1, <1>11, <1>14
    <3>2. EntryNum(v, d, m) /\ Dirs(v) \subseteq Dirs(w) /\ Dirs(w) \ Dirs(v) = {}
      BY <1>1, <1>13 DEF EntryNum
    <3>3. QED
      BY <1>1, <1>11, <1>12, <3>1, <3>2, ListsOneMore, SMTT(30)
  <2>2. QED
    BY <1>10, <2>1

LEMMA RemovesDentry ==
  ASSUME NEW v, Sound(v), DirsOK(v), NEW d, NEW n, NEW i, <<d, n, i>> \in Entries(v),
         NEW w, w = RemoveDentry(v, d, n)
  PROVE  /\ OneRelisted(v, w, d) /\ DirsOK(w) /\ Entries(w) = Entries(v) \ {<<d, n, i>>}
         /\ w.mem.inode[d].dentry_num < v.mem.inode[d].dentry_num
<1>1. d \in Dirs(v) /\ \E k \in Listed(v, d) : EntryAt(v, d, k)[1] = n /\ EntryAt(v, d, k)[2] = i
  BY EntryIn
<1>2. /\ d \in Inodes /\ v.mem.inode[d].dentry_num \in 2..UnitsPerBlock
      /\ v.mem.inode[d].file_size = v.mem.inode[d].dentry_num
      /\ Typed(v) /\ DirsFit(v)
  BY <1>1 DEF DirsOK, DirsFit, Dirs, Sound
<1>3. PICK m \in Nat : m = v.mem.inode[d].dentry_num
  BY <1>2
<1>4. PICK g \in 3..m : EntryAt(v, d, g)[1] = n /\ EntryAt(v, d, g)[2] = i
  BY <1>1, <1>3 DEF Listed
<1>5. /\ m \in 1..UnitsPerBlock /\ m - 1 \in 1..UnitsPerBlock /\ g \in 1..m /\ m - 1 \in Nat
  BY <1>2, <1>3, <1>4, Constants
<1>0. PICK l \in Nat : l = m - 1
  BY <1>5
<1> DEFINE dir == Directory(v, d)
           at == {k \in 3..Len(dir) : dir[k][1] = n}
<1>6. Len(dir) = m /\ \A k \in 1..m : dir[k] = EntryAt(v, d, k)
  <2>1. v.mem.inode[d].file_size \in 1..UnitsPerBlock /\ v.mem.inode[d].dentry_num \in 1..UnitsPerBlock
    BY <1>2, <1>3, <1>5
  <2>2. QED
    BY <1>2, <1>3, <2>1, ReadsDirectory
<1> HIDE DEF dir
<1>7. at = {g}
  <2>1. \A k \in 3..m : k \in 1..m
    BY <1>5
  <2>2. \A k \in 3..m : EntryAt(v, d, k)[1] = n => k = g
    BY <1>1, <1>3, <1>4 DEF DirsOK, EntriesOK, Listed
  <2>3. QED
    BY <1>4, <1>6, <2>1, <2>2
<1> HIDE DEF at
<1>8. Min(at) = g /\ at # {}
  <2>1. at \in SUBSET Int /\ IsFiniteSet(at) /\ at # {}
    <3>1. IsFiniteSet({g})
      BY FS_Singleton, Zenon
    <3>2. g \in Int
      BY <1>4
    <3>3. QED
      BY <1>7, <3>1, <3>2
  <2>2. QED
    BY <1>7, <2>1, SmallestBit
<1> DEFINE r == Resized(v.mem.inode[d], l, l)
           x1 == WithInode(v, d, r)
           x == WriteInodeTable(x1)
           buf == Shorter(v, d, g)
<1>9. w = WriteFile(x, d, buf)
  <2>1. BlocksNum(l) = 1 /\ v.mem.inode[d].blocks_number = 1
    <3>1. 1 \in Nat \ {0} /\ (1 - 1) * UnitsPerBlock < l /\ l <= 1 * UnitsPerBlock
      BY <1>0, <1>5, Constants
    <3>2. v.mem.inode[d].file_size \in 1..UnitsPerBlock
      BY <1>2, <1>3, <1>5
    <3>3. BlocksNum(l) = 1
      BY <3>1, BlocksOfUnit
    <3>4. QED
      BY <1>2, <3>2, <3>3, DirIsBlock
  <2>2. [v.mem.inode[d] EXCEPT !.dentry_num = l, !.file_size = l] = r
    <3>1. v.mem.inode[d] \in InodeType
      BY <1>2, InodeTypes
    <3>2. QED
      BY <1>0, <2>1, <3>1 DEF Resized, InodeType
  <2> HIDE DEF r
  <2>3. w = IF {k \in 3..Len(dir) : dir[k][1] = n} = {} THEN v
            ELSE WriteFile(WriteInodeTable(WithInode(v, d,
                   [v.mem.inode[d] EXCEPT !.dentry_num = l, !.file_size = l])), d,
                   Shorter(v, d, Min({k \in 3..Len(dir) : dir[k][1] = n})))
    <3>1. w = IF {k \in 3..Len(dir) : dir[k][1] = n} = {} THEN v
              ELSE WriteFile(WriteInodeTable(WithInode(v, d,
                     [v.mem.inode[d] EXCEPT !.dentry_num = v.mem.inode[d].dentry_num - 1,
                                            !.file_size = v.mem.inode[d].file_size - 1])), d,
                     Shorter(v, d, Min({k \in 3..Len(dir) : dir[k][1] = n})))
      BY DEF RemoveDentry, dir, WithInode, Shorter
    <3>2. v.mem.inode[d].dentry_num - 1 = l /\ v.mem.inode[d].file_size - 1 = l
      BY <1>0, <1>2, <1>3
    <3>3. QED
      BY <3>1, <3>2, Zenon
  <2>4. QED
    BY <1>8, <2>2, <2>3 DEF at
<1>10. /\ Typed(x1) /\ SameBitmaps(v, x1) /\ SameDisk(v, x1) /\ SameDevice(v, x1)
       /\ x1.mem.inode[d] = r
       /\ \A j \in Inodes : j # d => x1.mem.inode[j] = v.mem.inode[j]
  <2>1. r \in InodeType
    <3>1. v.mem.inode[d] \in InodeType
      BY <1>2, InodeTypes
    <3>2. QED
      BY <3>1, ResizedType
  <2> HIDE DEF r
  <2>2. QED
    BY <1>2, <2>1, SetsInode
<1>11. /\ Typed(x) /\ SameMem(x1, x) /\ SameDevice(x1, x)
       /\ x.disk.inode = x1.mem.inode
       /\ x.disk.inode_bitmap = x1.disk.inode_bitmap
       /\ x.disk.datablock_bitmap = x1.disk.datablock_bitmap
  <2> HIDE DEF x1
  <2>1. QED
    BY <1>10, SavesInodes
<1>12. /\ Len(buf) = l
       /\ \A k \in 1..l :
            buf[k] = IF k < g THEN EntryAt(v, d, k) ELSE EntryAt(v, d, k + 1)
  <2>1. /\ EntryNum(v, d, m) /\ d \in Inodes /\ g \in 1..m
        /\ v.mem.inode[d].file_size \in 1..UnitsPerBlock
        /\ v.mem.inode[d].dentry_num \in 1..UnitsPerBlock
    BY <1>2, <1>3, <1>5 DEF EntryNum
  <2>2. QED
    <3>1. /\ Len(buf) = m - 1
          /\ \A k \in 1..m - 1 :
               buf[k] = IF k < g THEN EntryAt(v, d, k) ELSE EntryAt(v, d, k + 1)
      BY <2>1, OneEntryLess
    <3>2. QED
      BY <1>0, <3>1
<1>13. /\ r.file_size = l /\ r.dentry_num = l /\ r.blocks_number = BlocksNum(l)
       /\ r.file_type = v.mem.inode[d].file_type /\ r.links = v.mem.inode[d].links
       /\ r.direct_block = v.mem.inode[d].direct_block
       /\ r.indirect_block = v.mem.inode[d].indirect_block
  <2>1. v.mem.inode[d] \in InodeType
    BY <1>2, InodeTypes
  <2>2. QED
    BY <2>1, BlocksFit DEF Resized, InodeType
<1> HIDE DEF x, x1, buf, r
<1>14. /\ SameDevice(v, x) /\ x.mem.datablock_bitmap = v.mem.datablock_bitmap
       /\ x.mem.inode_bitmap = v.mem.inode_bitmap
       /\ x.mem.inode[d] = r
       /\ \A j \in Inodes : j # d => x.mem.inode[j] = v.mem.inode[j]
  BY <1>10, <1>11 DEF SameDevice, SameMem, SameBitmaps
<1>15. /\ Sound(w) /\ SameFiles(v, w) /\ SameMem(x, w) /\ SameDisk(x, w)
       /\ \A k \in 1..l : EntryAt(w, d, k) = buf[k]
       /\ \A j \in Inodes : j # d => SameContents(v, w, j)
  <2>1. v.mem.inode[d].file_size \in 1..UnitsPerBlock
    BY <1>2, <1>3, <1>5
  <2>2. /\ d \in Inodes /\ l \in 1..UnitsPerBlock /\ Typed(x) /\ SameDevice(v, x)
        /\ Len(buf) = l
    BY <1>0, <1>2, <1>5, <1>11, <1>12, <1>14
  <2>3. /\ x.mem.inode[d].file_size = l /\ x.mem.inode[d].blocks_number = BlocksNum(l)
        /\ x.mem.inode[d].direct_block = v.mem.inode[d].direct_block
        /\ x.mem.inode[d].indirect_block = v.mem.inode[d].indirect_block
    BY <1>13, <1>14
  <2>4. QED
    BY <1>9, <1>14, <2>1, <2>2, <2>3, Relisted
<1>16. OneRelisted(v, w, d)
  BY <1>10, <1>11, <1>13, <1>14, <1>15 DEF OneRelisted, SameMem, SameDisk
<1>17. \A k \in 1..l :
         EntryAt(w, d, k) = IF k < g THEN EntryAt(v, d, k) ELSE EntryAt(v, d, k + 1)
  BY <1>12, <1>15
<1>18. \A c \in Dirs(v) : c # d => SameListing(v, w, c)
  <2> SUFFICES ASSUME NEW c \in Dirs(v), c # d
               PROVE  SameListing(v, w, c)
    OBVIOUS
  <2>1. c \in Inodes /\ SameContents(v, w, c) /\ w.mem.inode[c] = v.mem.inode[c]
    BY <1>14, <1>15 DEF Dirs, SameMem
  <2>2. \A k : EntryAt(w, c, k) = EntryAt(v, c, k)
    BY <1>2, <1>15, <2>1, OtherDirectory
  <2>3. QED
    BY <2>1, <2>2 DEF SameListing
<1>19. Dirs(w) = Dirs(v)
  BY <1>16 DEF OneRelisted, Dirs
<1>20. w.mem.inode[d].file_size = l /\ w.mem.inode[d].dentry_num = l
  BY <1>13, <1>14, <1>15 DEF SameMem
<1>21. DirsOK(w) /\ Entries(w) = Entries(v) \ {<<d, n, i>>}
  <2>1. /\ EntryNum(v, d, m) /\ w.mem.inode[d].file_size = m - 1 /\ w.mem.inode[d].dentry_num = m - 1
        /\ \A k \in 1..m - 1 :
             EntryAt(w, d, k) = IF k < g THEN EntryAt(v, d, k) ELSE EntryAt(v, d, k + 1)
    BY <1>0, <1>3, <1>17, <1>20 DEF EntryNum
  <2>2. DirsOK(w) /\ Entries(w) = Entries(v) \ {<<d, EntryAt(v, d, g)[1], EntryAt(v, d, g)[2]>>}
    BY <1>1, <1>3, <1>18, <1>19, <2>1, ListsOneLess
  <2>3. QED
    BY <1>4, <2>2
<1>22. w.mem.inode[d].dentry_num < v.mem.inode[d].dentry_num
  BY <1>0, <1>3, <1>20
<1>23. QED
  BY <1>16, <1>21, <1>22

-----------------------------------------------------------------------------
(***************************************************************************)
(* add_file_in_directory_by_inode() gives a new inode a name.              *)
(***************************************************************************)
\* an inode without a link is clear, one with a link is marked in both bitmaps
UnusedOK(v) ==
  \A i \in Inodes :
    IF v.mem.inode[i].links = 0 THEN v.mem.inode[i] = NoInode
    ELSE i \in v.mem.inode_bitmap /\ i \in v.disk.inode_bitmap

Born(type) == [NoInode EXCEPT !.links = 1, !.file_type = type]

LEMMA BornType ==
  ASSUME NEW type \in Kinds
  PROVE  /\ Born(type) \in InodeType
         /\ Born(type).file_size = 0 /\ Born(type).blocks_number = 0
         /\ Born(type).dentry_num = 0
         /\ Born(type).links = 1 /\ Born(type).file_type = type
BY Constants DEF Born, NoInode, InodeType

LEMMA TakesInode ==
  ASSUME NEW v, Typed(v), NEW i \in Inodes, i = FreeInode(v), NEW w, w = TakeInode(v)
  PROVE  /\ Typed(w) /\ SameDisk(v, w) /\ SameDevice(v, w)
         /\ w.mem.inode = v.mem.inode
         /\ w.mem.inode_bitmap = v.mem.inode_bitmap \cup {i}
         /\ w.mem.datablock_bitmap = v.mem.datablock_bitmap
BY DEF Typed, SameDisk, SameDevice, TablesType, TakeInode

LEMMA TakesBlock ==
  ASSUME NEW v, Typed(v), NEW b \in Blocks, b = FreeBlock(v), NEW w, w = TakeBlock(v)
  PROVE  /\ Typed(w) /\ SameDisk(v, w) /\ SameDevice(v, w)
         /\ w.mem.inode = v.mem.inode
         /\ w.mem.inode_bitmap = v.mem.inode_bitmap
         /\ w.mem.datablock_bitmap = v.mem.datablock_bitmap \cup {b}
BY DEF Typed, SameDisk, SameDevice, TablesType, TakeBlock

LEMMA SavesAll ==
  ASSUME NEW v, Typed(v), NEW w, w = WriteInodeTable(WriteBlockBitmap(WriteInodeBitmap(v)))
  PROVE  /\ Typed(w) /\ SameMem(v, w) /\ SameDevice(v, w) /\ w.disk = v.mem
<1> DEFINE v1 == WriteInodeBitmap(v)
           v2 == WriteBlockBitmap(v1)
<1>1. /\ Typed(v1) /\ SameMem(v, v1) /\ SameDevice(v, v1)
      /\ v1.disk.inode_bitmap = v.mem.inode_bitmap
  BY SavesInodeBitmap
<1>2. /\ Typed(v2) /\ SameMem(v1, v2) /\ SameDevice(v1, v2)
      /\ v2.disk.inode_bitmap = v1.disk.inode_bitmap
      /\ v2.disk.datablock_bitmap = v1.mem.datablock_bitmap
  <2> HIDE DEF v1
  <2>1. QED
    BY <1>1, SavesBlockBitmap
<1>3. /\ Typed(w) /\ SameMem(v2, w) /\ SameDevice(v2, w)
      /\ w.disk.inode = v2.mem.inode
      /\ w.disk.inode_bitmap = v2.disk.inode_bitmap
      /\ w.disk.datablock_bitmap = v2.disk.datablock_bitmap
  <2>1. w = WriteInodeTable(v2)
    OBVIOUS
  <2> HIDE DEF v2
  <2>2. QED
    BY <1>2, <2>1, SavesInodes
<1> HIDE DEF v1, v2
<1>4. /\ w.disk.inode = v.mem.inode /\ w.disk.inode_bitmap = v.mem.inode_bitmap
      /\ w.disk.datablock_bitmap = v.mem.datablock_bitmap
  BY <1>1, <1>2, <1>3 DEF SameMem
<1>5. w.disk = v.mem
  BY <1>3, <1>4 DEF Typed, TablesType
<1>6. QED
  BY <1>1, <1>2, <1>3, <1>5 DEF SameMem, SameDevice

\* a file without blocks gets another inode without blocks
LEMMA StaysEmpty ==
  ASSUME NEW v, Sound(v), NEW i \in Inodes, v.mem.inode[i].blocks_number = 0,
         NEW n \in InodeType, n.blocks_number = 0, n.file_size = 0,
         NEW w, w = WithInode(v, i, n)
  PROVE  Sound(w) /\ SameFiles(v, w)
<1>1. /\ Typed(w) /\ SameBitmaps(v, w) /\ SameDisk(v, w) /\ SameDevice(v, w)
      /\ w.mem.inode[i] = n
      /\ \A j \in Inodes : j # i => w.mem.inode[j] = v.mem.inode[j]
  BY SetsInode DEF Sound
<1>2. \A j \in Inodes : SameFile(v, w, j)
  <2> SUFFICES ASSUME NEW j \in Inodes PROVE SameFile(v, w, j)
    OBVIOUS
  <2>1. CASE j # i
    <3>1. w.mem.inode[j] = v.mem.inode[j] /\ w.device = v.device
      BY <1>1, <2>1 DEF SameDevice
    <3>2. QED
      BY <3>1, KeepsFile
  <2>2. CASE j = i
    <3>1. Uses(v, j) = {} /\ Uses(w, j) = {}
      BY <1>1, <2>2, Constants DEF Uses, DataUses
    <3>2. QED
      BY <3>1 DEF SameFile
  <2>3. QED
    BY <2>1, <2>2
<1>3. MarksUsed(w) /\ OwnsOnce(w)
  <2>1. SameFiles(v, w) /\ v.mem.datablock_bitmap \subseteq w.mem.datablock_bitmap
    BY <1>1, <1>2 DEF SameFiles, SameBitmaps
  <2>2. QED
    BY <2>1, KeepsBlocks
<1>4. BlocksNum(0) = 0
  BY DEF BlocksNum, CeilDivision
<1>5. Fits(w)
  <2> SUFFICES ASSUME NEW j \in Inodes
               PROVE  /\ w.mem.inode[j].blocks_number = BlocksNum(w.mem.inode[j].file_size)
                      /\ w.mem.inode[j].blocks_number <= Most
    BY DEF Fits
  <2>1. CASE j = i
    BY <1>1, <1>4, <2>1, Constants
  <2>2. CASE j # i
    BY <1>1, <2>2 DEF Sound, Fits
  <2>3. QED
    BY <2>1, <2>2
<1>6. QED
  BY <1>1, <1>2, <1>3, <1>5 DEF Sound, SameFiles

\* the inode that is taken is not in use
LEMMA NewInode ==
  ASSUME NEW v, Typed(v), DirsOK(v), UnusedOK(v), NEW i, i = FreeInode(v), i # -1
  PROVE  /\ i \in Inodes \ {Root} /\ i \notin v.mem.inode_bitmap
         /\ v.mem.inode[i] = NoInode /\ i \notin Dirs(v)
<1>1. i \in Inodes /\ i \notin v.mem.inode_bitmap
  BY AvailableBit, Constants DEF FreeInode
<1>2. v.mem.inode[i] = NoInode
  BY <1>1 DEF UnusedOK
<1>3. i \notin Dirs(v)
  BY <1>2 DEF Dirs, NoInode
<1>4. QED
  BY <1>1, <1>2, <1>3 DEF DirsOK

(***************************************************************************)
(* w is v with inode i as the last entry of directory d, nothing in it.    *)
(***************************************************************************)
Added(v, w, d, n, i, type) ==
  /\ Sound(w) /\ SameFiles(v, w)
  /\ \A j \in Inodes : j # d => SameContents(v, w, j)
  /\ w.mem.inode_bitmap = v.mem.inode_bitmap \cup {i}
  /\ w.mem.datablock_bitmap = v.mem.datablock_bitmap
  /\ w.disk = w.mem
  /\ \A j \in Inodes : j # d /\ j # i => w.mem.inode[j] = v.mem.inode[j]
  /\ w.mem.inode[i] = Born(type)
  /\ w.mem.inode[d].file_type = v.mem.inode[d].file_type
  /\ w.mem.inode[d].links = v.mem.inode[d].links
  /\ w.mem.inode[d].file_size = v.mem.inode[d].dentry_num + 1
  /\ w.mem.inode[d].dentry_num = v.mem.inode[d].dentry_num + 1
  /\ \A k \in 1..v.mem.inode[d].dentry_num : EntryAt(w, d, k) = EntryAt(v, d, k)
  /\ EntryAt(w, d, v.mem.inode[d].dentry_num + 1) = <<n, i>>

LEMMA AddsFile ==
  ASSUME NEW v, Sound(v), DirsOK(v), UnusedOK(v), NEW d \in Dirs(v),
         v.mem.inode[d].dentry_num < UnitsPerBlock, NEW n, NEW type \in Kinds,
         NEW i, i = FreeInode(v), i # -1,
         NEW w, w = AddFile(v, d, n, type)
  PROVE  Added(v, w, d, n, i, type)
<1>1. PICK m, l \in Nat :
        /\ m = v.mem.inode[d].dentry_num /\ m = v.mem.inode[d].file_size /\ l = m + 1
        /\ m \in 1..UnitsPerBlock /\ l \in 1..UnitsPerBlock /\ 2 <= m
        /\ m < UnitsPerBlock /\ d \in Inodes
  BY HasRoom
<1>2. Typed(v) /\ DirsFit(v)
  BY DEF Sound, DirsOK
<1>3. /\ i \in Inodes \ {Root} /\ i \notin v.mem.inode_bitmap
      /\ v.mem.inode[i] = NoInode /\ i # d
  BY <1>2, NewInode
<1>4. v.mem.inode[d] \in InodeType
  BY <1>1, <1>2, InodeTypes
<1> DEFINE t == TakeInode(v)
           r == Resized(v.mem.inode[d], l, l)
           t1 == WithInode(t, d, r)
           z == WithInode(t1, i, Born(type))
           x == WriteInodeTable(WriteBlockBitmap(WriteInodeBitmap(z)))
           e == <<n, i>>
           buf == Longer(t, d, e)
           v1 == WithInode(v, i, Born(type))
<1>5. w = WriteFile(x, d, buf)
  <2>1. ~NeedsBlock(v, d)
    BY <1>2, RoomInBlock
  <2>2. t.mem.inode[d] = v.mem.inode[d]
    <3>1. t.mem.inode = v.mem.inode
      BY <1>2, <1>3, TakesInode
    <3>2. QED
      BY <3>1
  <2>3. Enter(t, d, n, i)[2] = buf
    <3>1. Enter(t, d, n, i)[2] = Append(Directory(t, d), <<n, i>>)
      BY Enters
    <3>2. QED
      BY <3>1 DEF Longer
  <2>4. Enter(t, d, n, i)[1] = t1
    <3> HIDE DEF t
    <3>1. Enter(t, d, n, i)[1] =
            WithInode(t, d, Resized(t.mem.inode[d], t.mem.inode[d].file_size + 1,
                                    t.mem.inode[d].dentry_num + 1))
      BY DEF Enter, Resized, WithInode
    <3>2. t.mem.inode[d].file_size + 1 = l /\ t.mem.inode[d].dentry_num + 1 = l
      BY <1>1, <2>2
    <3>3. QED
      BY <2>2, <3>1, <3>2, Zenon
  <2>5. [v.mem.inode[i] EXCEPT !.file_size = 0, !.dentry_num = 0, !.blocks_number = 0,
                               !.links = 1, !.file_type = type] = Born(type)
    <3>1. [NoInode EXCEPT !.file_size = 0, !.dentry_num = 0, !.blocks_number = 0,
                          !.links = 1, !.file_type = type] = Born(type)
      <4>1. NoInode \in InodeType
        BY Constants
      <4>2. NoInode.file_size = 0 /\ NoInode.dentry_num = 0 /\ NoInode.blocks_number = 0
        BY DEF NoInode
      <4>3. QED
        BY <4>1, <4>2 DEF Born, InodeType
    <3>2. QED
      BY <1>3, <3>1, Zenon
  <2>6. w = WriteFile(WriteInodeTable(WriteBlockBitmap(WriteInodeBitmap(
               WithInode(Enter(t, d, n, i)[1], i,
                 [v.mem.inode[i] EXCEPT !.file_size = 0, !.dentry_num = 0, !.blocks_number = 0,
                               !.links = 1, !.file_type = type])))), d, Enter(t, d, n, i)[2])
    BY <2>1, Zenon DEF AddFile, WithInode
  <2>7. QED
    <3> HIDE DEF t, buf, t1
    <3>1. QED
      BY <2>3, <2>4, <2>5, <2>6, Zenon
<1>6. /\ Typed(t) /\ SameDisk(v, t) /\ SameDevice(v, t)
      /\ t.mem.inode = v.mem.inode
      /\ t.mem.inode_bitmap = v.mem.inode_bitmap \cup {i}
      /\ t.mem.datablock_bitmap = v.mem.datablock_bitmap
  BY <1>2, <1>3, TakesInode
<1> HIDE DEF t
<1>7. Sound(t)
  BY <1>6, KeepsSound
<1>8. /\ r \in InodeType
      /\ r.file_size = l /\ r.dentry_num = l /\ r.blocks_number = BlocksNum(l)
      /\ r.file_type = v.mem.inode[d].file_type /\ r.links = v.mem.inode[d].links
      /\ r.direct_block = v.mem.inode[d].direct_block
      /\ r.indirect_block = v.mem.inode[d].indirect_block
  BY <1>4, BlocksFit DEF Resized, InodeType
<1> HIDE DEF r
<1>9. Born(type) \in InodeType
  BY BornType
<1>10. /\ Typed(t1) /\ SameBitmaps(t, t1) /\ SameDisk(t, t1) /\ SameDevice(t, t1)
       /\ t1.mem.inode[d] = r
       /\ \A j \in Inodes : j # d => t1.mem.inode[j] = t.mem.inode[j]
  BY <1>1, <1>6, <1>8, SetsInode
<1> HIDE DEF t1
<1>11. /\ Typed(z) /\ SameBitmaps(t1, z) /\ SameDisk(t1, z) /\ SameDevice(t1, z)
       /\ z.mem.inode[i] = Born(type)
       /\ \A j \in Inodes : j # i => z.mem.inode[j] = t1.mem.inode[j]
  BY <1>3, <1>9, <1>10, SetsInode
<1> HIDE DEF z
<1>12. Typed(x) /\ SameMem(z, x) /\ SameDevice(z, x) /\ x.disk = z.mem
  BY <1>11, SavesAll
<1>13. /\ Sound(v1) /\ SameFiles(v, v1)
       /\ SameBitmaps(v, v1) /\ SameDevice(v, v1)
       /\ v1.mem.inode[i] = Born(type)
       /\ \A j \in Inodes : j # i => v1.mem.inode[j] = v.mem.inode[j]
  <2>1. v.mem.inode[i].blocks_number = 0
    BY <1>3 DEF NoInode
  <2>2. Born(type).blocks_number = 0 /\ Born(type).file_size = 0
    BY BornType
  <2>3. Sound(v1) /\ SameFiles(v, v1)
    BY <1>3, <1>9, <2>1, <2>2, StaysEmpty
  <2>4. QED
    BY <1>2, <1>3, <1>9, <2>3, SetsInode
<1>14. /\ Len(buf) = m + 1 /\ buf[m + 1] = e
       /\ \A k \in 1..m : buf[k] = EntryAt(t, d, k)
  <2>1. /\ EntryNum(t, d, m) /\ d \in Inodes
        /\ t.mem.inode[d].file_size \in 1..UnitsPerBlock
        /\ t.mem.inode[d].dentry_num \in 1..UnitsPerBlock
    BY <1>1, <1>6 DEF EntryNum
  <2> HIDE DEF e
  <2>2. QED
    BY <1>7, <2>1, OneMoreEntry
<1> HIDE DEF x, buf, v1
<1>15. \A k : EntryAt(t, d, k) = EntryAt(v, d, k)
  BY <1>6, Constants DEF EntryAt, BlockAt, SameDevice
<1>16. /\ SameDevice(v1, x) /\ x.mem.datablock_bitmap = v1.mem.datablock_bitmap
       /\ x.mem.inode_bitmap = v.mem.inode_bitmap \cup {i}
       /\ x.mem.inode[d] = r /\ x.mem.inode[i] = Born(type)
       /\ v1.mem.inode[d] = v.mem.inode[d]
       /\ \A j \in Inodes : j # d => x.mem.inode[j] = v1.mem.inode[j]
  BY <1>1, <1>3, <1>6, <1>10, <1>11, <1>12, <1>13 DEF SameDevice, SameMem, SameBitmaps
<1>17. /\ Sound(w) /\ SameFiles(v1, w) /\ SameMem(x, w) /\ SameDisk(x, w)
       /\ \A k \in 1..l : EntryAt(w, d, k) = buf[k]
       /\ \A j \in Inodes : j # d => SameContents(v1, w, j)
  <2>1. /\ d \in Inodes /\ v1.mem.inode[d].file_size \in 1..UnitsPerBlock
        /\ l \in 1..UnitsPerBlock /\ Len(buf) = l
    BY <1>1, <1>14, <1>16
  <2>2. /\ x.mem.inode[d].file_size = l /\ x.mem.inode[d].blocks_number = BlocksNum(l)
        /\ x.mem.inode[d].direct_block = v1.mem.inode[d].direct_block
        /\ x.mem.inode[d].indirect_block = v1.mem.inode[d].indirect_block
    BY <1>8, <1>16
  <2>3. /\ SameDevice(v1, x) /\ x.mem.datablock_bitmap = v1.mem.datablock_bitmap
        /\ \A j \in Inodes : j # d => x.mem.inode[j] = v1.mem.inode[j]
    BY <1>16
  <2>4. Sound(v1) /\ Typed(x)
    BY <1>12, <1>13
  <2>5. QED
    BY <1>5, <2>1, <2>2, <2>3, <2>4, Relisted
<1>18. SameFiles(v, w)
  BY <1>13, <1>17 DEF SameFiles, SameFile
<1>19. ASSUME NEW j \in Inodes, j # d
       PROVE  SameContents(v, w, j)
  <2>1. SameContents(v1, w, j) /\ SameFile(v, v1, j)
    BY <1>13, <1>17, <1>19 DEF SameFiles
  <2>2. QED
    BY <1>13, <2>1 DEF SameContents, SameFile, SameDevice
<1>20. /\ \A k \in 1..m : EntryAt(w, d, k) = EntryAt(v, d, k)
       /\ EntryAt(w, d, m + 1) = <<n, i>>
  <2>1. m + 1 \in 1..l /\ \A k \in 1..m : k \in 1..l
    BY <1>1
  <2>2. QED
    BY <1>14, <1>15, <1>17, <2>1
<1>21. /\ w.mem.inode_bitmap = v.mem.inode_bitmap \cup {i}
       /\ w.mem.datablock_bitmap = v.mem.datablock_bitmap
       /\ w.disk = w.mem
       /\ \A j \in Inodes : j # d /\ j # i => w.mem.inode[j] = v.mem.inode[j]
       /\ w.mem.inode[i] = Born(type) /\ w.mem.inode[d] = r
  BY <1>12, <1>13, <1>16, <1>17 DEF SameMem, SameDisk, SameBitmaps
<1>22. /\ w.mem.inode[d].file_type = v.mem.inode[d].file_type
       /\ w.mem.inode[d].links = v.mem.inode[d].links
       /\ w.mem.inode[d].file_size = m + 1 /\ w.mem.inode[d].dentry_num = m + 1
  BY <1>1, <1>8, <1>21
<1>23. QED
  <2>1. m = v.mem.inode[d].dentry_num
    BY <1>1
  <2>2. QED
    BY <1>17, <1>18, <1>19, <1>20, <1>21, <1>22, <2>1 DEF Added

LEMMA NoInodeLeft ==
  ASSUME NEW v, NEW d, NEW n, NEW type, FreeInode(v) = -1
  PROVE  AddFile(v, d, n, type) = v
BY DEF AddFile

-----------------------------------------------------------------------------
(***************************************************************************)
(* The links of an inode and the names that lead to it.                    *)
(***************************************************************************)
Named(S, j) == {e \in S : e[3] = j}
More(S, e)  == S \cup {e}
Less(S, e)  == S \ {e}

LEMMA CountsMore ==
  ASSUME NEW S, IsFiniteSet(S), NEW e, e \notin S, NEW j
  PROVE  /\ IsFiniteSet(More(S, e)) /\ Cardinality(Named(S, j)) \in Nat
         /\ e[3] # j => Cardinality(Named(More(S, e), j)) = Cardinality(Named(S, j))
         /\ e[3] = j => Cardinality(Named(More(S, e), j)) = Cardinality(Named(S, j)) + 1
<1>1. IsFiniteSet(S \cup {e})
  BY FS_AddElement
<1>2. IsFiniteSet(Named(S, j))
  BY FS_Subset DEF Named
<1>3. Cardinality(Named(S, j)) \in Nat
  BY <1>2, FS_CardinalityType
<1>4. e[3] # j => Named(S \cup {e}, j) = Named(S, j)
  BY DEF Named
<1>5. e[3] = j => Named(S \cup {e}, j) = Named(S, j) \cup {e}
  BY DEF Named
<1>6. e \notin Named(S, j)
  BY DEF Named
<1>7. Cardinality(Named(S, j) \cup {e}) = Cardinality(Named(S, j)) + 1
  BY <1>2, <1>6, FS_AddElement
<1>8. QED
  BY <1>1, <1>3, <1>4, <1>5, <1>7 DEF More

LEMMA CountsLess ==
  ASSUME NEW S, IsFiniteSet(S), NEW e \in S, NEW j
  PROVE  /\ IsFiniteSet(Less(S, e)) /\ Cardinality(Named(S, j)) \in Nat
         /\ e[3] # j => Cardinality(Named(Less(S, e), j)) = Cardinality(Named(S, j))
         /\ e[3] = j => /\ Cardinality(Named(Less(S, e), j)) = Cardinality(Named(S, j)) - 1
                        /\ Cardinality(Named(S, j)) \in Nat \ {0}
<1>1. IsFiniteSet(S \ {e})
  BY FS_RemoveElement
<1>2. IsFiniteSet(Named(S, j))
  BY FS_Subset DEF Named
<1>3. Cardinality(Named(S, j)) \in Nat
  BY <1>2, FS_CardinalityType
<1>4. e[3] # j => Named(S \ {e}, j) = Named(S, j)
  BY DEF Named
<1>5. e[3] = j => Named(S \ {e}, j) = Named(S, j) \ {e} /\ e \in Named(S, j)
  BY DEF Named
<1>6. e \in Named(S, j) => Cardinality(Named(S, j) \ {e}) = Cardinality(Named(S, j)) - 1
  BY <1>2, FS_RemoveElement
<1>7. e \in Named(S, j) => Cardinality(Named(S, j)) # 0
  BY <1>2, FS_EmptySet
<1>8. QED
  BY <1>1, <1>3, <1>4, <1>5, <1>6, <1>7 DEF Less

LEMMA CountsNone ==
  ASSUME NEW S, IsFiniteSet(S), NEW j, Cardinality(Named(S, j)) = 0
  PROVE  \A e \in S : e[3] # j
<1>1. IsFiniteSet(Named(S, j))
  BY FS_Subset DEF Named
<1>2. Named(S, j) = {}
  BY <1>1, FS_EmptySet
<1>3. QED
  BY <1>2 DEF Named

NamesCounted(v) ==
  /\ IsFiniteSet(Entries(v))
  /\ \A i \in Inodes \ {Root} : v.mem.inode[i].links = Cardinality(Named(Entries(v), i))
  /\ \A d \in Dirs(v) : v.mem.inode[d].links = 1

\* what a remount must find: all but symbolic links is on disk
DiskOK(v) ==
  \A i \in Inodes : v.mem.inode[i].file_type # "SOFT_LINK" =>
    /\ v.disk.inode[i] = v.mem.inode[i]
    /\ \A k \in Uses(v, i) : BlockAt(v, i, k) \in v.disk.datablock_bitmap

(***************************************************************************)
(* The inductive invariant of the volume.                                  *)
(***************************************************************************)
VolOK(v) == Sound(v) /\ DirsOK(v) /\ UnusedOK(v) /\ NamesCounted(v) /\ DiskOK(v)

LEMMA AllSaved ==
  ASSUME NEW v, Sound(v), v.disk = v.mem
  PROVE  DiskOK(v)
BY DEF DiskOK, Sound, MarksUsed

\* directories that nobody writes keep their entries
LEMMA KeepsEntries ==
  ASSUME NEW v, Sound(v), NEW w, NEW d \in Inodes,
         v.mem.inode[d].file_size \in 1..UnitsPerBlock,
         SameFile(v, w, d), SameContents(v, w, d)
  PROVE  \A k : EntryAt(w, d, k) = EntryAt(v, d, k)
<1>1. Uses(v, d) = {1}
  BY DirIsBlock
<1>2. BlockAt(w, d, 1) = BlockAt(v, d, 1)
      /\ w.device[BlockAt(v, d, 1)] = v.device[BlockAt(v, d, 1)]
  BY <1>1 DEF SameFile, SameContents
<1>3. QED
  BY <1>2 DEF EntryAt

LEMMA NamesSame ==
  ASSUME NEW v, Sound(v), DirsOK(v), NEW w, Dirs(w) = Dirs(v),
         \A d \in Dirs(v) : /\ w.mem.inode[d].file_size = v.mem.inode[d].file_size
                            /\ w.mem.inode[d].dentry_num = v.mem.inode[d].dentry_num
                            /\ SameFile(v, w, d) /\ SameContents(v, w, d)
  PROVE  DirsOK(w) /\ Entries(w) = Entries(v)
<1>1. \A d \in Dirs(v) : SameListing(v, w, d)
  <2> SUFFICES ASSUME NEW d \in Dirs(v) PROVE SameListing(v, w, d)
    OBVIOUS
  <2>1. d \in Inodes /\ v.mem.inode[d].file_size \in 1..UnitsPerBlock
    BY Constants DEF DirsOK, DirsFit, Dirs
  <2>2. QED
    BY <2>1, KeepsEntries DEF SameListing
<1>2. \A d \in Dirs(v) : /\ EntriesOK(w, d) /\ Listed(w, d) = Listed(v, d)
                         /\ w.mem.inode[d].file_size = w.mem.inode[d].dentry_num
                         /\ w.mem.inode[d].dentry_num \in 2..UnitsPerBlock
  BY <1>1, SameListingKeeps
<1>3. DirsOK(w)
  BY <1>2 DEF DirsOK, DirsFit
<1>4. \A d \in Dirs(v) : \A k : EntryAt(w, d, k) = EntryAt(v, d, k)
  BY <1>1 DEF SameListing
<1>5. Entries(w) = Entries(v)
  BY <1>2, <1>4 DEF Entries
<1>6. QED
  BY <1>3, <1>5

-----------------------------------------------------------------------------
(***************************************************************************)
(* mknod.                                                                  *)
(***************************************************************************)
\* w has the names of v and e
NamesMore(v, w, e) == e \notin Entries(v) /\ Entries(w) = More(Entries(v), e)

\* all inodes but i keep their links, and stay clear if they are
SameLinks(v, w, i) ==
  \A j \in Inodes : j # i =>
    /\ w.mem.inode[j].links = v.mem.inode[j].links
    /\ v.mem.inode[j].links = 0 => w.mem.inode[j] = v.mem.inode[j]

\* the inodes marked in v stay so
KeepsInodes(v, w) ==
  /\ v.mem.inode_bitmap \subseteq w.mem.inode_bitmap
  /\ v.mem.inode_bitmap \subseteq w.disk.inode_bitmap

\* what a new inode with a new name needs besides
LEMMA NewNameKeeps ==
  ASSUME NEW v, VolOK(v), NEW i \in Inodes \ {Root}, v.mem.inode[i] = NoInode,
         NEW w, NEW e, NamesMore(v, w, e), e[3] = i, SameLinks(v, w, i),
         w.mem.inode[i].links = 1, Dirs(w) \subseteq Dirs(v) \cup {i},
         i \in w.mem.inode_bitmap, i \in w.disk.inode_bitmap, KeepsInodes(v, w)
  PROVE  UnusedOK(w) /\ NamesCounted(w)
<1>1. UnusedOK(v) /\ NamesCounted(v)
  BY DEF VolOK
<1>2. UnusedOK(w)
  <2> SUFFICES ASSUME NEW j \in Inodes
               PROVE  IF w.mem.inode[j].links = 0 THEN w.mem.inode[j] = NoInode
                      ELSE j \in w.mem.inode_bitmap /\ j \in w.disk.inode_bitmap
    BY DEF UnusedOK
  <2>1. CASE j = i
    BY <2>1
  <2>2. CASE j # i
    BY <1>1, <2>2 DEF UnusedOK, SameLinks, KeepsInodes
  <2>3. QED
    BY <2>1, <2>2
<1> DEFINE S == Entries(v)
<1>3. IsFiniteSet(S) /\ e \notin S /\ Entries(w) = More(S, e)
  BY <1>1 DEF NamesCounted, NamesMore
<1> HIDE DEF S
<1>4. IsFiniteSet(More(S, e))
  BY <1>3, CountsMore
<1>5. ASSUME NEW j \in Inodes \ {Root}
      PROVE  w.mem.inode[j].links = Cardinality(Named(More(S, e), j))
  <2>0. v.mem.inode[j].links = Cardinality(Named(S, j))
    BY <1>1 DEF NamesCounted, S
  <2>1. CASE j = i
    <3>1. Cardinality(Named(S, j)) = 0
      BY <2>0, <2>1 DEF NoInode
    <3>2. Cardinality(Named(More(S, e), j)) = Cardinality(Named(S, j)) + 1
      BY <1>3, <2>1, CountsMore
    <3>3. QED
      BY <2>1, <3>1, <3>2
  <2>2. CASE j # i
    <3>1. Cardinality(Named(More(S, e), j)) = Cardinality(Named(S, j))
      BY <1>3, <2>2, CountsMore
    <3>2. QED
      BY <2>0, <2>2, <3>1 DEF SameLinks
  <2>3. QED
    BY <2>1, <2>2
<1>6. \A c \in Dirs(w) : w.mem.inode[c].links = 1
  <2> SUFFICES ASSUME NEW c \in Dirs(w) PROVE w.mem.inode[c].links = 1
    OBVIOUS
  <2>1. c \in Inodes /\ (c # i => c \in Dirs(v))
    BY DEF Dirs
  <2>2. QED
    BY <1>1, <2>1 DEF NamesCounted, SameLinks
<1>7. QED
  BY <1>2, <1>3, <1>4, <1>5, <1>6 DEF NamesCounted

\* the names after a file that is no directory was added
LEMMA AddedNames ==
  ASSUME NEW v, Sound(v), DirsOK(v), NEW d \in Dirs(v),
         v.mem.inode[d].dentry_num < UnitsPerBlock, NEW n \in Names,
         \A j : <<d, n, j>> \notin Entries(v),
         NEW i \in Inodes \ {Root}, i \notin Dirs(v), NEW type \in Kinds \ {"DIRECTORY"},
         NEW w, Added(v, w, d, n, i, type)
  PROVE  /\ Dirs(w) = Dirs(v) /\ DirsOK(w) /\ Entries(w) = Entries(v) \cup {<<d, n, i>>}
<1>1. PICK m, l \in Nat :
        /\ m = v.mem.inode[d].dentry_num /\ m = v.mem.inode[d].file_size /\ l = m + 1
        /\ m \in 1..UnitsPerBlock /\ l \in 1..UnitsPerBlock /\ 2 <= m
        /\ m < UnitsPerBlock /\ d \in Inodes
  BY HasRoom
<1>2. Dirs(w) = Dirs(v)
  <2>1. w.mem.inode[i].file_type # "DIRECTORY"
    BY BornType DEF Added
  <2>2. QED
    BY <2>1 DEF Added, Dirs
<1>3. \A c \in Dirs(v) : c # d => SameListing(v, w, c)
  <2> SUFFICES ASSUME NEW c \in Dirs(v), c # d PROVE SameListing(v, w, c)
    OBVIOUS
  <2>1. c \in Inodes /\ v.mem.inode[c].file_size \in 1..UnitsPerBlock
    BY Constants DEF DirsOK, DirsFit, Dirs
  <2>2. SameFile(v, w, c) /\ SameContents(v, w, c) /\ w.mem.inode[c] = v.mem.inode[c]
    BY <2>1 DEF Added, SameFiles
  <2>3. QED
    BY <2>1, <2>2, KeepsEntries DEF SameListing
<1>4. /\ EntryNum(v, d, m) /\ w.mem.inode[d].file_size = m + 1
      /\ w.mem.inode[d].dentry_num = m + 1
      /\ EntryAt(w, d, m + 1) = <<n, i>>
      /\ \A k \in 1..m : EntryAt(w, d, k) = EntryAt(v, d, k)
  BY <1>1 DEF Added, EntryNum
<1>5. m < UnitsPerBlock /\ Dirs(v) \subseteq Dirs(w) /\ Dirs(w) \ Dirs(v) = {}
  BY <1>1, <1>2
<1>6. DirsOK(w) /\ Entries(w) = Entries(v) \cup {<<d, n, i>>}
  BY <1>3, <1>4, <1>5, ListsOneMore
<1>7. QED
  BY <1>2, <1>6

LEMMA AddFileKeeps ==
  ASSUME NEW v, VolOK(v), NEW d \in Dirs(v),
         v.mem.inode[d].dentry_num < UnitsPerBlock, NEW n \in Names,
         \A j : <<d, n, j>> \notin Entries(v),
         NEW type \in Kinds \ {"DIRECTORY"}, NEW w, w = AddFile(v, d, n, type)
  PROVE  VolOK(w)
<1>1. CASE FreeInode(v) = -1
  <2>1. w = v
    BY <1>1, NoInodeLeft
  <2>2. QED
    BY <2>1
<1>2. CASE FreeInode(v) # -1
  <2>1. PICK i : i = FreeInode(v)
    OBVIOUS
  <2>2. /\ Sound(v) /\ DirsOK(v) /\ UnusedOK(v) /\ NamesCounted(v) /\ Typed(v)
    BY DEF VolOK, Sound
  <2>3. type \in Kinds
    OBVIOUS
  <2>4. /\ i \in Inodes \ {Root} /\ i \notin v.mem.inode_bitmap
        /\ v.mem.inode[i] = NoInode /\ i \notin Dirs(v)
    BY <1>2, <2>1, <2>2, NewInode
  <2>5. Added(v, w, d, n, i, type)
    BY <1>2, <2>1, <2>2, <2>3, AddsFile
  <2>6. Dirs(w) = Dirs(v) /\ DirsOK(w) /\ Entries(w) = Entries(v) \cup {<<d, n, i>>}
    BY <2>2, <2>3, <2>4, <2>5, AddedNames
  <2>7. w.mem.inode[i].links = 1
    BY <2>3, <2>5, BornType DEF Added
  <2>8. SameLinks(v, w, i)
    BY <2>2, <2>5 DEF Added, NamesCounted, SameLinks
  <2>9. i \in w.mem.inode_bitmap /\ i \in w.disk.inode_bitmap /\ KeepsInodes(v, w)
    BY <2>5 DEF Added, KeepsInodes
  <2>10. UnusedOK(w) /\ NamesCounted(w)
    <3>1. Dirs(w) \subseteq Dirs(v) \cup {i}
      BY <2>6
    <3> DEFINE e == <<d, n, i>>
    <3>2. /\ NamesMore(v, w, e) /\ e[3] = i /\ i \in Inodes \ {Root}
          /\ v.mem.inode[i] = NoInode
      BY <2>4, <2>6 DEF NamesMore, More
    <3> HIDE DEF e
    <3>3. QED
      BY <2>7, <2>8, <2>9, <3>1, <3>2, NewNameKeeps
  <2>11. Sound(w) /\ DiskOK(w)
    BY <2>5, AllSaved DEF Added
  <2>12. QED
    BY <2>6, <2>10, <2>11 DEF VolOK
<1>3. QED
  BY <1>1, <1>2

-----------------------------------------------------------------------------
(***************************************************************************)
(* The first block of a file: mkdir and symlink.                           *)
(***************************************************************************)
\* inode i of x is that of v with one block, a free one of v
FirstBlockTaken(v, x, i, b) ==
  /\ Typed(x) /\ SameDevice(v, x)
  /\ x.mem.datablock_bitmap = v.mem.datablock_bitmap \cup {b}
  /\ \A j \in Inodes : j # i => x.mem.inode[j] = v.mem.inode[j]
  /\ x.mem.inode[i].blocks_number = 1 /\ BlocksNum(x.mem.inode[i].file_size) = 1
  /\ x.mem.inode[i].direct_block[1] = b

LEMMA FirstBlock ==
  ASSUME NEW v, Sound(v), NEW i \in Inodes, v.mem.inode[i].blocks_number = 0,
         NEW b \in Blocks, b \notin v.mem.datablock_bitmap,
         NEW x, FirstBlockTaken(v, x, i, b)
  PROVE  /\ Sound(x) /\ Uses(x, i) = {1} /\ DataUses(x, i) = {1} /\ BlockAt(x, i, 1) = b
         /\ \A j \in Inodes : j # i => SameFile(v, x, j)
<1>1. Uses(x, i) = {1} /\ DataUses(x, i) = {1} /\ BlockAt(x, i, 1) = b
  BY Constants DEF FirstBlockTaken, Uses, DataUses, BlockAt
<1>2. \A j \in Inodes : j # i => SameFile(v, x, j)
  <2> SUFFICES ASSUME NEW j \in Inodes, j # i PROVE SameFile(v, x, j)
    OBVIOUS
  <2>1. x.mem.inode[j] = v.mem.inode[j] /\ x.device = v.device
    BY DEF FirstBlockTaken, SameDevice
  <2>2. QED
    BY <2>1, KeepsFile
<1>3. MarksUsed(x)
  <2> SUFFICES ASSUME NEW j \in Inodes, NEW k \in Uses(x, j)
               PROVE  BlockAt(x, j, k) \in x.mem.datablock_bitmap
    BY DEF MarksUsed
  <2>1. CASE j = i
    BY <1>1, <2>1 DEF FirstBlockTaken
  <2>2. CASE j # i
    <3>1. k \in Uses(v, j) /\ BlockAt(x, j, k) = BlockAt(v, j, k)
      BY <1>2, <2>2 DEF SameFile
    <3>2. BlockAt(v, j, k) \in v.mem.datablock_bitmap
      BY <3>1 DEF Sound, MarksUsed
    <3>3. QED
      BY <3>1, <3>2 DEF FirstBlockTaken
  <2>3. QED
    BY <2>1, <2>2
<1>4. \A j \in Inodes, k \in Nat : j # i /\ k \in Uses(x, j) =>
        /\ k \in Uses(v, j) /\ BlockAt(x, j, k) = BlockAt(v, j, k)
        /\ BlockAt(x, j, k) # b
  <2> SUFFICES ASSUME NEW j \in Inodes, NEW k \in Nat, j # i, k \in Uses(x, j)
               PROVE  /\ k \in Uses(v, j) /\ BlockAt(x, j, k) = BlockAt(v, j, k)
                      /\ BlockAt(x, j, k) # b
    OBVIOUS
  <2>1. k \in Uses(v, j) /\ BlockAt(x, j, k) = BlockAt(v, j, k)
    BY <1>2 DEF SameFile
  <2>2. BlockAt(v, j, k) \in v.mem.datablock_bitmap
    BY <2>1 DEF Sound, MarksUsed
  <2>3. QED
    BY <2>1, <2>2
<1>5. \A j \in Inodes : Uses(x, j) \subseteq Nat
  <2> SUFFICES ASSUME NEW j \in Inodes PROVE Uses(x, j) \subseteq Nat
    OBVIOUS
  <2>1. x.mem.inode[j].blocks_number \in Nat
    BY InodeTypes DEF FirstBlockTaken
  <2>2. QED
    BY <2>1, Constants DEF Uses, DataUses
<1>6. OwnsOnce(x)
  <2> SUFFICES ASSUME NEW j \in Inodes, NEW h \in Inodes,
                      NEW k \in Uses(x, j), NEW l \in Uses(x, h),
                      BlockAt(x, j, k) = BlockAt(x, h, l)
               PROVE  j = h /\ k = l
    BY DEF OwnsOnce
  <2>1. k \in Nat /\ l \in Nat
    BY <1>5
  <2>2. CASE j = i /\ h = i
    BY <1>1, <2>2
  <2>3. CASE j # i /\ h # i
    <3>1. k \in Uses(v, j) /\ l \in Uses(v, h) /\ BlockAt(v, j, k) = BlockAt(v, h, l)
      BY <1>4, <2>1, <2>3
    <3>2. QED
      BY <3>1 DEF Sound, OwnsOnce
  <2>4. CASE j = i /\ h # i
    <3>1. BlockAt(x, h, l) # b
      BY <1>4, <2>1, <2>4
    <3>2. QED
      BY <1>1, <2>4, <3>1
  <2>5. CASE j # i /\ h = i
    <3>1. BlockAt(x, j, k) # b
      BY <1>4, <2>1, <2>5
    <3>2. QED
      BY <1>1, <2>5, <3>1
  <2>6. QED
    BY <2>2, <2>3, <2>4, <2>5
<1>7. Fits(x)
  <2> SUFFICES ASSUME NEW j \in Inodes
               PROVE  /\ x.mem.inode[j].blocks_number = BlocksNum(x.mem.inode[j].file_size)
                      /\ x.mem.inode[j].blocks_number <= Most
    BY DEF Fits
  <2>1. CASE j = i
    BY <2>1, Constants DEF FirstBlockTaken
  <2>2. CASE j # i
    <3>1. x.mem.inode[j] = v.mem.inode[j]
      BY <2>2 DEF FirstBlockTaken
    <3>2. QED
      BY <3>1 DEF Sound, Fits
  <2>3. QED
    BY <2>1, <2>2
<1>8. QED
  BY <1>1, <1>2, <1>3, <1>6, <1>7 DEF Sound, FirstBlockTaken

LEMMA FirstWrite ==
  ASSUME NEW v, Sound(v), NEW i \in Inodes, v.mem.inode[i].blocks_number = 0,
         NEW b \in Blocks, b \notin v.mem.datablock_bitmap,
         NEW x, FirstBlockTaken(v, x, i, b), NEW buf,
         NEW w, w = WriteFile(x, i, buf)
  PROVE  /\ Sound(w) /\ SameMem(x, w) /\ SameDisk(x, w)
         /\ \A j \in Inodes : j # i => SameFile(v, w, j) /\ SameContents(v, w, j)
         /\ \A k : EntryAt(w, i, k) = Block(buf, 1)[k]
<1>1. /\ Sound(x) /\ Uses(x, i) = {1} /\ DataUses(x, i) = {1} /\ BlockAt(x, i, 1) = b
      /\ \A j \in Inodes : j # i => SameFile(v, x, j)
  BY FirstBlock
<1>2. /\ Sound(w) /\ SameFiles(x, w) /\ SameMem(x, w) /\ SameDisk(x, w)
      /\ \A j \in Inodes, k \in Nat : j # i /\ k \in Uses(x, j) =>
           w.device[BlockAt(x, j, k)] = x.device[BlockAt(x, j, k)]
      /\ \A k \in DataUses(x, i) : w.device[BlockAt(x, i, k)] = Block(buf, k)
  BY <1>1, WritesBlocks, WriteKeeps
<1>3. ASSUME NEW j \in Inodes, j # i
      PROVE  SameFile(v, w, j) /\ SameContents(v, w, j)
  <2>1. SameFile(v, x, j) /\ SameFile(x, w, j)
    BY <1>1, <1>2, <1>3 DEF SameFiles
  <2>2. \A k \in Uses(v, j) : k \in Nat /\ k \in Uses(x, j) /\ BlockAt(x, j, k) = BlockAt(v, j, k)
    BY <2>1, UsesBounds DEF SameFile
  <2>3. x.device = v.device
    BY DEF FirstBlockTaken, SameDevice
  <2>4. SameContents(v, w, j)
    BY <1>2, <1>3, <2>2, <2>3 DEF SameContents
  <2>5. QED
    BY <2>1, <2>4 DEF SameFile
<1>4. w.device[BlockAt(w, i, 1)] = Block(buf, 1)
  BY <1>1, <1>2 DEF SameFiles, SameFile
<1>5. QED
  BY <1>2, <1>3, <1>4 DEF EntryAt

WithFirst(v, i, b) == [v EXCEPT !.mem.inode[i].direct_block[1] = b]

LEMMA SetsFirst ==
  ASSUME NEW v, Typed(v), NEW i \in Inodes, NEW b \in Blocks,
         NEW w, w = WithFirst(v, i, b)
  PROVE  /\ Typed(w) /\ SameBitmaps(v, w) /\ SameDisk(v, w) /\ SameDevice(v, w)
         /\ \A j \in Inodes : j # i => w.mem.inode[j] = v.mem.inode[j]
         /\ w.mem.inode[i].direct_block[1] = b
         /\ w.mem.inode[i].file_type = v.mem.inode[i].file_type
         /\ w.mem.inode[i].file_size = v.mem.inode[i].file_size
         /\ w.mem.inode[i].dentry_num = v.mem.inode[i].dentry_num
         /\ w.mem.inode[i].links = v.mem.inode[i].links
         /\ w.mem.inode[i].blocks_number = v.mem.inode[i].blocks_number
<1> DEFINE q == v.mem.inode[i]
           n == [q EXCEPT !.direct_block[1] = b]
<1>1. w = WithInode(v, i, n)
  BY DEF WithFirst, WithInode
<1>2. q \in InodeType
  BY InodeTypes
<1>3. /\ n \in InodeType /\ n.direct_block[1] = b
      /\ n.file_type = q.file_type /\ n.file_size = q.file_size
      /\ n.dentry_num = q.dentry_num /\ n.links = q.links
      /\ n.blocks_number = q.blocks_number
  <2> HIDE DEF q
  <2>1. QED
    BY <1>2, Constants DEF InodeType
<1> HIDE DEF n
<1>4. /\ Typed(w) /\ SameBitmaps(v, w) /\ SameDisk(v, w) /\ SameDevice(v, w)
      /\ w.mem.inode[i] = n
      /\ \A j \in Inodes : j # i => w.mem.inode[j] = v.mem.inode[j]
  BY <1>1, <1>3, SetsInode
<1>5. QED
  BY <1>3, <1>4

(***************************************************************************)
(* mkdir: the new directory gets its block and its first two entries.      *)
(***************************************************************************)
MkdirLeaves(v, d, name) ==
  LET v1 == AddFile(v, d, name, "DIRECTORY")
      i  == FreeInode(v)
      n  == v1.mem.inode[i]
      w  == WithInode(v1, i, [n EXCEPT !.file_size = n.file_size + 2,
                                       !.dentry_num = n.dentry_num + 2,
                                       !.blocks_number = BlocksNum(2)])
      x  == WithFirst(TakeBlock(w), i, FreeBlock(w))
  IN IF FreeBlock(w) = -1 THEN w
     ELSE WriteFile(WriteInodeTable(WriteBlockBitmap(WriteInodeBitmap(x))),
                    i, << <<"..", d>>, <<".", i>> >>)

LEMMA FirstEntries ==
  ASSUME NEW d, NEW i, NEW s, s = Block(<< <<"..", d>>, <<".", i>> >>, 1)
  PROVE  s[1] = <<"..", d>> /\ s[2] = <<".", i>>
<1> DEFINE buf == << <<"..", d>>, <<".", i>> >>
<1>1. Len(buf) = 2 /\ buf[1] = <<"..", d>> /\ buf[2] = <<".", i>>
  OBVIOUS
<1> HIDE DEF buf
<1>2. 1 \in 1..UnitsPerBlock /\ 2 \in 1..UnitsPerBlock
  BY Constants
<1>3. (1 - 1) * UnitsPerBlock + 1 = 1 /\ (1 - 1) * UnitsPerBlock + 2 = 2
  BY Constants
<1>4. Block(buf, 1)[1] = buf[1] /\ Block(buf, 1)[2] = buf[2]
  BY <1>1, <1>2, <1>3 DEF Block
<1>5. QED
  BY <1>1, <1>4 DEF buf

LEMMA OneBlockInode ==
  ASSUME NEW n \in InodeType,
         NEW q, q = [n EXCEPT !.file_size = 2, !.dentry_num = 2, !.blocks_number = 1]
  PROVE  /\ q \in InodeType /\ q.file_size = 2 /\ q.dentry_num = 2 /\ q.links = n.links
         /\ q.file_type = n.file_type /\ q.blocks_number = 1
BY DEF InodeType

\* the inode of the new directory, before its block is recorded in it
LEMMA NewDirectory ==
  ASSUME NEW n, n = Born("DIRECTORY"),
         NEW q, q = [n EXCEPT !.file_size = n.file_size + 2,
                              !.dentry_num = n.dentry_num + 2,
                              !.blocks_number = BlocksNum(2)]
  PROVE  /\ q \in InodeType /\ q.file_size = 2 /\ q.dentry_num = 2 /\ q.links = 1
         /\ q.file_type = "DIRECTORY" /\ q.blocks_number = 1 /\ BlocksNum(2) = 1
<1>1. BlocksNum(2) = 1
  <2>1. 1 \in Nat \ {0} /\ 2 \in Nat /\ (1 - 1) * UnitsPerBlock < 2 /\ 2 <= 1 * UnitsPerBlock
    BY Constants
  <2>2. QED
    BY <2>1, BlocksOfUnit
<1>2. /\ n \in InodeType /\ n.file_size = 0 /\ n.dentry_num = 0 /\ n.links = 1
      /\ n.file_type = "DIRECTORY"
  <2>1. "DIRECTORY" \in Kinds
    BY DEF Kinds
  <2>2. QED
    BY <2>1, BornType
<1>3. q = [n EXCEPT !.file_size = 2, !.dentry_num = 2, !.blocks_number = 1]
  <2>1. n.file_size + 2 = 2 /\ n.dentry_num + 2 = 2
    BY <1>2
  <2>2. QED
    BY <1>1, <2>1, Zenon
<1>4. /\ q \in InodeType /\ q.file_size = 2 /\ q.dentry_num = 2 /\ q.links = n.links
      /\ q.file_type = n.file_type /\ q.blocks_number = 1
  BY <1>2, <1>3, OneBlockInode, Zenon
<1>5. QED
  BY <1>1, <1>2, <1>4

LEMMA MkdirKeeps ==
  ASSUME NEW v, VolOK(v), NEW d \in Dirs(v),
         v.mem.inode[d].dentry_num < UnitsPerBlock, NEW n \in Names,
         \A j : <<d, n, j>> \notin Entries(v),
         FreeInode(v) # -1, FreeBlock(v) # -1,
         NEW u, u = MkdirLeaves(v, d, n)
  PROVE  VolOK(u)
<1>1. PICK i, b : i = FreeInode(v) /\ b = FreeBlock(v)
  OBVIOUS
<1>2. /\ Sound(v) /\ DirsOK(v) /\ UnusedOK(v) /\ NamesCounted(v) /\ Typed(v)
      /\ "DIRECTORY" \in Kinds
  BY DEF VolOK, Sound, Kinds
<1>3. /\ i \in Inodes \ {Root} /\ i \notin v.mem.inode_bitmap /\ i # d
      /\ v.mem.inode[i] = NoInode /\ i \notin Dirs(v)
  BY <1>1, <1>2, NewInode
<1>4. b \in Blocks /\ b \notin v.mem.datablock_bitmap
  BY <1>1, AvailableBit, Constants DEF FreeBlock
<1>5. PICK m, l \in Nat :
        /\ m = v.mem.inode[d].dentry_num /\ m = v.mem.inode[d].file_size /\ l = m + 1
        /\ m \in 1..UnitsPerBlock /\ l \in 1..UnitsPerBlock /\ 2 <= m
        /\ m < UnitsPerBlock /\ d \in Inodes
  BY <1>2, HasRoom
<1> DEFINE v1 == AddFile(v, d, n, "DIRECTORY")
           q == [v1.mem.inode[i] EXCEPT !.file_size = v1.mem.inode[i].file_size + 2,
                                        !.dentry_num = v1.mem.inode[i].dentry_num + 2,
                                        !.blocks_number = BlocksNum(2)]
           w == WithInode(v1, i, q)
           t == TakeBlock(w)
           x == WithFirst(t, i, b)
           y == WriteInodeTable(WriteBlockBitmap(WriteInodeBitmap(x)))
           buf == << <<"..", d>>, <<".", i>> >>
<1>6. Added(v, v1, d, n, i, "DIRECTORY")
  BY <1>1, <1>2, AddsFile
<1>7. u = IF FreeBlock(w) = -1 THEN w
          ELSE WriteFile(WriteInodeTable(WriteBlockBitmap(WriteInodeBitmap(
                   WithFirst(t, i, FreeBlock(w))))), i, buf)
  BY <1>1, Zenon DEF MkdirLeaves
<1> HIDE DEF v1
<1>8. /\ Sound(v1) /\ Typed(v1) /\ v1.mem.inode[i] = Born("DIRECTORY")
      /\ v1.mem.datablock_bitmap = v.mem.datablock_bitmap
      /\ v1.mem.inode_bitmap = v.mem.inode_bitmap \cup {i}
      /\ v1.mem.inode[i].blocks_number = 0
  <2>1. v1.mem.inode[i] = Born("DIRECTORY")
    BY <1>6 DEF Added
  <2>2. v1.mem.inode[i].blocks_number = 0
    BY <1>2, <2>1, BornType
  <2>3. QED
    BY <1>6, <2>1, <2>2 DEF Added, Sound
<1>9. /\ q \in InodeType /\ q.file_size = 2 /\ q.dentry_num = 2 /\ q.links = 1
      /\ q.file_type = "DIRECTORY" /\ q.blocks_number = 1 /\ BlocksNum(2) = 1
  BY <1>8, NewDirectory
<1> HIDE DEF q
<1>10. /\ Typed(w) /\ SameBitmaps(v1, w) /\ SameDisk(v1, w) /\ SameDevice(v1, w)
       /\ w.mem.inode[i] = q
       /\ \A j \in Inodes : j # i => w.mem.inode[j] = v1.mem.inode[j]
  BY <1>3, <1>8, <1>9, SetsInode
<1> HIDE DEF w
<1>11. FreeBlock(w) = b /\ FreeBlock(w) # -1
  BY <1>1, <1>8, <1>10 DEF FreeBlock, SameBitmaps
<1>12. u = WriteFile(y, i, buf)
  BY <1>7, <1>11
<1>13. /\ Typed(t) /\ SameDisk(w, t) /\ SameDevice(w, t)
       /\ t.mem.inode = w.mem.inode
       /\ t.mem.inode_bitmap = w.mem.inode_bitmap
       /\ t.mem.datablock_bitmap = w.mem.datablock_bitmap \cup {b}
  BY <1>4, <1>10, <1>11, TakesBlock
<1> HIDE DEF t
<1>14. /\ Typed(x) /\ SameBitmaps(t, x) /\ SameDisk(t, x) /\ SameDevice(t, x)
       /\ \A j \in Inodes : j # i => x.mem.inode[j] = t.mem.inode[j]
       /\ x.mem.inode[i].direct_block[1] = b
       /\ x.mem.inode[i].file_type = t.mem.inode[i].file_type
       /\ x.mem.inode[i].file_size = t.mem.inode[i].file_size
       /\ x.mem.inode[i].dentry_num = t.mem.inode[i].dentry_num
       /\ x.mem.inode[i].links = t.mem.inode[i].links
       /\ x.mem.inode[i].blocks_number = t.mem.inode[i].blocks_number
  BY <1>3, <1>4, <1>13, SetsFirst
<1> HIDE DEF x
<1>15. Typed(y) /\ SameMem(x, y) /\ SameDevice(x, y) /\ y.disk = x.mem
  BY <1>14, SavesAll
<1> HIDE DEF y, buf
<1>16. /\ y.mem.inode[i].file_size = 2 /\ y.mem.inode[i].dentry_num = 2
       /\ y.mem.inode[i].links = 1 /\ y.mem.inode[i].file_type = "DIRECTORY"
       /\ y.mem.inode[i].blocks_number = 1 /\ y.mem.inode[i].direct_block[1] = b
       /\ \A j \in Inodes : j # i => y.mem.inode[j] = v1.mem.inode[j]
       /\ y.mem.inode_bitmap = v1.mem.inode_bitmap
       /\ y.mem.datablock_bitmap = v1.mem.datablock_bitmap \cup {b}
  BY <1>9, <1>10, <1>13, <1>14, <1>15 DEF SameMem, SameBitmaps
<1>17. FirstBlockTaken(v1, y, i, b)
  BY <1>9, <1>10, <1>13, <1>14, <1>15, <1>16 DEF FirstBlockTaken, SameDevice
<1>18. /\ Sound(u) /\ SameMem(y, u) /\ SameDisk(y, u)
       /\ \A j \in Inodes : j # i => SameFile(v1, u, j) /\ SameContents(v1, u, j)
       /\ \A k : EntryAt(u, i, k) = Block(buf, 1)[k]
  BY <1>3, <1>4, <1>8, <1>12, <1>17, FirstWrite
<1>19. FirstTwo(u, i)
  <2>1. EntryAt(u, i, 1) = <<"..", d>> /\ EntryAt(u, i, 2) = <<".", i>>
    BY <1>18, FirstEntries DEF buf
  <2>2. QED
    BY <2>1 DEF FirstTwo
<1>20. \A j \in Inodes : j # i => u.mem.inode[j] = v1.mem.inode[j]
  BY <1>16, <1>18 DEF SameMem
<1>21. Dirs(u) = Dirs(v) \cup {i}
  <2>1. \A j \in Inodes : j # i => u.mem.inode[j].file_type = v.mem.inode[j].file_type
    BY <1>6, <1>20 DEF Added
  <2>2. u.mem.inode[i].file_type = "DIRECTORY"
    BY <1>16, <1>18 DEF SameMem
  <2>3. QED
    BY <1>3, <2>1, <2>2 DEF Dirs
<1>22. \A c \in Dirs(v) : c # d => SameListing(v, u, c)
  <2> SUFFICES ASSUME NEW c \in Dirs(v), c # d PROVE SameListing(v, u, c)
    OBVIOUS
  <2>1. c \in Inodes /\ v.mem.inode[c].file_size \in 1..UnitsPerBlock /\ c # i
    BY <1>2, <1>3, Constants DEF DirsOK, DirsFit, Dirs
  <2>2. SameFile(v, v1, c) /\ SameContents(v, v1, c) /\ v1.mem.inode[c] = v.mem.inode[c]
    BY <1>6, <2>1 DEF Added, SameFiles
  <2>3. \A k : EntryAt(v1, c, k) = EntryAt(v, c, k)
    BY <1>2, <2>1, <2>2, KeepsEntries
  <2>4. \A k : EntryAt(u, c, k) = EntryAt(v1, c, k)
    BY <1>8, <1>18, <2>1, <2>2, KeepsEntries
  <2>5. QED
    BY <1>20, <2>1, <2>2, <2>3, <2>4 DEF SameListing
<1>23. \A k : EntryAt(u, d, k) = EntryAt(v1, d, k)
  <2>1. v1.mem.inode[d].file_size \in 1..UnitsPerBlock
    BY <1>5, <1>6 DEF Added
  <2>2. QED
    BY <1>3, <1>5, <1>8, <1>18, <2>1, KeepsEntries
<1>24. /\ EntryNum(v, d, m) /\ u.mem.inode[d].file_size = m + 1
       /\ u.mem.inode[d].dentry_num = m + 1
       /\ EntryAt(u, d, m + 1) = <<n, i>>
       /\ \A k \in 1..m : EntryAt(u, d, k) = EntryAt(v, d, k)
  BY <1>3, <1>5, <1>6, <1>20, <1>23 DEF Added, EntryNum
<1>25. \A c \in Dirs(u) \ Dirs(v) :
         u.mem.inode[c].file_size = 2 /\ u.mem.inode[c].dentry_num = 2 /\ FirstTwo(u, c)
  BY <1>16, <1>18, <1>19, <1>21 DEF SameMem
<1>26. DirsOK(u) /\ Entries(u) = Entries(v) \cup {<<d, n, i>>}
  <2>1. m < UnitsPerBlock /\ Dirs(v) \subseteq Dirs(u)
    BY <1>5, <1>21
  <2>2. QED
    BY <1>2, <1>3, <1>22, <1>24, <1>25, <2>1, ListsOneMore
<1>27. u.disk = u.mem
  BY <1>15, <1>18 DEF SameMem, SameDisk
<1>28. UnusedOK(u) /\ NamesCounted(u)
  <2>1. Dirs(u) \subseteq Dirs(v) \cup {i} /\ i \in Inodes \ {Root} /\ v.mem.inode[i] = NoInode
    BY <1>3, <1>21
  <2> DEFINE e == <<d, n, i>>
  <2>2. NamesMore(v, u, e) /\ e[3] = i
    BY <1>26 DEF NamesMore, More
  <2> HIDE DEF e
  <2>3. SameLinks(v, u, i)
    BY <1>2, <1>6, <1>20 DEF Added, NamesCounted, SameLinks
  <2>4. u.mem.inode[i].links = 1
    BY <1>16, <1>18 DEF SameMem
  <2>5. i \in u.mem.inode_bitmap /\ i \in u.disk.inode_bitmap /\ KeepsInodes(v, u)
    BY <1>8, <1>16, <1>18, <1>27 DEF SameMem, KeepsInodes
  <2>6. QED
    BY <2>1, <2>2, <2>3, <2>4, <2>5, NewNameKeeps
<1>29. QED
  BY <1>18, <1>26, <1>27, <1>28, AllSaved DEF VolOK

(***************************************************************************)
(* symlink: what was added gets a block, and nothing of that is saved.     *)
(***************************************************************************)
\* all inodes keep their links and their names
SameCounts(v, w) ==
  /\ Entries(w) = Entries(v) /\ Dirs(w) = Dirs(v)
  /\ \A j \in Inodes : /\ w.mem.inode[j].links = v.mem.inode[j].links
                       /\ v.mem.inode[j].links = 0 => w.mem.inode[j] = v.mem.inode[j]
  /\ v.mem.inode_bitmap \subseteq w.mem.inode_bitmap
  /\ v.disk.inode_bitmap \subseteq w.disk.inode_bitmap

LEMMA SameCountsKeeps ==
  ASSUME NEW v, UnusedOK(v), NamesCounted(v), NEW w, SameCounts(v, w)
  PROVE  UnusedOK(w) /\ NamesCounted(w)
<1>1. UnusedOK(w)
  <2> SUFFICES ASSUME NEW j \in Inodes
               PROVE  IF w.mem.inode[j].links = 0 THEN w.mem.inode[j] = NoInode
                      ELSE j \in w.mem.inode_bitmap /\ j \in w.disk.inode_bitmap
    BY DEF UnusedOK
  <2>1. QED
    BY DEF UnusedOK, SameCounts
<1>2. \A c \in Dirs(w) : w.mem.inode[c].links = 1
  <2> SUFFICES ASSUME NEW c \in Dirs(w) PROVE w.mem.inode[c].links = 1
    OBVIOUS
  <2>1. c \in Inodes /\ c \in Dirs(v)
    BY DEF Dirs, SameCounts
  <2>2. QED
    BY <2>1 DEF NamesCounted, SameCounts
<1>3. QED
  BY <1>1, <1>2 DEF NamesCounted, SameCounts

SymlinkLeaves(v, d, name, target) ==
  LET v1 == AddFile(v, d, name, "SOFT_LINK")
      i  == FreeInode(v)
      n  == v1.mem.inode[i]
      w  == WithInode(TakeBlock(v1), i, [n EXCEPT !.direct_block[1] = FreeBlock(v1),
                                                  !.file_size = 1, !.blocks_number = 1])
  IN IF ~FileAdded(v, d) \/ FreeBlock(v1) = -1 THEN v1
     ELSE WriteFile(w, i, <<target>>)

LinkOf(n, b) == [n EXCEPT !.direct_block[1] = b, !.file_size = 1, !.blocks_number = 1]

LEMMA LinkInode ==
  ASSUME NEW n \in InodeType, NEW b \in Blocks, NEW q, q = LinkOf(n, b)
  PROVE  /\ q \in InodeType /\ q.file_size = 1 /\ q.blocks_number = 1
         /\ q.direct_block[1] = b /\ q.links = n.links /\ q.file_type = n.file_type
BY Constants DEF InodeType, LinkOf

LEMMA SymlinkKeeps ==
  ASSUME NEW v, VolOK(v), NEW d \in Dirs(v),
         v.mem.inode[d].dentry_num < UnitsPerBlock, NEW n \in Names,
         \A j : <<d, n, j>> \notin Entries(v), NEW target,
         NEW u, u = SymlinkLeaves(v, d, n, target)
  PROVE  VolOK(u)
<1> DEFINE v1 == AddFile(v, d, n, "SOFT_LINK")
<1>1. "SOFT_LINK" \in Kinds \ {"DIRECTORY"}
  BY DEF Kinds
<1>2. VolOK(v1)
  BY <1>1, AddFileKeeps
<1>3. CASE ~FileAdded(v, d) \/ FreeBlock(v1) = -1
  <2>1. u = v1
    BY <1>3 DEF SymlinkLeaves
  <2>2. QED
    BY <1>2, <2>1
<1>4. CASE FileAdded(v, d) /\ FreeBlock(v1) # -1
  <2>1. PICK i, b : i = FreeInode(v) /\ b = FreeBlock(v1)
    OBVIOUS
  <2>2. Sound(v) /\ DirsOK(v) /\ UnusedOK(v) /\ Typed(v) /\ i # -1
    BY <1>4, <2>1 DEF VolOK, Sound, FileAdded
  <2>3. i \in Inodes \ {Root} /\ i \notin Dirs(v)
    BY <2>1, <2>2, NewInode
  <2>4. Added(v, v1, d, n, i, "SOFT_LINK")
    BY <1>1, <2>1, <2>2, AddsFile
  <2> DEFINE q == LinkOf(v1.mem.inode[i], b)
             t == TakeBlock(v1)
             w == WithInode(t, i, q)
             buf == <<target>>
  <2>5. u = WriteFile(w, i, buf)
    <3>1. u = IF ~FileAdded(v, d) \/ FreeBlock(v1) = -1 THEN v1 ELSE WriteFile(w, i, buf)
      BY <2>1, Zenon DEF SymlinkLeaves, LinkOf
    <3>2. QED
      BY <1>4, <3>1
  <2>6. b \in Blocks /\ b \notin v1.mem.datablock_bitmap
    <3> HIDE DEF v1
    <3>1. QED
      BY <1>4, <2>1, AvailableBit, Constants DEF FreeBlock
  <2> HIDE DEF v1
  <2>7. /\ Sound(v1) /\ Typed(v1) /\ DirsOK(v1) /\ UnusedOK(v1) /\ NamesCounted(v1) /\ DiskOK(v1)
    BY <1>2 DEF VolOK, Sound
  <2>8. /\ v1.mem.inode[i] \in InodeType /\ v1.mem.inode[i].blocks_number = 0
        /\ v1.mem.inode[i].links = 1 /\ v1.mem.inode[i].file_type = "SOFT_LINK"
    <3>1. v1.mem.inode[i] = Born("SOFT_LINK")
      BY <2>4 DEF Added
    <3>2. QED
      BY <1>1, <3>1, BornType
  <2>9. /\ q \in InodeType /\ q.file_size = 1 /\ q.blocks_number = 1
        /\ q.direct_block[1] = b /\ q.links = 1 /\ q.file_type = "SOFT_LINK"
    BY <2>6, <2>8, LinkInode
  <2> HIDE DEF q
  <2>10. /\ Typed(t) /\ SameDisk(v1, t) /\ SameDevice(v1, t)
         /\ t.mem.inode = v1.mem.inode
         /\ t.mem.inode_bitmap = v1.mem.inode_bitmap
         /\ t.mem.datablock_bitmap = v1.mem.datablock_bitmap \cup {b}
    BY <2>1, <2>6, <2>7, TakesBlock
  <2> HIDE DEF t
  <2>11. /\ Typed(w) /\ SameBitmaps(t, w) /\ SameDisk(t, w) /\ SameDevice(t, w)
         /\ w.mem.inode[i] = q
         /\ \A j \in Inodes : j # i => w.mem.inode[j] = t.mem.inode[j]
    BY <2>3, <2>9, <2>10, SetsInode
  <2> HIDE DEF w, buf
  <2>12. BlocksNum(1) = 1
    <3>1. 1 \in Nat \ {0} /\ (1 - 1) * UnitsPerBlock < 1 /\ 1 <= 1 * UnitsPerBlock
      BY Constants
    <3>2. QED
      BY <3>1, BlocksOfUnit
  <2>13. FirstBlockTaken(v1, w, i, b)
    BY <2>9, <2>10, <2>11, <2>12 DEF FirstBlockTaken, SameDevice, SameBitmaps
  <2>14. /\ Sound(u) /\ SameMem(w, u) /\ SameDisk(w, u)
         /\ \A j \in Inodes : j # i => SameFile(v1, u, j) /\ SameContents(v1, u, j)
    BY <2>3, <2>5, <2>6, <2>7, <2>8, <2>13, FirstWrite
  <2>15. /\ \A j \in Inodes : j # i => u.mem.inode[j] = v1.mem.inode[j]
         /\ u.mem.inode[i] = q
         /\ u.mem.inode_bitmap = v1.mem.inode_bitmap
         /\ u.disk = v1.disk
    BY <2>10, <2>11, <2>14 DEF SameMem, SameDisk, SameBitmaps
  <2>16. Dirs(u) = Dirs(v1) /\ i \notin Dirs(v1)
    BY <2>8, <2>9, <2>15 DEF Dirs
  <2>17. \A c \in Dirs(v1) : /\ u.mem.inode[c].file_size = v1.mem.inode[c].file_size
                             /\ u.mem.inode[c].dentry_num = v1.mem.inode[c].dentry_num
                             /\ SameFile(v1, u, c) /\ SameContents(v1, u, c)
    BY <2>14, <2>15, <2>16 DEF Dirs
  <2>18. DirsOK(u) /\ Entries(u) = Entries(v1)
    BY <2>7, <2>16, <2>17, NamesSame
  <2>19. SameCounts(v1, u)
    BY <2>8, <2>9, <2>15, <2>16, <2>18 DEF SameCounts
  <2>20. UnusedOK(u) /\ NamesCounted(u)
    BY <2>7, <2>19, SameCountsKeeps
  <2>21. DiskOK(u)
    <3> SUFFICES ASSUME NEW j \in Inodes, u.mem.inode[j].file_type # "SOFT_LINK"
                 PROVE  /\ u.disk.inode[j] = u.mem.inode[j]
                        /\ \A k \in Uses(u, j) : BlockAt(u, j, k) \in u.disk.datablock_bitmap
      BY DEF DiskOK
    <3>1. j # i
      BY <2>9, <2>15
    <3>2. u.mem.inode[j] = v1.mem.inode[j] /\ u.disk = v1.disk /\ SameFile(v1, u, j)
      BY <2>14, <2>15, <3>1
    <3>3. /\ v1.disk.inode[j] = v1.mem.inode[j]
          /\ \A k \in Uses(v1, j) : BlockAt(v1, j, k) \in v1.disk.datablock_bitmap
      BY <2>7, <3>2 DEF DiskOK
    <3>4. QED
      BY <3>2, <3>3 DEF SameFile
  <2>22. QED
    BY <2>14, <2>18, <2>20, <2>21 DEF VolOK
<1>5. QED
  BY <1>3, <1>4

-----------------------------------------------------------------------------
(***************************************************************************)
(* Blocks of one file are given up.                                        *)
(***************************************************************************)
\* what one file must satisfy when all others keep what they have
FileOK(w, i) ==
  /\ w.mem.inode[i].blocks_number = BlocksNum(w.mem.inode[i].file_size)
  /\ w.mem.inode[i].blocks_number <= Most
  /\ \A k \in Uses(w, i) : BlockAt(w, i, k) \in w.mem.datablock_bitmap
  /\ \A k, l \in Uses(w, i) : BlockAt(w, i, k) = BlockAt(w, i, l) => k = l

\* the blocks of file i in w are none that others have, and those stay marked
Apart(v, w, i) ==
  \A j \in Inodes : j # i =>
    /\ SameFile(v, w, j) /\ w.mem.inode[j] = v.mem.inode[j]
    /\ \A l \in Uses(v, j) : /\ BlockAt(v, j, l) \in w.mem.datablock_bitmap
                             /\ \A k \in Uses(w, i) : BlockAt(w, i, k) # BlockAt(v, j, l)

LEMMA OneFileChanged ==
  ASSUME NEW v, Sound(v), NEW i \in Inodes, NEW w, Typed(w), FileOK(w, i), Apart(v, w, i)
  PROVE  Sound(w)
<1>1. \A j \in Inodes : \A l : j # i /\ l \in Uses(w, j) =>
        /\ l \in Uses(v, j) /\ BlockAt(w, j, l) = BlockAt(v, j, l)
        /\ BlockAt(w, j, l) \in w.mem.datablock_bitmap
        /\ \A k \in Uses(w, i) : BlockAt(w, i, k) # BlockAt(w, j, l)
  BY DEF Apart, SameFile
<1>2. MarksUsed(w)
  BY <1>1 DEF MarksUsed, FileOK
<1>3. OwnsOnce(w)
  <2> SUFFICES ASSUME NEW j \in Inodes, NEW h \in Inodes,
                      NEW k \in Uses(w, j), NEW l \in Uses(w, h),
                      BlockAt(w, j, k) = BlockAt(w, h, l)
               PROVE  j = h /\ k = l
    BY DEF OwnsOnce
  <2>1. CASE j = i \/ h = i
    <3>1. j = i /\ h = i
      BY <1>1, <2>1
    <3>2. QED
      BY <3>1 DEF FileOK
  <2>2. CASE j # i /\ h # i
    <3>1. k \in Uses(v, j) /\ l \in Uses(v, h) /\ BlockAt(v, j, k) = BlockAt(v, h, l)
      BY <1>1, <2>2
    <3>2. QED
      BY <3>1 DEF Sound, OwnsOnce
  <2>3. QED
    BY <2>1, <2>2
<1>4. Fits(w)
  BY DEF Fits, FileOK, Apart, Sound
<1>5. QED
  BY <1>2, <1>3, <1>4 DEF Sound

\* the volume with other bits and one inode changed
WithAll(v, ib, db, i, n) ==
  [v EXCEPT !.mem.datablock_bitmap = db, !.mem.inode_bitmap = ib, !.mem.inode[i] = n]

LEMMA SetsTables ==
  ASSUME NEW v, Typed(v), NEW ib \in SUBSET Inodes, NEW db \in SUBSET Blocks,
         NEW i \in Inodes, NEW n \in InodeType, NEW w, w = WithAll(v, ib, db, i, n)
  PROVE  /\ Typed(w) /\ SameDisk(v, w) /\ SameDevice(v, w)
         /\ w.mem.inode[i] = n
         /\ \A j \in Inodes : j # i => w.mem.inode[j] = v.mem.inode[j]
         /\ w.mem.inode_bitmap = ib /\ w.mem.datablock_bitmap = db
BY DEF Typed, SameDisk, SameDevice, TablesType, WithAll

\* what stays of the blocks of a file, when those freed are others of its own
FreedOf(v, i, K) == {BlockAt(v, i, k) : k \in K}

LEMMA GivesUp ==
  ASSUME NEW v, Sound(v), NEW i \in Inodes, NEW K \in SUBSET Uses(v, i),
         NEW w, Typed(w), SameDevice(v, w),
         \A j \in Inodes : j # i => w.mem.inode[j] = v.mem.inode[j],
         v.mem.datablock_bitmap \ FreedOf(v, i, K) \subseteq w.mem.datablock_bitmap,
         \A k \in Uses(w, i) : /\ k \in Uses(v, i) \ K
                               /\ BlockAt(w, i, k) = BlockAt(v, i, k),
         w.mem.inode[i].blocks_number = BlocksNum(w.mem.inode[i].file_size),
         w.mem.inode[i].blocks_number <= Most
  PROVE  /\ Sound(w)
         /\ \A j \in Inodes : j # i => SameFile(v, w, j) /\ SameContents(v, w, j)
<1>1. ASSUME NEW j \in Inodes, j # i
      PROVE  SameFile(v, w, j) /\ SameContents(v, w, j)
  <2>1. w.mem.inode[j] = v.mem.inode[j] /\ w.device = v.device
    BY <1>1 DEF SameDevice
  <2>2. QED
    BY <2>1, KeepsFile DEF SameContents
<1>2. \A j \in Inodes : \A l : l \in Uses(v, j) =>
        /\ BlockAt(v, j, l) \in v.mem.datablock_bitmap
        /\ \A k \in Uses(v, i) : BlockAt(v, i, k) = BlockAt(v, j, l) => i = j /\ k = l
  BY DEF Sound, MarksUsed, OwnsOnce
<1>3. FileOK(w, i)
  BY <1>2 DEF FileOK, FreedOf
<1>4. Apart(v, w, i)
  BY <1>1, <1>2 DEF Apart, FreedOf
<1>5. QED
  BY <1>1, <1>3, <1>4, OneFileChanged

LEMMA Recycles ==
  ASSUME NEW v, Sound(v), NEW i \in Inodes, NEW w, w = Recycle(v, i)
  PROVE  /\ Sound(w) /\ w.disk = w.mem
         /\ \A j \in Inodes : j # i => /\ SameFile(v, w, j) /\ SameContents(v, w, j)
                                       /\ w.mem.inode[j] = v.mem.inode[j]
         /\ w.mem.inode[i] = NoInode
         /\ w.mem.inode_bitmap = v.mem.inode_bitmap \ {i}
<1> DEFINE n == v.mem.inode[i]
           freed == ToSet(DatablockIndex(v, i))
                    \cup (IF n.blocks_number > Direct THEN {n.indirect_block} ELSE {})
           ib == v.mem.inode_bitmap \ {i}
           db == v.mem.datablock_bitmap \ freed
           x == WithAll(v, ib, db, i, NoInode)
           K == DataUses(v, i) \cup (IF n.blocks_number > Direct THEN {FirstIndex} ELSE {})
<1>1. w = WriteInodeTable(WriteBlockBitmap(WriteInodeBitmap(x)))
  BY Zenon DEF Recycle, WithAll, Direct
<1>2. /\ ib \in SUBSET Inodes /\ db \in SUBSET Blocks /\ NoInode \in InodeType
      /\ Typed(v) /\ n.blocks_number \in Nat
  BY InodeTypes, Constants DEF Sound
<1>3. K \in SUBSET Uses(v, i) /\ freed = FreedOf(v, i, K)
  <2>1. /\ ToSet(DatablockIndex(v, i)) = {BlockAt(v, i, k) : k \in DataUses(v, i)}
        /\ DataUses(v, i) \subseteq Uses(v, i)
        /\ n.blocks_number > Direct => FirstIndex \in Uses(v, i)
    BY DataBlocks, UsesBounds
  <2>2. BlockAt(v, i, FirstIndex) = n.indirect_block
    BY IndexBlocks
  <2>3. CASE n.blocks_number > Direct
    <3>1. K = DataUses(v, i) \cup {FirstIndex} /\ freed = ToSet(DatablockIndex(v, i)) \cup {n.indirect_block}
      BY <2>3
    <3> HIDE DEF K, freed
    <3>2. QED
      BY <2>1, <2>2, <2>3, <3>1 DEF FreedOf
  <2>4. CASE ~(n.blocks_number > Direct)
    <3>1. K = DataUses(v, i) /\ freed = ToSet(DatablockIndex(v, i))
      BY <2>4
    <3> HIDE DEF K, freed
    <3>2. QED
      BY <2>1, <3>1 DEF FreedOf
  <2>5. QED
    BY <2>3, <2>4
<1> HIDE DEF K, freed
<1>4. /\ Typed(x) /\ SameDevice(v, x) /\ x.mem.inode[i] = NoInode
      /\ \A j \in Inodes : j # i => x.mem.inode[j] = v.mem.inode[j]
      /\ x.mem.inode_bitmap = ib /\ x.mem.datablock_bitmap = db
  <2> HIDE DEF ib, db, x
  <2>1. x = WithAll(v, ib, db, i, NoInode)
    BY DEF x
  <2>2. QED
    BY <1>2, <2>1, SetsTables
<1> HIDE DEF x
<1>5. /\ Typed(w) /\ SameMem(x, w) /\ SameDevice(x, w) /\ w.disk = x.mem
  BY <1>1, <1>4, SavesAll
<1>6. /\ w.mem.inode[i] = NoInode /\ SameDevice(v, w)
      /\ w.mem.inode_bitmap = ib /\ w.mem.datablock_bitmap = db /\ w.disk = w.mem
      /\ \A j \in Inodes : j # i => w.mem.inode[j] = v.mem.inode[j]
  BY <1>4, <1>5 DEF SameMem, SameDevice
<1>7. /\ w.mem.inode[i].blocks_number = 0 /\ w.mem.inode[i].file_size = 0
      /\ BlocksNum(0) = 0
  BY <1>6 DEF NoInode, BlocksNum, CeilDivision
<1>8. Uses(w, i) = {}
  BY <1>7, Constants DEF Uses, DataUses
<1>9. v.mem.datablock_bitmap \ FreedOf(v, i, K) \subseteq w.mem.datablock_bitmap
  BY <1>3, <1>6
<1>10. /\ Sound(w)
       /\ \A j \in Inodes : j # i => SameFile(v, w, j) /\ SameContents(v, w, j)
  <2>1. \A k \in Uses(w, i) : /\ k \in Uses(v, i) \ K
                              /\ BlockAt(w, i, k) = BlockAt(v, i, k)
    BY <1>8
  <2>2. w.mem.inode[i].blocks_number = BlocksNum(w.mem.inode[i].file_size)
        /\ w.mem.inode[i].blocks_number <= Most
    BY <1>7, Constants
  <2>3. QED
    BY <1>3, <1>5, <1>6, <1>9, <2>1, <2>2, GivesUp
<1>11. QED
  BY <1>6, <1>10

-----------------------------------------------------------------------------
(***************************************************************************)
(* rmdir, rename, unlink and link.                                         *)
(***************************************************************************)
\* directories that list nothing may go
LEMMA NamesLeft ==
  ASSUME NEW v, Sound(v), DirsOK(v), NEW w, Dirs(w) \subseteq Dirs(v), Root \in Dirs(w),
         \A d \in Dirs(w) : /\ w.mem.inode[d] = v.mem.inode[d]
                            /\ SameFile(v, w, d) /\ SameContents(v, w, d),
         \A d \in Dirs(v) : d \notin Dirs(w) => Listed(v, d) = {}
  PROVE  DirsOK(w) /\ Entries(w) = Entries(v)
<1>1. ASSUME NEW c \in Dirs(w)
      PROVE  SameListing(v, w, c)
  <2>1. c \in Inodes /\ v.mem.inode[c].file_size \in 1..UnitsPerBlock
    BY Constants DEF Dirs, DirsOK, DirsFit
  <2>2. \A k : EntryAt(w, c, k) = EntryAt(v, c, k)
    BY <2>1, KeepsEntries
  <2>3. QED
    BY <2>2 DEF SameListing
<1>2. \A c \in Dirs(w) : /\ EntriesOK(w, c) /\ Listed(w, c) = Listed(v, c)
                         /\ w.mem.inode[c].file_size = w.mem.inode[c].dentry_num
                         /\ w.mem.inode[c].dentry_num \in 2..UnitsPerBlock
  BY <1>1, SameListingKeeps
<1>3. DirsOK(w)
  BY <1>2 DEF DirsOK, DirsFit
<1>4. ASSUME NEW c, NEW o, NEW j
      PROVE  <<c, o, j>> \in Entries(w) <=> <<c, o, j>> \in Entries(v)
  <2>1. CASE c \in Dirs(w)
    <3>1. \A k : EntryAt(w, c, k) = EntryAt(v, c, k)
      BY <1>1, <2>1 DEF SameListing
    <3>2. QED
      BY <1>2, <2>1, <3>1, EntryIn
  <2>2. CASE c \notin Dirs(w)
    BY <2>2, EntryIn
  <2>3. QED
    BY <2>1, <2>2
<1>5. \A e \in Entries(w) : e \in Entries(v)
  BY <1>4, EntryIsTriple
<1>6. \A e \in Entries(v) : e \in Entries(w)
  BY <1>4, EntryIsTriple
<1>7. QED
  BY <1>3, <1>5, <1>6

(***************************************************************************)
(* w is v but for what directories list, with the inodes saved.            *)
(***************************************************************************)
KeepsTables(v, w) ==
  /\ Sound(w) /\ SameFiles(v, w)
  /\ w.mem.inode_bitmap = v.mem.inode_bitmap
  /\ w.disk.inode_bitmap = v.disk.inode_bitmap
  /\ w.disk.datablock_bitmap = v.disk.datablock_bitmap
  /\ w.disk.inode = w.mem.inode
  /\ \A j \in Inodes : /\ w.mem.inode[j].file_type = v.mem.inode[j].file_type
                       /\ w.mem.inode[j].links = v.mem.inode[j].links
                       /\ j \notin Dirs(v) => w.mem.inode[j] = v.mem.inode[j]

LEMMA RelistedKeeps ==
  ASSUME NEW v, NEW w, NEW d \in Dirs(v), OneRelisted(v, w, d)
  PROVE  KeepsTables(v, w) /\ Dirs(w) = Dirs(v)
<1>1. KeepsTables(v, w)
  BY DEF OneRelisted, KeepsTables
<1>2. QED
  BY <1>1 DEF KeepsTables, Dirs

LEMMA TwiceKeeps ==
  ASSUME NEW u, NEW v, NEW w, KeepsTables(u, v), Dirs(v) = Dirs(u), KeepsTables(v, w)
  PROVE  KeepsTables(u, w)
<1>1. SameFiles(u, w)
  BY DEF KeepsTables, SameFiles, SameFile
<1>2. \A j \in Inodes : /\ w.mem.inode[j].file_type = u.mem.inode[j].file_type
                        /\ w.mem.inode[j].links = u.mem.inode[j].links
                        /\ j \notin Dirs(u) => w.mem.inode[j] = u.mem.inode[j]
  BY DEF KeepsTables
<1>3. QED
  BY <1>1, <1>2 DEF KeepsTables

LEMMA TablesKeep ==
  ASSUME NEW v, UnusedOK(v), DiskOK(v), NamesCounted(v), NEW w, KeepsTables(v, w)
  PROVE  UnusedOK(w) /\ DiskOK(w)
<1>1. \A j \in Inodes : v.mem.inode[j].links = 0 => w.mem.inode[j] = v.mem.inode[j]
  BY DEF KeepsTables, NamesCounted
<1>2. UnusedOK(w)
  <2> SUFFICES ASSUME NEW j \in Inodes
               PROVE  IF w.mem.inode[j].links = 0 THEN w.mem.inode[j] = NoInode
                      ELSE j \in w.mem.inode_bitmap /\ j \in w.disk.inode_bitmap
    BY DEF UnusedOK
  <2>1. QED
    BY <1>1 DEF UnusedOK, KeepsTables
<1>3. DiskOK(w)
  BY DEF DiskOK, KeepsTables, SameFiles, SameFile
<1>4. QED
  BY <1>2, <1>3

(***************************************************************************)
(* rename: one name goes, another leads to the same inode.                 *)
(***************************************************************************)
RenameLeaves(v, d, n, c, o, i) == AddDentry(RemoveDentry(v, d, n), c, o, i)

LEMMA RenameKeeps ==
  ASSUME NEW v, VolOK(v), NEW d, NEW n, NEW i, <<d, n, i>> \in Entries(v),
         NEW c \in Dirs(v), v.mem.inode[c].dentry_num < UnitsPerBlock,
         NEW o \in Names, \A j : <<c, o, j>> \notin Entries(v),
         NEW u, u = RenameLeaves(v, d, n, c, o, i)
  PROVE  VolOK(u)
<1> DEFINE w == RemoveDentry(v, d, n)
           e == <<d, n, i>>
           f == <<c, o, i>>
<1>1. /\ Sound(v) /\ DirsOK(v) /\ UnusedOK(v) /\ NamesCounted(v) /\ DiskOK(v)
      /\ d \in Dirs(v) /\ i \in Inodes \ {Root}
  BY EntryShape DEF VolOK
<1>2. OneRelisted(v, w, d) /\ DirsOK(w) /\ Entries(w) = Entries(v) \ {<<d, n, i>>}
  BY <1>1, RemovesDentry
<1>3. u = AddDentry(w, c, o, i)
  BY DEF RenameLeaves
<1> HIDE DEF w
<1>4. KeepsTables(v, w) /\ Dirs(w) = Dirs(v)
  BY <1>1, <1>2, RelistedKeeps
<1>5. w.mem.inode[c].dentry_num < UnitsPerBlock
  <2>1. CASE c # d
    BY <1>2, <2>1 DEF OneRelisted, Dirs
  <2>2. CASE c = d
    <3>1. /\ w.mem.inode[d].dentry_num \in Nat /\ v.mem.inode[d].dentry_num \in Nat
          /\ UnitsPerBlock \in Nat
      BY <1>1, <1>2, InodeTypes, Constants DEF OneRelisted, Sound, Dirs
    <3>2. w.mem.inode[d].dentry_num < v.mem.inode[d].dentry_num
      BY <1>1, RemovesDentry DEF w
    <3>3. QED
      BY <2>2, <3>1, <3>2
  <2>3. QED
    BY <2>1, <2>2
<1>6. \A j : <<c, o, j>> \notin Entries(w)
  BY <1>2
<1>7. OneRelisted(w, u, c) /\ DirsOK(u) /\ Entries(u) = Entries(w) \cup {<<c, o, i>>}
  <2>1. Sound(w) /\ c \in Dirs(w)
    BY <1>2, <1>4 DEF OneRelisted
  <2>2. QED
    BY <1>1, <1>2, <1>3, <1>5, <1>6, <2>1, AddsDentry
<1>8. KeepsTables(v, u) /\ Dirs(u) = Dirs(v)
  <2>1. KeepsTables(w, u) /\ Dirs(u) = Dirs(w)
    BY <1>4, <1>7, RelistedKeeps
  <2>2. QED
    BY <1>4, <2>1, TwiceKeeps
<1>9. UnusedOK(u) /\ DiskOK(u)
  BY <1>1, <1>8, TablesKeep
<1>10. /\ e \in Entries(v) /\ e[3] = i /\ f[3] = i /\ f \notin Less(Entries(v), e)
       /\ Entries(u) = More(Less(Entries(v), e), f)
  BY <1>2, <1>6, <1>7 DEF More, Less
<1> HIDE DEF e, f
<1>11. \A j : /\ IsFiniteSet(Entries(u))
             /\ Cardinality(Named(Entries(u), j)) = Cardinality(Named(Entries(v), j))
  <2> SUFFICES ASSUME NEW j
               PROVE  /\ IsFiniteSet(Entries(u))
                      /\ Cardinality(Named(Entries(u), j)) = Cardinality(Named(Entries(v), j))
    OBVIOUS
  <2> DEFINE S == Less(Entries(v), e)
  <2>1. IsFiniteSet(Entries(v))
    BY <1>1 DEF NamesCounted
  <2>2. /\ IsFiniteSet(S) /\ Cardinality(Named(Entries(v), j)) \in Nat
        /\ e[3] # j => Cardinality(Named(S, j)) = Cardinality(Named(Entries(v), j))
        /\ e[3] = j => Cardinality(Named(S, j)) = Cardinality(Named(Entries(v), j)) - 1
    BY <1>10, <2>1, CountsLess
  <2>3. Entries(u) = More(S, f) /\ f \notin S
    BY <1>10
  <2> HIDE DEF S
  <2>4. /\ IsFiniteSet(More(S, f)) /\ Cardinality(Named(S, j)) \in Nat
        /\ f[3] # j => Cardinality(Named(More(S, f), j)) = Cardinality(Named(S, j))
        /\ f[3] = j => Cardinality(Named(More(S, f), j)) = Cardinality(Named(S, j)) + 1
    BY <2>2, <2>3, CountsMore
  <2>5. QED
    BY <1>10, <2>2, <2>3, <2>4
<1>12. NamesCounted(u)
  BY <1>1, <1>8, <1>11 DEF NamesCounted, KeepsTables, Dirs
<1>13. QED
  BY <1>7, <1>8, <1>9, <1>12 DEF VolOK, KeepsTables

(***************************************************************************)
(* rmdir: the inode is recycled, then its name goes.                       *)
(***************************************************************************)
RmdirLeaves(v, d, n, i) == RemoveDentry(Recycle(v, i), d, n)

\* what an inode that loses a name needs besides
LEMMA LostNameKeeps ==
  ASSUME NEW v, UnusedOK(v), NamesCounted(v), NEW i \in Inodes \ {Root},
         NEW w, NEW e \in Entries(v), e[3] = i, Entries(w) = Less(Entries(v), e),
         SameLinks(v, w, i), w.mem.inode[i].links = v.mem.inode[i].links - 1,
         w.mem.inode[i].links = 0 => w.mem.inode[i] = NoInode,
         Dirs(w) \subseteq Dirs(v), i \notin Dirs(w),
         \A j \in Inodes : w.mem.inode[j].links # 0 =>
           j \in w.mem.inode_bitmap /\ j \in w.disk.inode_bitmap
  PROVE  UnusedOK(w) /\ NamesCounted(w)
<1>1. UnusedOK(w)
  <2> SUFFICES ASSUME NEW j \in Inodes, w.mem.inode[j].links = 0
               PROVE  w.mem.inode[j] = NoInode
    BY DEF UnusedOK
  <2>1. j # i => v.mem.inode[j].links = 0 /\ w.mem.inode[j] = v.mem.inode[j]
    BY DEF SameLinks
  <2>2. j # i => v.mem.inode[j] = NoInode
    BY <2>1 DEF UnusedOK
  <2>3. QED
    BY <2>1, <2>2
<1>2. IsFiniteSet(Entries(v))
  BY DEF NamesCounted
<1>3. ASSUME NEW j \in Inodes \ {Root}
      PROVE  w.mem.inode[j].links = Cardinality(Named(Entries(w), j))
  <2> DEFINE S == Entries(v)
  <2>1. v.mem.inode[j].links = Cardinality(Named(S, j))
    BY DEF NamesCounted
  <2>2. IsFiniteSet(S) /\ e \in S /\ Entries(w) = Less(S, e)
    BY <1>2
  <2> HIDE DEF S
  <2>3. /\ Cardinality(Named(S, j)) \in Nat
        /\ e[3] # j => Cardinality(Named(Less(S, e), j)) = Cardinality(Named(S, j))
        /\ e[3] = j => Cardinality(Named(Less(S, e), j)) = Cardinality(Named(S, j)) - 1
    BY <2>2, CountsLess
  <2>4. j # i => w.mem.inode[j].links = v.mem.inode[j].links
    BY DEF SameLinks
  <2>5. QED
    BY <2>1, <2>2, <2>3, <2>4
<1>4. IsFiniteSet(Entries(w))
  <2> DEFINE S == Entries(v)
  <2>1. IsFiniteSet(S) /\ e \in S /\ Entries(w) = Less(S, e)
    BY <1>2
  <2> HIDE DEF S
  <2>2. QED
    BY <2>1, CountsLess
<1>5. \A c \in Dirs(w) : w.mem.inode[c].links = 1
  <2> SUFFICES ASSUME NEW c \in Dirs(w) PROVE w.mem.inode[c].links = 1
    OBVIOUS
  <2>1. c \in Inodes /\ c \in Dirs(v) /\ c # i
    BY DEF Dirs
  <2>2. QED
    BY <2>1 DEF SameLinks, NamesCounted
<1>6. QED
  BY <1>1, <1>3, <1>4, <1>5 DEF NamesCounted

LEMMA RmdirKeeps ==
  ASSUME NEW v, VolOK(v), NEW d, NEW n, NEW i \in Dirs(v), <<d, n, i>> \in Entries(v),
         v.mem.inode[i].dentry_num <= 2,
         NEW u, u = RmdirLeaves(v, d, n, i)
  PROVE  VolOK(u)
<1> DEFINE w == Recycle(v, i)
           e == <<d, n, i>>
<1>1. /\ Sound(v) /\ DirsOK(v) /\ UnusedOK(v) /\ NamesCounted(v)
      /\ d \in Dirs(v) /\ d \in Inodes /\ i \in Inodes \ {Root}
  BY EntryShape DEF VolOK
<1>2. Listed(v, i) = {} /\ d # i
  <2>1. v.mem.inode[i].dentry_num \in Nat
    BY <1>1, InodeTypes DEF Sound
  <2>2. Listed(v, i) = {}
    BY <2>1 DEF Listed
  <2>3. QED
    BY <2>2, EntryIn
<1>3. /\ Sound(w) /\ w.disk = w.mem
      /\ \A j \in Inodes : j # i => /\ SameFile(v, w, j) /\ SameContents(v, w, j)
                                    /\ w.mem.inode[j] = v.mem.inode[j]
      /\ w.mem.inode[i] = NoInode
      /\ w.mem.inode_bitmap = v.mem.inode_bitmap \ {i}
  BY <1>1, Recycles
<1>4. u = RemoveDentry(w, d, n)
  BY DEF RmdirLeaves
<1> HIDE DEF w
<1>5. Dirs(w) = Dirs(v) \ {i}
  <2>1. w.mem.inode[i].file_type # "DIRECTORY"
    BY <1>3 DEF NoInode
  <2>2. QED
    BY <1>3, <2>1 DEF Dirs
<1>6. DirsOK(w) /\ Entries(w) = Entries(v)
  <2>1. \A c \in Dirs(w) : /\ w.mem.inode[c] = v.mem.inode[c]
                           /\ SameFile(v, w, c) /\ SameContents(v, w, c)
    BY <1>3, <1>5 DEF Dirs
  <2>2. Root \in Dirs(w)
    BY <1>1, <1>5 DEF DirsOK
  <2>3. Dirs(w) \subseteq Dirs(v) /\ \A c \in Dirs(v) : c \notin Dirs(w) => Listed(v, c) = {}
    BY <1>2, <1>5
  <2>4. QED
    BY <1>1, <2>1, <2>2, <2>3, NamesLeft
<1>7. OneRelisted(w, u, d) /\ DirsOK(u) /\ Entries(u) = Entries(v) \ {<<d, n, i>>}
  <2>1. <<d, n, i>> \in Entries(w)
    BY <1>6
  <2>2. QED
    BY <1>3, <1>4, <1>6, <2>1, RemovesDentry
<1>8. KeepsTables(w, u) /\ Dirs(u) = Dirs(w)
  <2>1. d \in Dirs(w)
    BY <1>1, <1>2, <1>5
  <2>2. QED
    BY <1>7, <2>1, RelistedKeeps
<1>9. UnusedOK(w)
  <2> SUFFICES ASSUME NEW j \in Inodes
               PROVE  IF w.mem.inode[j].links = 0 THEN w.mem.inode[j] = NoInode
                      ELSE j \in w.mem.inode_bitmap /\ j \in w.disk.inode_bitmap
    BY DEF UnusedOK
  <2>1. CASE j = i
    BY <1>3, <2>1 DEF NoInode
  <2>2. CASE j # i
    BY <1>1, <1>3, <2>2 DEF UnusedOK
  <2>3. QED
    BY <2>1, <2>2
<1>10. UnusedOK(u) /\ NamesCounted(u)
  <2>1. e \in Entries(v) /\ e[3] = i /\ Entries(u) = Less(Entries(v), e)
    BY <1>7 DEF Less
  <2> HIDE DEF e
  <2>2. i \notin Dirs(w) /\ i \in Inodes
    BY <1>1, <1>5
  <2>3. u.mem.inode[i] = NoInode
    BY <1>3, <1>8, <2>2 DEF KeepsTables
  <2>4. v.mem.inode[i].links = 1 /\ NoInode.links = 0
    BY <1>1 DEF NamesCounted, NoInode
  <2>5. SameLinks(v, u, i)
    <3> SUFFICES ASSUME NEW j \in Inodes, j # i
                 PROVE  /\ u.mem.inode[j].links = v.mem.inode[j].links
                        /\ v.mem.inode[j].links = 0 => u.mem.inode[j] = v.mem.inode[j]
      BY DEF SameLinks
    <3>1. u.mem.inode[j].links = w.mem.inode[j].links /\ w.mem.inode[j] = v.mem.inode[j]
      BY <1>3, <1>8 DEF KeepsTables
    <3>2. v.mem.inode[j].links = 0 => j \notin Dirs(w)
      BY <1>1, <1>5 DEF NamesCounted
    <3>3. QED
      BY <1>8, <3>1, <3>2 DEF KeepsTables
  <2>6. \A j \in Inodes : u.mem.inode[j].links # 0 =>
           j \in u.mem.inode_bitmap /\ j \in u.disk.inode_bitmap
    BY <1>8, <1>9 DEF KeepsTables, UnusedOK
  <2>7. Dirs(u) \subseteq Dirs(v) /\ i \notin Dirs(u)
    BY <1>5, <1>8
  <2>8. u.mem.inode[i].links = v.mem.inode[i].links - 1
    BY <2>3, <2>4
  <2>9. QED
    BY <1>1, <2>1, <2>3, <2>5, <2>6, <2>7, <2>8, LostNameKeeps
<1>11. DiskOK(u)
  <2>1. DiskOK(w)
    BY <1>3, AllSaved
  <2>2. QED
    BY <1>8, <2>1 DEF DiskOK, KeepsTables, SameFiles, SameFile
<1>12. QED
  BY <1>7, <1>8, <1>10, <1>11 DEF VolOK, KeepsTables

(***************************************************************************)
(* unlink and link change the links of an inode.                           *)
(***************************************************************************)
FewerLinks(v, i) == [v EXCEPT !.mem.inode[i].links = @ - 1]
MoreLinks(v, i)  == [v EXCEPT !.mem.inode[i].links = @ + 1]

Relinked(n, l) == [n EXCEPT !.links = l]

LEMMA RelinkedType ==
  ASSUME NEW n \in InodeType, NEW l \in Nat
  PROVE  /\ Relinked(n, l) \in InodeType /\ Relinked(n, l).links = l
         /\ Relinked(n, l).file_type = n.file_type
         /\ Relinked(n, l).file_size = n.file_size
         /\ Relinked(n, l).blocks_number = n.blocks_number
         /\ Relinked(n, l).direct_block = n.direct_block
         /\ Relinked(n, l).indirect_block = n.indirect_block
BY DEF Relinked, InodeType

LEMMA Relinks ==
  ASSUME NEW v, NEW i
  PROVE  /\ FewerLinks(v, i) = WithInode(v, i, Relinked(v.mem.inode[i], v.mem.inode[i].links - 1))
         /\ MoreLinks(v, i) = WithInode(v, i, Relinked(v.mem.inode[i], v.mem.inode[i].links + 1))
<1>1. FewerLinks(v, i) = WithInode(v, i, Relinked(v.mem.inode[i], v.mem.inode[i].links - 1))
  BY Zenon DEF FewerLinks, WithInode, Relinked
<1>2. MoreLinks(v, i) = WithInode(v, i, Relinked(v.mem.inode[i], v.mem.inode[i].links + 1))
  BY Zenon DEF MoreLinks, WithInode, Relinked
<1>3. QED
  BY <1>1, <1>2

\* w is v with l links of inode i
OnlyLinks(v, w, i, l) ==
  /\ Sound(w) /\ SameFiles(v, w) /\ SameBitmaps(v, w) /\ SameDisk(v, w) /\ SameDevice(v, w)
  /\ \A j \in Inodes : j # i => w.mem.inode[j] = v.mem.inode[j]
  /\ w.mem.inode[i].links = l
  /\ w.mem.inode[i].file_type = v.mem.inode[i].file_type

LEMMA LinksOnly ==
  ASSUME NEW v, Sound(v), NEW i \in Inodes, NEW l \in Nat,
         NEW w, w = WithInode(v, i, Relinked(v.mem.inode[i], l))
  PROVE  OnlyLinks(v, w, i, l)
<1> DEFINE n == v.mem.inode[i]
           q == Relinked(n, l)
<1>1. Typed(v) /\ n \in InodeType
  BY InodeTypes DEF Sound
<1>2. /\ q \in InodeType /\ q.links = l /\ q.file_type = n.file_type
      /\ q.file_size = n.file_size /\ q.blocks_number = n.blocks_number
      /\ q.direct_block = n.direct_block /\ q.indirect_block = n.indirect_block
  BY <1>1, RelinkedType
<1>3. w = WithInode(v, i, q)
  OBVIOUS
<1> HIDE DEF q
<1>4. /\ Typed(w) /\ SameBitmaps(v, w) /\ SameDisk(v, w) /\ SameDevice(v, w)
      /\ w.mem.inode[i] = q
      /\ \A j \in Inodes : j # i => w.mem.inode[j] = v.mem.inode[j]
  BY <1>1, <1>2, <1>3, SetsInode
<1>5. \A j \in Inodes : /\ w.mem.inode[j].blocks_number = v.mem.inode[j].blocks_number
                        /\ w.mem.inode[j].file_size = v.mem.inode[j].file_size
                        /\ w.mem.inode[j].direct_block = v.mem.inode[j].direct_block
                        /\ w.mem.inode[j].indirect_block = v.mem.inode[j].indirect_block
  BY <1>2, <1>4
<1>6. \A j \in Inodes : SameFile(v, w, j)
  BY <1>4, <1>5, KeepsFile DEF SameDevice
<1>7. MarksUsed(w) /\ OwnsOnce(w)
  <2>1. SameFiles(v, w) /\ v.mem.datablock_bitmap \subseteq w.mem.datablock_bitmap
    BY <1>4, <1>6 DEF SameFiles, SameBitmaps
  <2>2. QED
    BY <2>1, KeepsBlocks
<1>8. Fits(w)
  BY <1>5 DEF Sound, Fits
<1>9. QED
  BY <1>2, <1>4, <1>6, <1>7, <1>8 DEF OnlyLinks, Sound, SameFiles

UnlinkLeaves(v, d, n, i) ==
  LET w == FewerLinks(RemoveDentry(v, d, n), i)
  IN WriteInodeTable(IF w.mem.inode[i].links = 0 THEN Recycle(w, i) ELSE w)

LEMMA UnlinkKeeps ==
  ASSUME NEW v, VolOK(v), NEW d, NEW n, NEW i, <<d, n, i>> \in Entries(v), i \notin Dirs(v),
         NEW u, u = UnlinkLeaves(v, d, n, i)
  PROVE  VolOK(u)
<1> DEFINE x == RemoveDentry(v, d, n)
           y == FewerLinks(x, i)
           z == IF y.mem.inode[i].links = 0 THEN Recycle(y, i) ELSE y
           e == <<d, n, i>>
<1>1. /\ Sound(v) /\ DirsOK(v) /\ UnusedOK(v) /\ NamesCounted(v) /\ DiskOK(v)
      /\ d \in Dirs(v) /\ d \in Inodes /\ i \in Inodes \ {Root} /\ i # d
  BY EntryShape DEF VolOK
<1>2. OneRelisted(v, x, d) /\ DirsOK(x) /\ Entries(x) = Entries(v) \ {<<d, n, i>>}
  BY <1>1, RemovesDentry
<1>3. u = WriteInodeTable(z)
  BY Zenon DEF UnlinkLeaves
<1> HIDE DEF x
<1>4. KeepsTables(v, x) /\ Dirs(x) = Dirs(v)
  BY <1>1, <1>2, RelistedKeeps
<1>5. UnusedOK(x) /\ DiskOK(x) /\ Sound(x)
  BY <1>1, <1>4, TablesKeep DEF KeepsTables
<1>6. e \in Entries(v) /\ e[3] = i /\ Entries(x) = Less(Entries(v), e)
  BY <1>2 DEF Less
<1> HIDE DEF e
<1>7. PICK l \in Nat : v.mem.inode[i].links = l + 1 /\ x.mem.inode[i].links = l + 1
  <2> DEFINE S == Entries(v)
  <2>1. v.mem.inode[i].links = Cardinality(Named(S, i)) /\ IsFiniteSet(S) /\ e \in S
    BY <1>1, <1>6 DEF NamesCounted
  <2> HIDE DEF S
  <2>2. Cardinality(Named(S, i)) \in Nat \ {0}
    BY <1>6, <2>1, CountsLess
  <2>3. x.mem.inode[i].links = v.mem.inode[i].links
    BY <1>1, <1>4 DEF KeepsTables
  <2>4. Cardinality(Named(S, i)) - 1 \in Nat
    BY <2>2
  <2>5. QED
    BY <2>1, <2>2, <2>3, <2>4
<1>8. OnlyLinks(x, y, i, l)
  <2>1. y = WithInode(x, i, Relinked(x.mem.inode[i], x.mem.inode[i].links - 1))
    BY Relinks
  <2>2. x.mem.inode[i].links - 1 = l
    BY <1>7
  <2>3. y = WithInode(x, i, Relinked(x.mem.inode[i], l))
    BY <2>1, <2>2
  <2> HIDE DEF y
  <2>4. QED
    BY <1>1, <1>5, <2>3, LinksOnly
<1> HIDE DEF y
<1>9. /\ Sound(z)
      /\ \A j \in Inodes : j # i => /\ SameFile(x, z, j) /\ SameContents(x, z, j)
                                    /\ z.mem.inode[j] = x.mem.inode[j]
      /\ z.mem.inode[i].file_type # "DIRECTORY" /\ z.mem.inode[i].links = l
      /\ l = 0 => z.mem.inode[i] = NoInode
      /\ x.mem.inode_bitmap \ {i} \subseteq z.mem.inode_bitmap
      /\ x.mem.inode_bitmap \ {i} \subseteq z.disk.inode_bitmap \/ z.disk = x.disk
      /\ l # 0 => z.mem.inode_bitmap = x.mem.inode_bitmap /\ z.disk = x.disk
      /\ \/ z.disk = z.mem
         \/ /\ z.disk = x.disk /\ SameFiles(x, z)
            /\ z.mem.inode[i].file_type = x.mem.inode[i].file_type
  <2>1. y.mem.inode[i].links = l
    BY <1>8 DEF OnlyLinks
  <2>2. x.mem.inode[i].file_type # "DIRECTORY"
    BY <1>1, <1>4 DEF KeepsTables, Dirs
  <2>3. CASE l = 0
    <3>1. z = Recycle(y, i) /\ Sound(y) /\ i \in Inodes
      BY <1>1, <1>8, <2>1, <2>3 DEF OnlyLinks
    <3> HIDE DEF z
    <3>2. /\ Sound(z) /\ z.disk = z.mem
          /\ \A j \in Inodes : j # i => /\ SameFile(y, z, j) /\ SameContents(y, z, j)
                                        /\ z.mem.inode[j] = y.mem.inode[j]
          /\ z.mem.inode[i] = NoInode
          /\ z.mem.inode_bitmap = y.mem.inode_bitmap \ {i}
      BY <3>1, Recycles
    <3>3. \A j \in Inodes : j # i => /\ SameFile(x, z, j) /\ SameContents(x, z, j)
                                     /\ z.mem.inode[j] = x.mem.inode[j]
      <4> SUFFICES ASSUME NEW j \in Inodes, j # i
                   PROVE  /\ SameFile(x, z, j) /\ SameContents(x, z, j)
                          /\ z.mem.inode[j] = x.mem.inode[j]
        OBVIOUS
      <4>1. SameFile(x, y, j) /\ y.device = x.device /\ y.mem.inode[j] = x.mem.inode[j]
        BY <1>8 DEF OnlyLinks, SameFiles, SameDevice
      <4>2. QED
        BY <3>2, <4>1 DEF SameFile, SameContents
    <3>4. y.mem.inode_bitmap = x.mem.inode_bitmap
      BY <1>8 DEF OnlyLinks, SameBitmaps
    <3>5. NoInode.links = 0 /\ NoInode.file_type # "DIRECTORY"
      BY DEF NoInode
    <3>6. QED
      BY <2>3, <3>2, <3>3, <3>4, <3>5
  <2>4. CASE l # 0
    <3>1. z = y
      BY <2>1, <2>4
    <3> HIDE DEF z
    <3>2. /\ Sound(z) /\ SameFiles(x, z) /\ z.disk = x.disk /\ z.device = x.device
          /\ z.mem.inode_bitmap = x.mem.inode_bitmap
          /\ z.mem.inode[i].file_type = x.mem.inode[i].file_type /\ z.mem.inode[i].links = l
          /\ \A j \in Inodes : j # i => z.mem.inode[j] = x.mem.inode[j]
      BY <1>8, <3>1 DEF OnlyLinks, SameBitmaps, SameDisk, SameDevice
    <3>3. QED
      BY <2>2, <2>4, <3>2 DEF SameFiles, SameContents
  <2>5. QED
    BY <2>3, <2>4
<1> HIDE DEF z
<1>10. /\ Typed(u) /\ SameMem(z, u) /\ SameDevice(z, u)
       /\ u.disk.inode = z.mem.inode
       /\ u.disk.inode_bitmap = z.disk.inode_bitmap
       /\ u.disk.datablock_bitmap = z.disk.datablock_bitmap
  BY <1>3, <1>9, SavesInodes DEF Sound
<1>11. /\ Sound(u) /\ SameFiles(z, u)
       /\ \A j \in Inodes : u.mem.inode[j] = z.mem.inode[j] /\ SameContents(z, u, j)
  BY <1>9, <1>10, KeepsSound DEF SameMem, SameDevice, SameContents
<1>12. \A j \in Inodes : j # i => /\ SameFile(x, u, j) /\ SameContents(x, u, j)
                                  /\ u.mem.inode[j] = x.mem.inode[j]
  BY <1>9, <1>11 DEF SameFiles, SameFile, SameContents
<1>13. Dirs(u) = Dirs(x) /\ i \notin Dirs(u)
  BY <1>1, <1>4, <1>9, <1>11, <1>12 DEF Dirs
<1>14. DirsOK(u) /\ Entries(u) = Entries(x)
  <2>1. \A c \in Dirs(x) : /\ u.mem.inode[c].file_size = x.mem.inode[c].file_size
                           /\ u.mem.inode[c].dentry_num = x.mem.inode[c].dentry_num
                           /\ SameFile(x, u, c) /\ SameContents(x, u, c)
    BY <1>12, <1>13 DEF Dirs
  <2>2. QED
    BY <1>2, <1>5, <1>13, <2>1, NamesSame
<1>15. UnusedOK(u) /\ NamesCounted(u)
  <2>1. SameLinks(v, u, i)
    <3> SUFFICES ASSUME NEW j \in Inodes, j # i
                 PROVE  /\ u.mem.inode[j].links = v.mem.inode[j].links
                        /\ v.mem.inode[j].links = 0 => u.mem.inode[j] = v.mem.inode[j]
      BY DEF SameLinks
    <3>1. v.mem.inode[j].links = 0 => j \notin Dirs(v)
      BY <1>1 DEF NamesCounted
    <3>2. QED
      BY <1>4, <1>12, <3>1 DEF KeepsTables
  <2>2. ASSUME NEW j \in Inodes, u.mem.inode[j].links # 0
        PROVE  j \in u.mem.inode_bitmap /\ j \in u.disk.inode_bitmap
    <3>1. j = i => l # 0
      BY <1>9, <1>11, <2>2
    <3>2. j \in x.mem.inode_bitmap /\ j \in x.disk.inode_bitmap
      BY <1>5, <1>7, <1>12, <2>2 DEF UnusedOK
    <3>3. j \in z.mem.inode_bitmap /\ j \in z.disk.inode_bitmap
      BY <1>9, <3>1, <3>2
    <3>4. QED
      BY <1>10, <3>3 DEF SameMem
  <2>3. u.mem.inode[i].links = v.mem.inode[i].links - 1
        /\ (u.mem.inode[i].links = 0 => u.mem.inode[i] = NoInode)
    BY <1>1, <1>7, <1>9, <1>11
  <2>4. Dirs(u) \subseteq Dirs(v) /\ i \notin Dirs(u) /\ Entries(u) = Less(Entries(v), e)
    BY <1>4, <1>6, <1>13, <1>14
  <2>5. QED
    BY <1>1, <1>6, <2>1, <2>2, <2>3, <2>4, LostNameKeeps
<1>16. DiskOK(u)
  <2> SUFFICES ASSUME NEW j \in Inodes, u.mem.inode[j].file_type # "SOFT_LINK"
               PROVE  /\ u.disk.inode[j] = u.mem.inode[j]
                      /\ \A k \in Uses(u, j) : BlockAt(u, j, k) \in u.disk.datablock_bitmap
    BY DEF DiskOK
  <2>1. u.disk.inode[j] = u.mem.inode[j]
    BY <1>10 DEF SameMem
  <2>2. SameFile(z, u, j)
    BY <1>11 DEF SameFiles
  <2>3. \A k \in Uses(z, j) : BlockAt(z, j, k) \in z.disk.datablock_bitmap
    <3>1. CASE z.disk = z.mem
      BY <1>9, <3>1 DEF Sound, MarksUsed
    <3>2. CASE /\ z.disk = x.disk /\ SameFiles(x, z)
               /\ z.mem.inode[i].file_type = x.mem.inode[i].file_type
      <4>1. x.mem.inode[j].file_type # "SOFT_LINK"
        BY <1>9, <1>11, <3>2
      <4>2. QED
        BY <1>5, <3>2, <4>1 DEF DiskOK, SameFiles, SameFile
    <3>3. QED
      BY <1>9, <3>1, <3>2
  <2>4. QED
    BY <1>10, <2>1, <2>2, <2>3 DEF SameFile
<1>17. QED
  BY <1>11, <1>14, <1>15, <1>16 DEF VolOK

\* an inode that gets a name more
LEMMA MoreNameCounted ==
  ASSUME NEW v, NamesCounted(v), NEW i \in Inodes, i \notin Dirs(v),
         NEW w, NEW e, NamesMore(v, w, e), e[3] = i,
         \A j \in Inodes : j # i => w.mem.inode[j].links = v.mem.inode[j].links,
         w.mem.inode[i].links = v.mem.inode[i].links + 1, Dirs(w) = Dirs(v)
  PROVE  NamesCounted(w)
<1> DEFINE S == Entries(v)
<1>1. IsFiniteSet(S) /\ e \notin S /\ Entries(w) = More(S, e)
  BY DEF NamesCounted, NamesMore
<1>2. \A j \in Inodes \ {Root} : v.mem.inode[j].links = Cardinality(Named(S, j))
  BY DEF NamesCounted
<1>3. \A c \in Dirs(w) : w.mem.inode[c].links = 1
  BY DEF NamesCounted, Dirs
<1> HIDE DEF S
<1>4. IsFiniteSet(Entries(w))
  BY <1>1, CountsMore
<1>5. ASSUME NEW j \in Inodes \ {Root}
      PROVE  w.mem.inode[j].links = Cardinality(Named(Entries(w), j))
  <2>1. /\ e[3] # j => Cardinality(Named(More(S, e), j)) = Cardinality(Named(S, j))
        /\ e[3] = j => Cardinality(Named(More(S, e), j)) = Cardinality(Named(S, j)) + 1
    BY <1>1, CountsMore
  <2>2. QED
    BY <1>1, <1>2, <2>1
<1>6. QED
  BY <1>3, <1>4, <1>5 DEF NamesCounted

LinkLeaves(v, d, n, i) == WriteInodeTable(MoreLinks(AddDentry(v, d, n, i), i))

LEMMA LinkKeeps ==
  ASSUME NEW v, VolOK(v), NEW i, i \notin Dirs(v), NEW c, NEW o, <<c, o, i>> \in Entries(v),
         NEW d \in Dirs(v), v.mem.inode[d].dentry_num < UnitsPerBlock,
         NEW n \in Names, \A j : <<d, n, j>> \notin Entries(v),
         NEW u, u = LinkLeaves(v, d, n, i)
  PROVE  VolOK(u)
<1> DEFINE x == AddDentry(v, d, n, i)
           y == MoreLinks(x, i)
           e == <<d, n, i>>
<1>1. /\ Sound(v) /\ DirsOK(v) /\ UnusedOK(v) /\ NamesCounted(v) /\ DiskOK(v)
      /\ d \in Inodes /\ i \in Inodes \ {Root} /\ i \in Inodes /\ i # d
  BY EntryShape DEF VolOK, Dirs
<1>2. OneRelisted(v, x, d) /\ DirsOK(x) /\ Entries(x) = Entries(v) \cup {<<d, n, i>>}
  BY <1>1, AddsDentry
<1>3. u = WriteInodeTable(y)
  BY DEF LinkLeaves
<1> HIDE DEF x
<1>4. KeepsTables(v, x) /\ Dirs(x) = Dirs(v)
  BY <1>2, RelistedKeeps
<1>5. UnusedOK(x) /\ DiskOK(x) /\ Sound(x)
  BY <1>1, <1>4, TablesKeep DEF KeepsTables
<1>6. e \notin Entries(v) /\ e[3] = i /\ Entries(x) = More(Entries(v), e)
  BY <1>2 DEF More
<1> HIDE DEF e
<1>7. PICK l \in Nat \ {0} : v.mem.inode[i].links = l /\ x.mem.inode[i].links = l
  <2> DEFINE S == Entries(v)
             f == <<c, o, i>>
  <2>1. /\ v.mem.inode[i].links = Cardinality(Named(S, i)) /\ IsFiniteSet(S)
        /\ f \in S /\ f[3] = i
    BY <1>1 DEF NamesCounted
  <2> HIDE DEF S, f
  <2>2. Cardinality(Named(S, i)) \in Nat \ {0}
    BY <2>1, CountsLess
  <2>3. x.mem.inode[i].links = v.mem.inode[i].links
    BY <1>1, <1>4 DEF KeepsTables
  <2>4. QED
    BY <2>1, <2>2, <2>3
<1>8. PICK m \in Nat : m = l + 1
  BY <1>7
<1>9. OnlyLinks(x, y, i, m)
  <2>1. y = WithInode(x, i, Relinked(x.mem.inode[i], x.mem.inode[i].links + 1))
    BY Relinks
  <2>2. x.mem.inode[i].links + 1 = m
    BY <1>7, <1>8
  <2>3. y = WithInode(x, i, Relinked(x.mem.inode[i], m))
    BY <2>1, <2>2
  <2> HIDE DEF y
  <2>4. QED
    BY <1>1, <1>5, <2>3, LinksOnly
<1> HIDE DEF y
<1>10. /\ Typed(u) /\ SameMem(y, u) /\ SameDevice(y, u)
       /\ u.disk.inode = y.mem.inode
       /\ u.disk.inode_bitmap = y.disk.inode_bitmap
       /\ u.disk.datablock_bitmap = y.disk.datablock_bitmap
  BY <1>3, <1>9, SavesInodes DEF OnlyLinks, Sound
<1>11. /\ Sound(u) /\ SameFiles(y, u)
  BY <1>9, <1>10, KeepsSound DEF SameMem, SameDevice, OnlyLinks
<1>12. /\ u.device = x.device /\ SameFiles(x, u)
       /\ \A j \in Inodes : j # i => u.mem.inode[j] = x.mem.inode[j]
       /\ u.mem.inode[i].links = m /\ u.mem.inode[i].file_type = x.mem.inode[i].file_type
       /\ u.mem.inode_bitmap = x.mem.inode_bitmap
       /\ u.disk.inode_bitmap = x.disk.inode_bitmap
       /\ u.disk.datablock_bitmap = x.disk.datablock_bitmap
       /\ u.disk.inode = u.mem.inode
  BY <1>9, <1>10, <1>11 DEF OnlyLinks, SameMem, SameDevice, SameDisk, SameBitmaps, SameFiles, SameFile
<1>13. Dirs(u) = Dirs(x) /\ i \notin Dirs(x)
  BY <1>4, <1>12 DEF Dirs
<1>14. DirsOK(u) /\ Entries(u) = Entries(x)
  <2>1. \A b \in Dirs(x) : /\ u.mem.inode[b].file_size = x.mem.inode[b].file_size
                           /\ u.mem.inode[b].dentry_num = x.mem.inode[b].dentry_num
                           /\ SameFile(x, u, b) /\ SameContents(x, u, b)
    BY <1>12, <1>13 DEF Dirs, SameFiles, SameContents
  <2>2. QED
    BY <1>2, <1>5, <1>13, <2>1, NamesSame
<1>15. UnusedOK(u)
  <2> SUFFICES ASSUME NEW j \in Inodes
               PROVE  IF u.mem.inode[j].links = 0 THEN u.mem.inode[j] = NoInode
                      ELSE j \in u.mem.inode_bitmap /\ j \in u.disk.inode_bitmap
    BY DEF UnusedOK
  <2>1. CASE j = i
    <3>1. m # 0 /\ j \in x.mem.inode_bitmap /\ j \in x.disk.inode_bitmap
      BY <1>5, <1>7, <1>8, <2>1 DEF UnusedOK
    <3>2. QED
      BY <1>12, <2>1, <3>1
  <2>2. CASE j # i
    BY <1>5, <1>12, <2>2 DEF UnusedOK
  <2>3. QED
    BY <2>1, <2>2
<1>16. NamesCounted(u)
  <2>1. NamesMore(v, u, e)
    BY <1>6, <1>14 DEF NamesMore
  <2>2. \A j \in Inodes : j # i => u.mem.inode[j].links = v.mem.inode[j].links
    BY <1>4, <1>12 DEF KeepsTables
  <2>3. u.mem.inode[i].links = v.mem.inode[i].links + 1 /\ Dirs(u) = Dirs(v)
    BY <1>4, <1>7, <1>8, <1>12, <1>13
  <2>4. QED
    BY <1>1, <1>6, <2>1, <2>2, <2>3, MoreNameCounted
<1>17. DiskOK(u)
  <2>1. \A j \in Inodes : u.mem.inode[j].file_type = x.mem.inode[j].file_type
    BY <1>12
  <2>2. QED
    BY <1>5, <1>12, <2>1 DEF DiskOK, SameFiles, SameFile
<1>18. QED
  BY <1>11, <1>14, <1>15, <1>16, <1>17 DEF VolOK

-----------------------------------------------------------------------------
(***************************************************************************)
(* The first volume, saving the inodes, and a remount.                     *)
(***************************************************************************)
\* the same inodes on the same device have the same names
LEMMA SameNames ==
  ASSUME NEW v, Sound(v), DirsOK(v), NEW w, w.mem.inode = v.mem.inode, SameDevice(v, w)
  PROVE  SameFiles(v, w) /\ DirsOK(w) /\ Entries(w) = Entries(v) /\ Dirs(w) = Dirs(v)
<1>1. SameFiles(v, w)
  BY KeepsFile DEF SameDevice, SameFiles
<1>2. Dirs(w) = Dirs(v)
  BY DEF Dirs
<1>3. \A c \in Dirs(v) : /\ w.mem.inode[c].file_size = v.mem.inode[c].file_size
                         /\ w.mem.inode[c].dentry_num = v.mem.inode[c].dentry_num
                         /\ SameFile(v, w, c) /\ SameContents(v, w, c)
  BY <1>1 DEF SameFiles, SameContents, SameDevice, Dirs
<1>4. QED
  BY <1>1, <1>2, <1>3, NamesSame

LEMMA SaveKeeps ==
  ASSUME NEW v, VolOK(v), NEW u, u = WriteInodeTable(v)
  PROVE  VolOK(u)
<1>1. /\ Sound(v) /\ DirsOK(v) /\ UnusedOK(v) /\ NamesCounted(v) /\ DiskOK(v) /\ Typed(v)
  BY DEF VolOK, Sound
<1>2. /\ Typed(u) /\ SameMem(v, u) /\ SameDevice(v, u)
      /\ u.disk.inode = v.mem.inode
      /\ u.disk.inode_bitmap = v.disk.inode_bitmap
      /\ u.disk.datablock_bitmap = v.disk.datablock_bitmap
  BY <1>1, SavesInodes
<1>3. Sound(u) /\ SameFiles(v, u) /\ DirsOK(u) /\ Entries(u) = Entries(v) /\ Dirs(u) = Dirs(v)
  BY <1>1, <1>2, KeepsSound, SameNames DEF SameMem
<1>4. SameCounts(v, u)
  BY <1>2, <1>3 DEF SameCounts, SameMem
<1>5. UnusedOK(u) /\ NamesCounted(u)
  BY <1>1, <1>4, SameCountsKeeps
<1>6. DiskOK(u)
  BY <1>1, <1>2, <1>3 DEF DiskOK, SameMem, SameFiles, SameFile
<1>7. QED
  BY <1>3, <1>5, <1>6 DEF VolOK

\* all inodes and the blocks of symbolic links are on disk
LinksSaved(v) ==
  \A i \in Inodes : v.mem.inode[i].file_type = "SOFT_LINK" =>
    /\ v.disk.inode[i] = v.mem.inode[i]
    /\ v.mem.datablock_bitmap \subseteq v.disk.datablock_bitmap

LEMMA RemountKeeps ==
  ASSUME NEW v, VolOK(v), LinksSaved(v), NEW u, u = [v EXCEPT !.mem = v.disk]
  PROVE  VolOK(u)
<1>1. /\ Sound(v) /\ DirsOK(v) /\ UnusedOK(v) /\ NamesCounted(v) /\ DiskOK(v) /\ Typed(v)
  BY DEF VolOK, Sound
<1>2. \A i \in Inodes : v.disk.inode[i] = v.mem.inode[i]
  BY <1>1 DEF DiskOK, LinksSaved
<1>3. v.disk.inode = v.mem.inode
  BY <1>1, <1>2 DEF Typed, TablesType
<1>4. /\ Typed(u) /\ u.mem.inode = v.mem.inode /\ SameDevice(v, u) /\ SameDisk(v, u)
      /\ u.mem.inode_bitmap = v.disk.inode_bitmap
      /\ u.mem.datablock_bitmap = v.disk.datablock_bitmap
  BY <1>1, <1>3 DEF Typed, SameDevice, SameDisk
<1>5. SameFiles(v, u) /\ DirsOK(u) /\ Entries(u) = Entries(v) /\ Dirs(u) = Dirs(v)
  BY <1>1, <1>4, SameNames
<1>6. MarksUsed(u)
  <2> SUFFICES ASSUME NEW i \in Inodes, NEW k \in Uses(u, i)
               PROVE  BlockAt(u, i, k) \in u.mem.datablock_bitmap
    BY DEF MarksUsed
  <2>1. k \in Uses(v, i) /\ BlockAt(u, i, k) = BlockAt(v, i, k)
    BY <1>5 DEF SameFiles, SameFile
  <2>2. BlockAt(v, i, k) \in v.disk.datablock_bitmap
    <3>1. BlockAt(v, i, k) \in v.mem.datablock_bitmap
      BY <1>1, <2>1 DEF Sound, MarksUsed
    <3>2. QED
      BY <1>1, <2>1, <3>1 DEF DiskOK, LinksSaved
  <2>3. QED
    BY <1>4, <2>1, <2>2
<1>7. OwnsOnce(u)
  BY <1>1, <1>5 DEF Sound, OwnsOnce, SameFiles, SameFile
<1>8. Fits(u)
  BY <1>1, <1>4 DEF Sound, Fits
<1>9. Sound(u)
  BY <1>4, <1>6, <1>7, <1>8 DEF Sound
<1>10. UnusedOK(u) /\ NamesCounted(u)
  <2>1. UnusedOK(u)
    BY <1>1, <1>4 DEF UnusedOK, SameDisk
  <2>2. NamesCounted(u)
    BY <1>1, <1>4, <1>5 DEF NamesCounted
  <2>3. QED
    BY <2>1, <2>2
<1>11. DiskOK(u)
  <2>1. u.disk = u.mem
    BY <1>1, <1>4 DEF Typed, SameDisk, TablesType
  <2>2. QED
    BY <1>9, <2>1, AllSaved
<1>12. QED
  BY <1>5, <1>9, <1>10, <1>11 DEF VolOK

RootInode == [NoInode EXCEPT !.file_type = "DIRECTORY", !.file_size = 2,
                             !.dentry_num = 2, !.blocks_number = 1, !.links = 1]

LEMMA RootType ==
  /\ RootInode \in InodeType /\ RootInode.file_type = "DIRECTORY"
  /\ RootInode.file_size = 2 /\ RootInode.dentry_num = 2
  /\ RootInode.blocks_number = 1 /\ RootInode.links = 1
  /\ RootInode.direct_block[1] = 0
  /\ NoInode.links = 0 /\ NoInode.blocks_number = 0 /\ NoInode.file_size = 0
  /\ NoInode.file_type = "NORMAL_FILE"
BY Constants DEF RootInode, NoInode, InodeType, Kinds

LEMMA InitOK ==
  ASSUME FsInit
  PROVE  VolOK(vol)
<1> DEFINE tab == FreshTables
<1>1. /\ vol.mem = tab /\ vol.disk = tab
      /\ vol = [mem |-> vol.mem, disk |-> vol.disk, device |-> vol.device]
      /\ vol.device = [b \in Blocks |->
           IF b = 0 THEN Block(<< <<"..", Root>>, <<".", Root>> >>, 1) ELSE Block(<<>>, 1)]
  BY DEF FsInit
<1>2. /\ tab.inode_bitmap = {Root} /\ tab.datablock_bitmap = {0}
      /\ tab.inode = [i \in Inodes |-> IF i = Root THEN RootInode ELSE NoInode]
      /\ tab = [inode_bitmap |-> tab.inode_bitmap, datablock_bitmap |-> tab.datablock_bitmap,
                inode |-> tab.inode]
  BY DEF FreshTables, RootInode
<1> HIDE DEF tab
<1>3. Typed(vol)
  <2>1. tab.inode_bitmap \in SUBSET Inodes /\ tab.datablock_bitmap \in SUBSET Blocks
    BY <1>2, Constants
  <2>2. tab.inode \in [Inodes -> InodeType]
    <3> HIDE DEF RootInode, NoInode
    <3>1. RootInode \in InodeType /\ NoInode \in InodeType
      BY Constants, RootType
    <3>2. QED
      BY <1>2, <3>1, Zenon
  <2>3. tab \in TablesType
    BY <1>2, <2>1, <2>2, Zenon DEF TablesType
  <2>4. QED
    BY <1>1, <2>3 DEF Typed
<1>4. /\ vol.mem.inode[Root] = RootInode
      /\ \A i \in Inodes : i # Root => vol.mem.inode[i] = NoInode
  BY <1>1, <1>2, Constants
<1>5. /\ Uses(vol, Root) = {1} /\ BlockAt(vol, Root, 1) = 0
      /\ \A i \in Inodes : i # Root => Uses(vol, i) = {}
  BY <1>4, Constants, RootType DEF Uses, DataUses, BlockAt
<1>6. BlocksNum(0) = 0 /\ BlocksNum(2) = 1
  <2>1. BlocksNum(0) = 0
    BY DEF BlocksNum, CeilDivision
  <2>2. 1 \in Nat \ {0} /\ (1 - 1) * UnitsPerBlock < 2 /\ 2 <= 1 * UnitsPerBlock
    BY Constants
  <2>3. QED
    BY <2>1, <2>2, BlocksOfUnit
<1>7. Sound(vol)
  <2>1. Fits(vol)
    BY <1>4, <1>6, Constants, RootType DEF Fits
  <2>2. MarksUsed(vol)
    BY <1>1, <1>2, <1>5 DEF MarksUsed
  <2>3. OwnsOnce(vol)
    <3>1. \A i \in Inodes : \A k : k \in Uses(vol, i) => i = Root /\ k = 1
      BY <1>5
    <3>2. QED
      BY <3>1 DEF OwnsOnce
  <2>4. QED
    BY <1>3, <2>1, <2>2, <2>3 DEF Sound
<1>8. Dirs(vol) = {Root} /\ Listed(vol, Root) = {}
  <2>1. \A i \in Inodes : vol.mem.inode[i].file_type = "DIRECTORY" <=> i = Root
    BY <1>4, RootType
  <2>2. vol.mem.inode[Root].dentry_num = 2
    BY <1>4, RootType
  <2>3. Root \in Inodes
    BY Constants
  <2>4. Dirs(vol) = {Root}
    BY <2>1, <2>3 DEF Dirs
  <2>5. Listed(vol, Root) = {}
    BY <2>2 DEF Listed
  <2>6. QED
    BY <2>4, <2>5
<1>9. FirstTwo(vol, Root)
  <2> DEFINE s == Block(<< <<"..", Root>>, <<".", Root>> >>, 1)
  <2>1. s[1] = <<"..", Root>> /\ s[2] = <<".", Root>>
    BY FirstEntries
  <2>2. vol.device[0] = s
    BY <1>1, Constants
  <2> HIDE DEF s
  <2>3. EntryAt(vol, Root, 1) = <<"..", Root>> /\ EntryAt(vol, Root, 2) = <<".", Root>>
    BY <1>5, <2>1, <2>2 DEF EntryAt
  <2>4. QED
    BY <2>3 DEF FirstTwo
<1>10. DirsOK(vol)
  BY <1>4, <1>8, <1>9, Constants, RootType DEF DirsOK, DirsFit, EntriesOK
<1>11. Entries(vol) = {}
  BY <1>8 DEF Entries
<1>12. UnusedOK(vol)
  BY <1>1, <1>2, <1>4, RootType DEF UnusedOK
<1>13. NamesCounted(vol)
  <2>1. IsFiniteSet({}) /\ Cardinality({}) = 0
    BY FS_EmptySet
  <2>2. \A i : Named({}, i) = {}
    BY DEF Named
  <2>3. QED
    BY <1>4, <1>8, <1>11, <2>1, <2>2, RootType DEF NamesCounted
<1>14. DiskOK(vol)
  BY <1>1, <1>7, AllSaved
<1>15. QED
  BY <1>7, <1>10, <1>12, <1>13, <1>14 DEF VolOK

-----------------------------------------------------------------------------
(***************************************************************************)
(* The paths the kernel asks for: their last name is in a directory.       *)
(***************************************************************************)
\* a sequence up to its k-th member, and one further
LEMMA OneFurther ==
  ASSUME NEW T, NEW s \in Seq(T), NEW k \in 0..Len(s) - 1
  PROVE  /\ SubSeq(s, 1, k + 1) \in Seq(T) /\ SubSeq(s, 1, k + 1) # <<>>
         /\ Front(SubSeq(s, 1, k + 1)) = SubSeq(s, 1, k)
         /\ Last(SubSeq(s, 1, k + 1)) = s[k + 1]
<1> DEFINE q == SubSeq(s, 1, k + 1)
           r == SubSeq(s, 1, k)
<1>1. Len(s) \in Nat /\ k \in Nat /\ k + 1 \in 1..Len(s) /\ \A j \in 1..Len(s) : s[j] \in T
  BY LenProperties
<1>2. /\ q \in Seq(T) /\ Len(q) = k + 1 /\ \A j \in 1..k + 1 : q[j] = s[j]
  BY <1>1, SubSeqProperties
<1>3. /\ r \in Seq(T) /\ Len(r) = k /\ \A j \in 1..k : r[j] = s[j]
  BY <1>1, SubSeqProperties
<1> HIDE DEF q, r
<1>4. q # <<>>
  BY <1>1, <1>2
<1>5. /\ Front(q) \in Seq(T) /\ Len(Front(q)) = k /\ \A j \in 1..k : Front(q)[j] = q[j]
  <2>1. /\ Front(q) \in Seq(T) /\ Len(Front(q)) = Len(q) - 1
        /\ \A j \in 1..Len(q) - 1 : Front(q)[j] = q[j]
    BY <1>2, <1>4, FrontOf
  <2>2. Len(q) - 1 = k
    BY <1>1, <1>2
  <2>3. QED
    BY <2>1, <2>2
<1>6. Front(q) = r
  <2>1. \A j \in 1..k : Front(q)[j] = r[j]
    BY <1>2, <1>3, <1>5
  <2>2. QED
    BY <1>1, <1>3, <1>5, <2>1, SeqEqual
<1>7. Last(q) = s[k + 1]
  BY <1>1, <1>2 DEF Last
<1>8. QED
  BY <1>2, <1>4, <1>6, <1>7 DEF q, r

\* every directory on the way is one
IsDirIn(v, d) == d # -1 /\ v.mem.inode[d].file_type = "DIRECTORY"
Reached(v, p) == \A k \in 1..Len(p) - 1 : IsDirIn(v, Walk(v, SubSeq(p, 1, k)))

LEMMA Reaches ==
  ASSUME NEW v, Sound(v), DirsOK(v), NEW p \in Seq(Names), p # <<>>, Reached(v, p)
  PROVE  /\ Walk(v, Front(p)) \in Dirs(v) /\ Last(p) \in Names
         /\ Walk(v, p) = LookupDirectory(v, Walk(v, Front(p)), Last(p))
<1> DEFINE n == Len(p) - 1
           S == {k \in 0..n : Walk(v, SubSeq(p, 1, k)) \in Dirs(v)}
<1>1. /\ Len(p) \in Nat \ {0} /\ n \in Nat /\ Last(p) \in Names
      /\ \A k \in 1..Len(p) : p[k] \in Names
  BY FrontOf, LenProperties
<1>2. 0 \in S
  <2>1. SubSeq(p, 1, 0) = <<>>
    BY <1>1, SubSeqProperties, EmptySeq
  <2>2. Walk(v, <<>>) = Root
    <3>1. <<>> \in Seq(Names)
      BY EmptySeq
    <3>2. QED
      BY <3>1, WalkStep
  <2>3. Root \in Dirs(v) /\ 0 \in 0..n
    BY <1>1 DEF DirsOK
  <2>4. Walk(v, SubSeq(p, 1, 0)) \in Dirs(v)
    BY <2>1, <2>2, <2>3
  <2>5. QED
    BY <2>3, <2>4
<1>3. ASSUME NEW k \in 0..n - 1, k \in S
      PROVE  k + 1 \in S
  <2> DEFINE q == SubSeq(p, 1, k + 1)
             d == Walk(v, SubSeq(p, 1, k))
  <2>1. k \in 0..Len(p) - 1 /\ k + 1 \in 1..n /\ k + 1 \in 0..n /\ k + 1 \in 1..Len(p)
    BY <1>1
  <2>2. /\ q \in Seq(Names) /\ q # <<>> /\ Front(q) = SubSeq(p, 1, k) /\ Last(q) = p[k + 1]
    BY <2>1, OneFurther
  <2>3. d \in Dirs(v) /\ p[k + 1] \in Names
    BY <1>1, <1>3, <2>1
  <2>4. IsDirIn(v, Walk(v, q))
    BY <2>1 DEF Reached
  <2>5. Walk(v, q) = LookupDirectory(v, d, p[k + 1])
    <3> HIDE DEF q
    <3>1. Walk(v, q) = LookupDirectory(v, Walk(v, Front(q)), Last(q))
      BY <2>2, WalkStep
    <3>2. QED
      BY <2>2, <3>1
  <2> HIDE DEF q, d
  <2>6. LookupDirectory(v, d, p[k + 1]) # -1
    BY <2>4, <2>5 DEF IsDirIn
  <2>7. <<d, p[k + 1], Walk(v, q)>> \in Entries(v)
    BY <2>3, <2>5, <2>6, Finds
  <2>8. Walk(v, q) \in Inodes
    BY <2>7, EntryShape
  <2>9. Walk(v, q) \in Dirs(v)
    BY <2>4, <2>8 DEF IsDirIn, Dirs
  <2>10. QED
    BY <2>1, <2>9 DEF q
<1>4. n \in S
  <2> HIDE DEF S
  <2>1. \A k \in 0..n : k \in S
    <3> HIDE DEF n
    <3>1. QED
      BY <1>1, <1>2, <1>3, UpTo
  <2>2. QED
    BY <1>1, <2>1
<1>5. Walk(v, SubSeq(p, 1, n)) \in Dirs(v)
  BY <1>4
<1>6. Front(p) = SubSeq(p, 1, n)
  BY DEF Front
<1>7. QED
  BY <1>1, <1>5, <1>6, WalkStep

\* what the operations know of a path that is there, and of one that is not
LEMMA AskedPaths ==
  ASSUME VolOK(vol), NEW p \in Asked
  PROVE  /\ ParentOf(vol, p) \in Dirs(vol) /\ Last(p) \in Names
         /\ p \in Present =>
              <<ParentOf(vol, p), Last(p), FileOf(vol, p)>> \in Entries(vol)
         /\ p \in Absent => \A j : <<ParentOf(vol, p), Last(p), j>> \notin Entries(vol)
<1>1. Sound(vol) /\ DirsOK(vol)
  BY DEF VolOK
<1>2. p \in Seq(Names) /\ p # <<>>
  BY FileAssumption DEF Asked
<1>3. Reached(vol, p)
  BY DEF Asked, Reached, IsDir, IsDirIn, FileOf
<1>4. /\ ParentOf(vol, p) \in Dirs(vol) /\ Last(p) \in Names
      /\ FileOf(vol, p) = LookupDirectory(vol, ParentOf(vol, p), Last(p))
  BY <1>1, <1>2, <1>3, Reaches DEF ParentOf, FileOf
<1>5. p \in Present => FileOf(vol, p) # -1
  BY DEF Present
<1>6. p \in Absent => FileOf(vol, p) = -1
  BY DEF Present, Absent
<1>7. QED
  BY <1>1, <1>4, <1>5, <1>6, Finds

-----------------------------------------------------------------------------
(***************************************************************************)
(* truncate and write: the blocks of one file change, no name does.        *)
(***************************************************************************)
\* u is v with another content of file i, under the same names
Rewritten(v, u, i) ==
  /\ Sound(u)
  /\ \A j \in Inodes : j # i => /\ SameFile(v, u, j) /\ SameContents(v, u, j)
                                /\ u.mem.inode[j] = v.mem.inode[j]
  /\ u.mem.inode[i].file_type = v.mem.inode[i].file_type
  /\ u.mem.inode[i].links = v.mem.inode[i].links
  /\ v.mem.inode_bitmap \subseteq u.mem.inode_bitmap
  /\ v.disk.inode_bitmap \subseteq u.disk.inode_bitmap

\* a file that is no directory, with a name
Regular(v, i) == /\ i \in Inodes /\ v.mem.inode[i].file_type = "NORMAL_FILE"
                 /\ v.mem.inode[i].links # 0

LEMMA RewrittenKeeps ==
  ASSUME NEW v, VolOK(v), NEW i, Regular(v, i), NEW u, Rewritten(v, u, i), DiskOK(u)
  PROVE  VolOK(u) /\ Regular(u, i)
<1>1. /\ Sound(v) /\ DirsOK(v) /\ UnusedOK(v) /\ NamesCounted(v)
      /\ i \in Inodes /\ i \notin Dirs(v)
  BY DEF VolOK, Regular, Dirs
<1>2. Dirs(u) = Dirs(v)
  BY DEF Rewritten, Dirs, Regular
<1>3. \A d \in Dirs(v) : /\ u.mem.inode[d].file_size = v.mem.inode[d].file_size
                         /\ u.mem.inode[d].dentry_num = v.mem.inode[d].dentry_num
                         /\ SameFile(v, u, d) /\ SameContents(v, u, d)
  BY <1>1 DEF Rewritten, Dirs
<1>4. DirsOK(u) /\ Entries(u) = Entries(v)
  BY <1>1, <1>2, <1>3, NamesSame
<1>5. SameCounts(v, u)
  <2>1. \A j \in Inodes : /\ u.mem.inode[j].links = v.mem.inode[j].links
                          /\ v.mem.inode[j].links = 0 => u.mem.inode[j] = v.mem.inode[j]
    BY DEF Rewritten, Regular
  <2>2. QED
    BY <1>2, <1>4, <2>1 DEF SameCounts, Rewritten
<1>6. UnusedOK(u) /\ NamesCounted(u)
  BY <1>1, <1>5, SameCountsKeeps
<1>7. QED
  BY <1>4, <1>6 DEF VolOK, Rewritten, Regular

\* the indirect data blocks that a size takes
LEMMA IndexNums ==
  ASSUME NEW size \in Nat
  PROVE  SecondIndirectNum(size) =
           IF BlocksNum(size) <= Direct THEN 0 ELSE BlocksNum(size) - Direct
<1>1. BlocksNum(size) \in Nat /\ Direct \in Nat
  BY BlocksFit, Constants
<1>2. PICK n \in Nat : n = BlocksNum(size)
  BY <1>1
<1>3. SecondIndirectNum(size) = Max({0, n - Direct})
  BY <1>2 DEF SecondIndirectNum, Direct
<1>4. ASSUME n <= Direct
      PROVE  Max({0, n - Direct}) = 0
  BY <1>1, <1>4 DEF Max
<1>5. ASSUME ~(n <= Direct)
      PROVE  Max({0, n - Direct}) = n - Direct
  BY <1>1, <1>5 DEF Max
<1>6. QED
  BY <1>2, <1>3, <1>4, <1>5

\* the volume with other blocks marked and another inode
WithBlocks(v, db, i, n) == [v EXCEPT !.mem.datablock_bitmap = db, !.mem.inode[i] = n]

\* w differs from v in the blocks in use and in inode i only
Reblocked(v, w, db, i, n) ==
  /\ Typed(w) /\ SameDisk(v, w) /\ SameDevice(v, w)
  /\ w.mem.inode[i] = n
  /\ \A j \in Inodes : j # i => w.mem.inode[j] = v.mem.inode[j]
  /\ w.mem.inode_bitmap = v.mem.inode_bitmap /\ w.mem.datablock_bitmap = db

LEMMA SetsBlocks ==
  ASSUME NEW v, Typed(v), NEW db \in SUBSET Blocks,
         NEW i \in Inodes, NEW n \in InodeType, NEW w, w = WithBlocks(v, db, i, n)
  PROVE  Reblocked(v, w, db, i, n)
BY DEF Reblocked, Typed, SameDisk, SameDevice, TablesType, WithBlocks

\* the inode of a file of another size
Sized(n, size) == [n EXCEPT !.file_size = size, !.blocks_number = BlocksNum(size)]

LEMMA SizedType ==
  ASSUME NEW n \in InodeType, NEW size \in Nat
  PROVE  /\ Sized(n, size) \in InodeType
         /\ Sized(n, size).file_size = size /\ Sized(n, size).blocks_number = BlocksNum(size)
         /\ Sized(n, size).file_type = n.file_type /\ Sized(n, size).links = n.links
         /\ Sized(n, size).direct_block = n.direct_block
         /\ Sized(n, size).indirect_block = n.indirect_block
<1>1. BlocksNum(size) \in Nat
  BY BlocksFit
<1>2. QED
  BY <1>1 DEF Sized, InodeType

\* the inodes and the blocks go to disk, the bitmap of inodes does not
FileSaved(v, w) ==
  /\ Typed(w) /\ SameMem(v, w) /\ SameDevice(v, w)
  /\ w.disk.inode = v.mem.inode
  /\ w.disk.datablock_bitmap = v.mem.datablock_bitmap
  /\ w.disk.inode_bitmap = v.disk.inode_bitmap

LEMMA SavesFile ==
  ASSUME NEW v, Typed(v), NEW w,
         w = WriteInodeTable(WriteBlockBitmap(v)) \/ w = WriteBlockBitmap(WriteInodeTable(v))
  PROVE  FileSaved(v, w)
<1>1. CASE w = WriteInodeTable(WriteBlockBitmap(v))
  <2> DEFINE x == WriteBlockBitmap(v)
  <2>1. /\ Typed(x) /\ SameMem(v, x) /\ SameDevice(v, x)
        /\ x.disk.inode_bitmap = v.disk.inode_bitmap
        /\ x.disk.datablock_bitmap = v.mem.datablock_bitmap
    BY SavesBlockBitmap
  <2>2. w = WriteInodeTable(x)
    BY <1>1
  <2> HIDE DEF x
  <2>3. /\ Typed(w) /\ SameMem(x, w) /\ SameDevice(x, w)
        /\ w.disk.inode = x.mem.inode
        /\ w.disk.inode_bitmap = x.disk.inode_bitmap
        /\ w.disk.datablock_bitmap = x.disk.datablock_bitmap
    BY <2>1, <2>2, SavesInodes
  <2>4. QED
    BY <2>1, <2>3 DEF FileSaved, SameMem, SameDevice
<1>2. CASE w = WriteBlockBitmap(WriteInodeTable(v))
  <2> DEFINE x == WriteInodeTable(v)
  <2>1. /\ Typed(x) /\ SameMem(v, x) /\ SameDevice(v, x)
        /\ x.disk.inode_bitmap = v.disk.inode_bitmap
        /\ x.disk.inode = v.mem.inode
    BY SavesInodes
  <2>2. w = WriteBlockBitmap(x)
    BY <1>2
  <2> HIDE DEF x
  <2>3. /\ Typed(w) /\ SameMem(x, w) /\ SameDevice(x, w)
        /\ w.disk.inode = x.disk.inode
        /\ w.disk.inode_bitmap = x.disk.inode_bitmap
        /\ w.disk.datablock_bitmap = x.mem.datablock_bitmap
    BY <2>1, <2>2, SavesBlockBitmap
  <2>4. QED
    BY <2>1, <2>3 DEF FileSaved, SameMem, SameDevice
<1>3. QED
  BY <1>1, <1>2

\* what is saved that way is all a remount must find of the files
LEMMA SavedFile ==
  ASSUME NEW v, Sound(v), v.disk.inode = v.mem.inode,
         v.disk.datablock_bitmap = v.mem.datablock_bitmap
  PROVE  DiskOK(v)
BY DEF DiskOK, Sound, MarksUsed

(***************************************************************************)
(* file_decrease_block_num() frees the blocks past the new size.           *)
(***************************************************************************)
\* the blocks a smaller size gives up
Dropped(v, i, new) == {k \in Uses(v, i) : k > new /\ (k <= Most \/ new <= Direct)}

FreedBy(v, i, size) ==
  LET n     == v.mem.inode[i]
      new   == BlocksNum(size)
      index == DatablockIndex(v, i)
  IN {index[k] : k \in new + 1..n.blocks_number}
     \cup {SecondIndirect(v, i, k) :
             k \in SecondIndirectNum(size)..SecondIndirectNum(n.file_size) - 1}
     \cup (IF n.blocks_number > Direct /\ new <= Direct THEN {n.indirect_block} ELSE {})

\* only entry 0 of the first index was ever set: the rule that keeps long files
LEMMA FreesDropped ==
  ASSUME NEW v, Sound(v), NEW i \in Inodes, NEW size \in Nat,
         size < v.mem.inode[i].file_size,
         SecondIndirectNum(v.mem.inode[i].file_size) \in {0, 1, SecondIndirectNum(size)}
  PROVE  FreedBy(v, i, size) \subseteq FreedOf(v, i, Dropped(v, i, BlocksNum(size)))
<1> DEFINE n == v.mem.inode[i]
           index == DatablockIndex(v, i)
           A == {index[k] : k \in BlocksNum(size) + 1..n.blocks_number}
           B == {SecondIndirect(v, i, k) :
                   k \in SecondIndirectNum(size)..SecondIndirectNum(n.file_size) - 1}
           C == IF n.blocks_number > Direct /\ BlocksNum(size) <= Direct
                  THEN {n.indirect_block} ELSE {}
           F == FreedOf(v, i, Dropped(v, i, BlocksNum(size)))
<1>1. /\ n.file_size \in Nat /\ n.blocks_number = BlocksNum(n.file_size)
      /\ n.blocks_number <= Most /\ n.blocks_number \in Nat
  BY InodeTypes DEF Sound, Fits
<1>2. PICK old, new \in Nat : /\ old = n.blocks_number /\ new = BlocksNum(size)
                              /\ old <= Most /\ new <= old
  <2>1. BlocksNum(size) \in Nat /\ BlocksNum(size) <= BlocksNum(n.file_size)
    BY <1>1, BlocksFit, BlocksGrow
  <2>2. QED
    BY <1>1, <2>1
<1>3. /\ DataUses(v, i) = 1..old
      /\ \A k \in 1..old : index[k] = BlockAt(v, i, k) /\ k \in Uses(v, i)
      /\ old > Direct => FirstIndex \in Uses(v, i) /\ SecondIndex \in Uses(v, i)
  <2>1. DataUses(v, i) = 1..old
    BY <1>2 DEF DataUses
  <2>2. /\ DataUses(v, i) \subseteq Uses(v, i)
        /\ \A k \in DataUses(v, i) : index[k] = BlockAt(v, i, k)
        /\ n.blocks_number > Direct => FirstIndex \in Uses(v, i) /\ SecondIndex \in Uses(v, i)
    BY DataBlocks, UsesBounds
  <2>3. QED
    BY <1>2, <2>1, <2>2
<1>4. /\ Direct \in Nat \ {0} /\ Most \in Nat /\ FirstIndex \in Nat /\ SecondIndex \in Nat
      /\ Most > Direct /\ FirstIndex > Most /\ SecondIndex > Most
  BY Constants
<1>5. \A k \in Uses(v, i) : k > new /\ (k <= Most \/ new <= Direct) => BlockAt(v, i, k) \in F
  BY <1>2 DEF FreedOf, Dropped
<1>6. A \subseteq F
  <2> SUFFICES ASSUME NEW k \in new + 1..old PROVE index[k] \in F
    BY <1>2
  <2>1. k \in 1..old /\ k > new /\ k <= Most
    BY <1>2, <1>4
  <2>2. QED
    BY <1>3, <1>5, <2>1
<1>7. B \subseteq F
  <2> SUFFICES ASSUME NEW k \in SecondIndirectNum(size)..SecondIndirectNum(n.file_size) - 1
               PROVE  SecondIndirect(v, i, k) \in F
    OBVIOUS
  <2>1. /\ SecondIndirectNum(size) = IF new <= Direct THEN 0 ELSE new - Direct
        /\ SecondIndirectNum(n.file_size) = IF old <= Direct THEN 0 ELSE old - Direct
    BY <1>1, <1>2, IndexNums
  <2>2. k = 0 /\ new <= Direct /\ old > Direct
    BY <1>2, <1>4, <2>1
  <2>3. BlockAt(v, i, SecondIndex) = SecondIndirect(v, i, 0)
    BY IndexBlocks
  <2>4. SecondIndex \in Uses(v, i) /\ SecondIndex > new
    BY <1>2, <1>3, <1>4, <2>2
  <2>5. BlockAt(v, i, SecondIndex) \in F
    BY <1>5, <2>2, <2>4
  <2>6. QED
    BY <2>2, <2>3, <2>5
<1>8. C \subseteq F
  <2> SUFFICES ASSUME n.blocks_number > Direct, BlocksNum(size) <= Direct
               PROVE  n.indirect_block \in F
    OBVIOUS
  <2>1. BlockAt(v, i, FirstIndex) = n.indirect_block
    BY IndexBlocks
  <2>2. FirstIndex \in Uses(v, i) /\ FirstIndex > new /\ new <= Direct
    BY <1>2, <1>3, <1>4
  <2>3. QED
    BY <1>5, <2>1, <2>2
<1>9. FreedBy(v, i, size) = A \cup B \cup C
  BY DEF FreedBy
<1> HIDE DEF A, B, C, F
<1>10. FreedBy(v, i, size) \subseteq F
  BY <1>6, <1>7, <1>8, <1>9
<1>11. QED
  BY <1>10 DEF F

LEMMA DecreaseKeeps ==
  ASSUME NEW v, VolOK(v), NEW i, Regular(v, i), NEW size \in Nat,
         size < v.mem.inode[i].file_size,
         SecondIndirectNum(v.mem.inode[i].file_size) \in {0, 1, SecondIndirectNum(size)},
         NEW u, u = Decrease(v, i, size)
  PROVE  VolOK(u)
<1> DEFINE n == v.mem.inode[i]
           q == Sized(n, size)
           db == v.mem.datablock_bitmap \ FreedBy(v, i, size)
           x == WithBlocks(v, db, i, q)
           K == Dropped(v, i, BlocksNum(size))
<1>1. u = WriteInodeTable(WriteBlockBitmap(x))
  BY Zenon DEF Decrease, WithBlocks, Sized, FreedBy, Direct
<1>2. Sound(v) /\ Typed(v) /\ i \in Inodes /\ n \in InodeType /\ db \in SUBSET Blocks
  BY InodeTypes DEF VolOK, Sound, Regular
<1>3. /\ q \in InodeType /\ q.file_size = size /\ q.blocks_number = BlocksNum(size)
      /\ q.file_type = n.file_type /\ q.links = n.links
      /\ q.direct_block = n.direct_block /\ q.indirect_block = n.indirect_block
  BY <1>2, SizedType
<1>4. FreedBy(v, i, size) \subseteq FreedOf(v, i, K)
  BY <1>2, FreesDropped
<1>5. v.mem.datablock_bitmap \ FreedOf(v, i, K) \subseteq db
  BY <1>4
<1> HIDE DEF q, db, x, K
<1>6. /\ Typed(x) /\ SameDisk(v, x) /\ SameDevice(v, x) /\ x.mem.inode[i] = q
      /\ \A j \in Inodes : j # i => x.mem.inode[j] = v.mem.inode[j]
      /\ x.mem.inode_bitmap = v.mem.inode_bitmap /\ x.mem.datablock_bitmap = db
  <2>1. Typed(v) /\ i \in Inodes /\ db \in SUBSET Blocks /\ q \in InodeType
    BY <1>2, <1>3
  <2>2. x = WithBlocks(v, db, i, q)
    BY DEF x
  <2>3. Reblocked(v, x, db, i, q)
    BY <2>1, <2>2, SetsBlocks, Zenon
  <2>4. QED
    BY <2>3 DEF Reblocked
<1>7. FileSaved(x, u)
  BY <1>1, <1>6, SavesFile
<1>8. /\ Typed(u) /\ SameDevice(v, u) /\ u.mem.inode[i] = q
      /\ \A j \in Inodes : j # i => u.mem.inode[j] = v.mem.inode[j]
      /\ u.mem.inode_bitmap = v.mem.inode_bitmap /\ u.mem.datablock_bitmap = db
      /\ u.disk.inode = u.mem.inode /\ u.disk.datablock_bitmap = u.mem.datablock_bitmap
      /\ u.disk.inode_bitmap = v.disk.inode_bitmap
  BY <1>6, <1>7 DEF FileSaved, SameMem, SameDevice, SameDisk
<1>9. PICK old, new \in Nat :
        /\ old = n.blocks_number /\ new = BlocksNum(size) /\ new = u.mem.inode[i].blocks_number
        /\ old <= Most /\ new <= old
  <2>1. /\ n.file_size \in Nat /\ n.blocks_number = BlocksNum(n.file_size)
        /\ n.blocks_number <= Most /\ n.blocks_number \in Nat
    BY <1>2, InodeTypes DEF Sound, Fits
  <2>2. BlocksNum(size) \in Nat /\ BlocksNum(size) <= BlocksNum(n.file_size)
    BY <2>1, BlocksFit, BlocksGrow
  <2>3. QED
    BY <1>3, <1>8, <2>1, <2>2
<1>10. \A k \in Uses(u, i) : k \in Uses(v, i) \ K /\ BlockAt(u, i, k) = BlockAt(v, i, k)
  <2>1. /\ Direct \in Nat \ {0} /\ Most \in Nat
        /\ FirstIndex \in Nat /\ SecondIndex \in Nat
        /\ FirstIndex > Most /\ SecondIndex > Most
    BY Constants
  <2>2. \A k : BlockAt(u, i, k) = BlockAt(v, i, k)
    BY <1>3, <1>8 DEF BlockAt, SecondIndirect, SameDevice
  <2>3. /\ Uses(u, i) = 1..new \cup (IF new <= Direct THEN {} ELSE {FirstIndex, SecondIndex})
        /\ Uses(v, i) = 1..old \cup (IF old <= Direct THEN {} ELSE {FirstIndex, SecondIndex})
        /\ K = {k \in Uses(v, i) : k > new /\ (k <= Most \/ new <= Direct)}
    BY <1>9 DEF Uses, DataUses, K, Dropped
  <2>4. \A k \in Uses(u, i) : k \in Uses(v, i) \ K
    BY <1>9, <2>1, <2>3, SMTT(30)
  <2>5. QED
    BY <2>2, <2>4
<1>11. /\ Sound(u)
       /\ \A j \in Inodes : j # i => SameFile(v, u, j) /\ SameContents(v, u, j)
  <2>1. K \in SUBSET Uses(v, i)
    BY DEF K, Dropped
  <2>2. /\ u.mem.inode[i].blocks_number = BlocksNum(u.mem.inode[i].file_size)
        /\ u.mem.inode[i].blocks_number <= Most
    <3>1. Most \in Nat
      BY Constants
    <3>2. QED
      BY <1>3, <1>8, <1>9, <3>1
  <2>3. v.mem.datablock_bitmap \ FreedOf(v, i, K) \subseteq u.mem.datablock_bitmap
    BY <1>5, <1>8
  <2>4. QED
    BY <1>2, <1>8, <1>10, <2>1, <2>2, <2>3, GivesUp
<1>12. Rewritten(v, u, i)
  BY <1>3, <1>8, <1>11 DEF Rewritten
<1>13. DiskOK(u)
  BY <1>8, <1>11, SavedFile
<1>14. QED
  BY <1>12, <1>13, RewrittenKeeps

(***************************************************************************)
(* file_increase_block_num() takes free blocks in the order of the bitmap. *)
(***************************************************************************)
\* the first m of the first need free blocks
FreeNum(v, free, need, m) ==
  /\ free = InOrder(Blocks \ v.mem.datablock_bitmap)
  /\ need \in Nat /\ need <= Cardinality(Blocks \ v.mem.datablock_bitmap)
  /\ m \in Nat /\ m <= need

LEMMA FreeList ==
  ASSUME NEW v, Typed(v), NEW free, NEW need, NEW m, FreeNum(v, free, need, m)
  PROVE  /\ \A k \in 1..need : free[k] \in Blocks /\ free[k] \notin v.mem.datablock_bitmap
         /\ \A k, l \in 1..need : free[k] = free[l] => k = l
         /\ Len(SubSeq(free, 1, m)) = m
         /\ \A k \in 1..m : SubSeq(free, 1, m)[k] = free[k]
         /\ ToSet(SubSeq(free, 1, need)) = {free[k] : k \in 1..need}
<1> DEFINE S == Blocks \ v.mem.datablock_bitmap
<1> USE DEF FreeNum
<1>1. S \in SUBSET Int /\ IsFiniteSet(S)
  BY Constants, FS_Subset
<1>2. /\ \A k \in 1..Cardinality(S) : free[k] \in S
      /\ \A k, l \in 1..Cardinality(S) : free[k] = free[l] => k = l
  BY <1>1, BitsInOrder
<1>3. Cardinality(S) \in Nat
  BY <1>1, FS_CardinalityType
<1>4. \A k \in 1..need : k \in 1..Cardinality(S)
  BY <1>3
<1> HIDE DEF S
<1>5. /\ \A k \in 1..need : free[k] \in S
      /\ \A k, l \in 1..need : free[k] = free[l] => k = l
  BY <1>2, <1>4
<1>6. /\ Len(SubSeq(free, 1, m)) = m /\ \A k \in 1..m : SubSeq(free, 1, m)[k] = free[k]
  <2>1. 1 \in Int /\ m \in Int /\ 1 <= m + 1 /\ m - 1 + 1 = m /\ \A k \in 1..m : 1 + k - 1 = k
    OBVIOUS
  <2>2. /\ Len(SubSeq(free, 1, m)) = m - 1 + 1
        /\ \A k \in 1..(m - 1 + 1) : SubSeq(free, 1, m)[k] = free[1 + k - 1]
    BY <2>1, Cut
  <2>3. QED
    BY <2>1, <2>2
<1>7. ToSet(SubSeq(free, 1, need)) = {free[k] : k \in 1..need}
  <2>1. 1 \in Int /\ need \in Int /\ 1 <= need + 1 /\ need - 1 + 1 = need
        /\ \A k \in 1..need : 1 + k - 1 = k
    OBVIOUS
  <2>2. /\ DOMAIN SubSeq(free, 1, need) = 1..(need - 1 + 1)
        /\ \A k \in 1..(need - 1 + 1) : SubSeq(free, 1, need)[k] = free[1 + k - 1]
    BY <2>1, Cut
  <2>3. /\ DOMAIN SubSeq(free, 1, need) = 1..need
        /\ \A k \in 1..need : SubSeq(free, 1, need)[k] = free[k]
    BY <2>1, <2>2
  <2>4. QED
    BY <2>3 DEF ToSet
<1>8. QED
  BY <1>5, <1>6, <1>7 DEF S

\* the first entry of an index
LEMMA FirstOfIndex == \A b : Index(<<b>>)[1] = b
<1> SUFFICES ASSUME NEW b PROVE Index(<<b>>)[1] = b
  OBVIOUS
<1>1. 1 \in 1..UnitsPerBlock
  BY Constants
<1>2. Len(<<b>>) = 1 /\ <<b>>[1] = b
  OBVIOUS
<1>3. QED
  BY <1>1, <1>2 DEF Index

WithGrowth(v, more, i, n, dev) ==
  [v EXCEPT !.mem.datablock_bitmap = @ \cup more, !.mem.inode[i] = n, !.device = dev]

GrowthSet(v, w, more, i, n, dev) ==
  /\ Typed(w) /\ SameDisk(v, w) /\ w.device = dev
  /\ w.mem.inode[i] = n
  /\ \A j \in Inodes : j # i => w.mem.inode[j] = v.mem.inode[j]
  /\ w.mem.inode_bitmap = v.mem.inode_bitmap
  /\ w.mem.datablock_bitmap = v.mem.datablock_bitmap \cup more

LEMMA SetsGrowth ==
  ASSUME NEW v, Typed(v), NEW more \in SUBSET Blocks, NEW i \in Inodes,
         NEW n \in InodeType, NEW dev, NEW w, w = WithGrowth(v, more, i, n, dev)
  PROVE  GrowthSet(v, w, more, i, n, dev)
BY DEF GrowthSet, Typed, SameDisk, TablesType, WithGrowth

\* the inode of a file with all of its blocks
Filled(n, size, table, direct) ==
  [n EXCEPT !.file_size = size, !.blocks_number = BlocksNum(size),
            !.indirect_block = table, !.direct_block = direct]

LEMMA FilledType ==
  ASSUME NEW n \in InodeType, NEW size \in Nat, NEW table \in Blocks,
         NEW direct \in [1..Direct -> Blocks], NEW q, q = Filled(n, size, table, direct)
  PROVE  /\ q \in InodeType /\ q.file_size = size /\ q.blocks_number = BlocksNum(size)
         /\ q.file_type = n.file_type /\ q.links = n.links
         /\ q.direct_block = direct /\ q.indirect_block = table
<1>1. BlocksNum(size) \in Nat
  BY BlocksFit
<1>2. QED
  BY <1>1 DEF Filled, InodeType

(***************************************************************************)
(* x is v with file i grown to the given size: the blocks it did not have  *)
(* are the first need of the free ones, and only its index is written to.  *)
(***************************************************************************)
Grown(v, x, i, size, need, free) ==
  /\ Typed(x) /\ SameDisk(v, x)
  /\ x.mem.inode_bitmap = v.mem.inode_bitmap
  /\ x.mem.datablock_bitmap = v.mem.datablock_bitmap \cup {free[k] : k \in 1..need}
  /\ \A j \in Inodes : j # i => x.mem.inode[j] = v.mem.inode[j]
  /\ x.mem.inode[i].file_type = v.mem.inode[i].file_type
  /\ x.mem.inode[i].links = v.mem.inode[i].links
  /\ x.mem.inode[i].file_size = size
  /\ x.mem.inode[i].blocks_number = BlocksNum(size)
  /\ \A b \in Blocks :
       /\ \A k \in 1..need : b # free[k]
       /\ SecondIndex \in Uses(v, i) => b # BlockAt(v, i, SecondIndex)
       => x.device[b] = v.device[b]
  /\ \A k \in Uses(x, i) :
       IF k \in Uses(v, i) THEN BlockAt(x, i, k) = BlockAt(v, i, k)
       ELSE \E m \in 1..need : BlockAt(x, i, k) = free[m]
  /\ \A k, l \in Uses(x, i) \ Uses(v, i) : BlockAt(x, i, k) = BlockAt(x, i, l) => k = l

\* which of the free blocks becomes the k-th: those for the indexes are last
Rank(k, old, need) ==
  IF k <= Most THEN k - old ELSE IF k = FirstIndex THEN need - 1 ELSE need

LEMMA LinksBlocks ==
  ASSUME NEW v, Sound(v), NEW i \in Inodes, NEW size \in Nat,
         v.mem.inode[i].blocks_number < BlocksNum(size), BlocksNum(size) <= Most,
         BlocksToTake(v, i, size) <= Cardinality(Blocks \ v.mem.datablock_bitmap)
  PROVE  Grown(v, Linked(v, i, size), i, size,
               BlocksToTake(v, i, size), InOrder(Blocks \ v.mem.datablock_bitmap))
<1> DEFINE x     == Linked(v, i, size)
           free  == InOrder(Blocks \ v.mem.datablock_bitmap)
           n     == v.mem.inode[i]
           old0  == BlocksNum(n.file_size)
           new0  == BlocksNum(size)
           first == TakesIndexes(v, i, size)
           need0 == BlocksToTake(v, i, size)
           data  == SubSeq(free, 1, new0 - old0)
           table == IF first THEN free[need0 - 1] ELSE n.indirect_block
           block == IF first THEN free[need0] ELSE SecondIndirect(v, i, 0)
           kept  == IF first THEN <<>>
                    ELSE SubSeq(v.device[block], 1, old0 - Direct)
           added == SubSeq(data, Len(data) - (SecondIndirectNum(size) - Len(kept)) + 1, Len(data))
           direct == [k \in 1..Direct |->
                        IF k \in old0 + 1..new0 THEN data[k - old0] ELSE n.direct_block[k]]
           dev == [b \in Blocks |->
                     IF new0 > Direct /\ b = block THEN Index(kept \o added)
                     ELSE IF first /\ b = table THEN Index(<<block>>) ELSE v.device[b]]
           more == ToSet(SubSeq(free, 1, need0))
           q == Filled(n, size, table, direct)
<1>1. x = WithGrowth(v, more, i, q, dev)
  BY Zenon DEF Linked, WithGrowth, Filled, Direct
<1> HIDE DEF x, free, data, table, block, kept, added, direct, dev, more, q
<1>2. /\ Typed(v) /\ n \in InodeType /\ n.direct_block \in [1..Direct -> Blocks]
      /\ n.indirect_block \in Blocks /\ n.file_size \in Nat /\ n.blocks_number \in Nat
      /\ n.blocks_number = old0
  BY InodeTypes DEF Sound, Fits
<1>3. /\ Direct \in Nat \ {0} /\ Most \in Nat /\ Most > Direct
      /\ UnitsPerBlock \in Nat /\ Most = Direct + UnitsPerBlock
      /\ FirstIndex \in Nat /\ SecondIndex \in Nat
      /\ FirstIndex > Most /\ SecondIndex > FirstIndex
  BY Constants DEF Most
<1>4. new0 \in Nat
  BY BlocksFit
<1>5. PICK old, new \in Nat : old = n.blocks_number /\ old = old0 /\ new = new0
  BY <1>2, <1>4
<1>6. old < new /\ new <= Most
  BY <1>5
<1>7. first <=> new > Direct /\ old <= Direct
  BY <1>5 DEF TakesIndexes, Direct
<1>8. PICK need \in Nat : need = need0 /\ need = new - old + (IF first THEN 2 ELSE 0)
  <2>1. need0 = new - old + (IF first THEN 2 ELSE 0)
    BY <1>5 DEF BlocksToTake
  <2>2. new - old + (IF first THEN 2 ELSE 0) \in Nat
    BY <1>6
  <2>3. QED
    BY <2>1, <2>2
<1> HIDE DEF first
<1>9. PICK grow \in Nat : grow = new - old /\ grow <= need /\ grow >= 1
  BY <1>6, <1>8
<1>10. /\ \A k \in 1..need : free[k] \in Blocks /\ free[k] \notin v.mem.datablock_bitmap
       /\ \A k, l \in 1..need : free[k] = free[l] => k = l
       /\ Len(SubSeq(free, 1, grow)) = grow
       /\ \A k \in 1..grow : SubSeq(free, 1, grow)[k] = free[k]
       /\ ToSet(SubSeq(free, 1, need)) = {free[k] : k \in 1..need}
  <2>1. FreeNum(v, free, need, grow) /\ Typed(v)
    BY <1>2, <1>8, <1>9 DEF FreeNum, free
  <2>2. QED
    BY <2>1, FreeList
<1>11. Len(data) = grow /\ \A k \in 1..grow : data[k] = free[k]
  BY <1>5, <1>9, <1>10 DEF data
<1>12. \A k \in 1..Direct : /\ direct[k] = IF k <= old THEN n.direct_block[k]
                                           ELSE IF k <= new THEN free[k - old]
                                           ELSE n.direct_block[k]
                            /\ direct[k] \in Blocks
  <2> SUFFICES ASSUME NEW k \in 1..Direct
               PROVE  /\ direct[k] = IF k <= old THEN n.direct_block[k]
                                           ELSE IF k <= new THEN free[k - old]
                                           ELSE n.direct_block[k]
                      /\ direct[k] \in Blocks
    OBVIOUS
  <2>1. direct[k] = IF k \in old + 1..new THEN data[k - old] ELSE n.direct_block[k]
    BY <1>5 DEF direct
  <2>2. n.direct_block[k] \in Blocks
    BY <1>2
  <2>3. CASE k \in old + 1..new
    <3>1. k - old \in 1..grow /\ k - old \in 1..need /\ ~(k <= old) /\ k <= new
      BY <1>6, <1>9, <2>3
    <3>2. QED
      BY <1>10, <1>11, <2>1, <2>3, <3>1
  <2>4. CASE k \notin old + 1..new
    BY <1>6, <2>1, <2>2, <2>4
  <2>5. QED
    BY <2>3, <2>4
<1>13. direct \in [1..Direct -> Blocks]
  BY <1>12 DEF direct
<1>14. first =>
          /\ table = free[need - 1] /\ block = free[need] /\ table # block
          /\ need \in 1..need /\ need - 1 \in 1..need
          /\ need - 1 = new - old + 1 /\ need = new - old + 2
  <2> SUFFICES ASSUME first
               PROVE  /\ table = free[need - 1] /\ block = free[need] /\ table # block
                      /\ need \in 1..need /\ need - 1 \in 1..need
                      /\ need - 1 = new - old + 1 /\ need = new - old + 2
    OBVIOUS
  <2>1. table = free[need - 1] /\ block = free[need]
    BY <1>8 DEF table, block
  <2>2. /\ need \in 1..need /\ need - 1 \in 1..need /\ need # need - 1
        /\ need - 1 = new - old + 1 /\ need = new - old + 2
    BY <1>6, <1>8
  <2>3. QED
    BY <1>10, <2>1, <2>2
\* a file that has its indexes keeps them
<1>15. ~first /\ new > Direct =>
          /\ old > Direct /\ FirstIndex \in Uses(v, i) /\ SecondIndex \in Uses(v, i)
          /\ table = BlockAt(v, i, FirstIndex) /\ block = BlockAt(v, i, SecondIndex)
          /\ block = SecondIndirect(v, i, 0) /\ table = n.indirect_block
          /\ table # block /\ table \in Blocks /\ block \in Blocks
  <2> SUFFICES ASSUME ~first, new > Direct
               PROVE  /\ old > Direct /\ FirstIndex \in Uses(v, i) /\ SecondIndex \in Uses(v, i)
                      /\ table = BlockAt(v, i, FirstIndex) /\ block = BlockAt(v, i, SecondIndex)
                      /\ block = SecondIndirect(v, i, 0) /\ table = n.indirect_block
                      /\ table # block /\ table \in Blocks /\ block \in Blocks
    OBVIOUS
  <2>1. old > Direct
    BY <1>3, <1>7
  <2>2. FirstIndex \in Uses(v, i) /\ SecondIndex \in Uses(v, i)
    BY <1>5, <2>1, UsesBounds
  <2>3. block = SecondIndirect(v, i, 0) /\ table = n.indirect_block
    BY DEF table, block
  <2>4. table = BlockAt(v, i, FirstIndex) /\ block = BlockAt(v, i, SecondIndex)
    BY <2>3, IndexBlocks
  <2>5. table \in Blocks /\ block \in Blocks
    BY <2>2, <2>4, UsesBounds
  <2>6. table # block
    BY <1>3, <2>2, <2>4 DEF Sound, OwnsOnce
  <2>7. QED
    BY <2>1, <2>2, <2>3, <2>4, <2>5, <2>6
<1>16. table \in Blocks /\ (new > Direct => block \in Blocks)
  <2>1. CASE first
    BY <1>10, <1>14, <2>1
  <2>2. CASE ~first
    <3>1. table \in Blocks
      BY <1>2, <2>2 DEF table
    <3>2. QED
      BY <1>15, <2>2, <3>1
  <2>3. QED
    BY <2>1, <2>2
<1>17. more = {free[k] : k \in 1..need} /\ more \in SUBSET Blocks
  <2>1. more = ToSet(SubSeq(free, 1, need))
    BY <1>8 DEF more
  <2>2. QED
    BY <1>10, <2>1
\* the entries of the index: those there were, then the blocks taken
<1>18. ASSUME new > Direct, NEW k \in Direct + 1..new
       PROVE  Index(kept \o added)[k - Direct] =
                IF k <= old THEN v.device[block][k - Direct] ELSE free[k - old]
  <2>1. new > Direct /\ (first => old <= Direct) /\ (~first => old > Direct)
    BY <1>7, <1>15, <1>18
  <2>2. PICK had \in Nat : had = IF first THEN 0 ELSE old - Direct
    <3>1. (IF first THEN 0 ELSE old - Direct) \in Nat
      BY <1>3, <2>1
    <3>2. QED
      BY <3>1
  <2>3. PICK put \in Nat : put = new - Direct - had /\ put <= grow
    <3>1. had \in Nat /\ ((had = 0 /\ old <= Direct) \/ (had = old - Direct /\ old > Direct))
      <4>1. CASE first
        BY <2>1, <2>2, <4>1
      <4>2. CASE ~first
        BY <2>1, <2>2, <4>2
      <4>3. QED
        BY <4>1, <4>2
    <3>2. new - Direct - had \in Nat /\ new - Direct - had <= grow
      BY <1>3, <1>6, <1>9, <2>1, <3>1
    <3>3. QED
      BY <3>2
  <2>4. /\ Len(kept) = had /\ \E S : kept \in Seq(S)
        /\ \A j \in 1..had : kept[j] = v.device[block][j]
    <3>1. CASE first
      <4>1. kept = <<>> /\ had = 0
        BY <2>2, <3>1 DEF kept
      <4>2. <<>> \in Seq({}) /\ Len(<<>>) = 0
        OBVIOUS
      <4>3. QED
        BY <4>1, <4>2
    <3>2. CASE ~first
      <4>1. had = old0 - Direct
        BY <1>5, <2>2, <3>2
      <4>2. kept = SubSeq(v.device[block], 1, had)
        BY <4>1, <3>2 DEF kept
      <4>3. PICK s : s = v.device[block]
        OBVIOUS
      <4>4. had \in Nat /\ had = had - 1 + 1 /\ had \in Int /\ 1 \in Int
        BY <2>2
      <4>5. kept = SubSeq(s, 1, had)
        BY <4>2, <4>3
      <4>6. IsPiece(kept, s, 1, had)
        BY <4>4, <4>5, CutOf, Zenon
      <4>7. \A j \in 1..had : kept[j] = s[j]
        BY <4>4, <4>6 DEF IsPiece
      <4>8. QED
        BY <4>3, <4>6, <4>7 DEF IsPiece
    <3>3. QED
      BY <3>1, <3>2
  <2>5. /\ Len(added) = put /\ \E S : added \in Seq(S)
        /\ \A j \in 1..put : added[j] = free[grow - put + j]
    <3>1. SecondIndirectNum(size) = new - Direct
      BY <1>3, <1>5, <1>18, IndexNums
    <3>2. PICK from \in Int : from = grow - put + 1
      OBVIOUS
    <3>3. grow \in Int /\ put = grow - from + 1
      BY <2>3, <3>2
    <3>4. \A j \in 1..put : from + j - 1 = grow - put + j /\ grow - put + j \in 1..grow
      BY <1>9, <2>3, <3>2
    <3>5. added = SubSeq(data, from, grow)
      <4>1. SecondIndirectNum(size) - Len(kept) = put
        BY <2>3, <2>4, <3>1
      <4>2. QED
        BY <1>11, <3>2, <4>1 DEF added
    <3>6. IsPiece(added, data, from, put)
      BY <2>3, <3>2, <3>3, <3>5, CutOf, Zenon
    <3>7. \A j \in 1..put : added[j] = data[grow - put + j]
      BY <3>4, <3>6 DEF IsPiece
    <3>8. QED
      BY <1>11, <3>4, <3>6, <3>7 DEF IsPiece
  <2>6. PICK e : /\ e = kept \o added /\ Len(e) = had + put
                 /\ \A j \in 1..had + put : e[j] = IF j <= had THEN kept[j] ELSE added[j - had]
    <3>1. /\ \E S : kept \in Seq(S)
          /\ \E T : added \in Seq(T)
          /\ had \in Nat /\ had = Len(kept) /\ put \in Nat /\ put = Len(added)
      BY <2>2, <2>3, <2>4, <2>5
    <3>2. IsJoint(kept \o added, kept, added, had, put)
      BY <3>1, Joined, Zenon
    <3>3. QED
      BY <3>2 DEF IsJoint
  <2>7. PICK m \in Nat : /\ m = k - Direct /\ m \in 1..had + put
                         /\ m \in 1..UnitsPerBlock /\ had + put = new - Direct
    BY <1>3, <1>6, <1>18, <2>3
  <2>8. Index(e)[m] = e[m]
    BY <2>6, <2>7 DEF Index
  <2>9. CASE k <= old
    <3>1. m \in 1..had
      BY <1>3, <1>18, <2>1, <2>2, <2>7, <2>9
    <3>2. e[m] = kept[m]
      BY <2>6, <2>7, <3>1
    <3>3. QED
      BY <2>4, <2>6, <2>7, <2>8, <2>9, <3>1, <3>2
  <2>10. CASE ~(k <= old)
    <3>1. ~(m <= had) /\ m - had \in 1..put /\ grow - put + (m - had) = k - old
      BY <1>3, <1>9, <1>18, <2>1, <2>2, <2>3, <2>7, <2>10
    <3>2. e[m] = added[m - had]
      BY <2>6, <2>7, <3>1
    <3>3. added[m - had] = free[k - old]
      BY <2>5, <3>1
    <3>4. QED
      BY <2>6, <2>7, <2>8, <2>10, <3>2, <3>3
  <2>11. QED
    BY <2>9, <2>10
<1>19. ASSUME NEW b \in Blocks
       PROVE  dev[b] = IF new > Direct /\ b = block THEN Index(kept \o added)
                       ELSE IF first /\ b = table THEN Index(<<block>>)
                       ELSE v.device[b]
  <2>1. new0 > Direct <=> new > Direct
    BY <1>5
  <2>2. QED
    BY <2>1, Zenon DEF dev
<1>20. ASSUME NEW b \in Blocks, \A k \in 1..need : b # free[k],
              SecondIndex \in Uses(v, i) => b # BlockAt(v, i, SecondIndex)
       PROVE  dev[b] = v.device[b]
  <2>1. first => b # block /\ b # table
    BY <1>14, <1>20
  <2>2. ~first /\ new > Direct => b # block
    BY <1>15, <1>20
  <2>3. QED
    BY <1>19, <2>1, <2>2
<1>21. new > Direct => dev[block] = Index(kept \o added) /\ dev[table][1] = block
  <2> SUFFICES ASSUME new > Direct
               PROVE  dev[block] = Index(kept \o added) /\ dev[table][1] = block
    OBVIOUS
  <2>1. dev[block] = Index(kept \o added)
    BY <1>16, <1>19
  <2>2. CASE first
    BY <1>14, <1>16, <1>19, <2>1, <2>2, FirstOfIndex
  <2>3. CASE ~first
    <3>1. dev[table] = v.device[table]
      BY <1>15, <1>16, <1>19, <2>3
    <3>2. QED
      BY <1>15, <2>1, <2>3, <3>1 DEF SecondIndirect
  <2>4. QED
    BY <2>1, <2>2, <2>3
<1>22. /\ q \in InodeType /\ q.file_size = size /\ q.blocks_number = new0
       /\ q.file_type = n.file_type /\ q.links = n.links
       /\ q.direct_block = direct /\ q.indirect_block = table
  <2>1. q = Filled(n, size, table, direct)
    BY DEF q
  <2>2. n \in InodeType
    BY <1>2
  <2> HIDE DEF n
  <2>3. QED
    BY <1>13, <1>16, <2>1, <2>2, FilledType
<1>23. /\ Typed(x) /\ SameDisk(v, x) /\ x.device = dev
       /\ x.mem.inode[i] = q
       /\ \A j \in Inodes : j # i => x.mem.inode[j] = v.mem.inode[j]
       /\ x.mem.inode_bitmap = v.mem.inode_bitmap
       /\ x.mem.datablock_bitmap = v.mem.datablock_bitmap \cup more
  <2>1. Typed(v) /\ more \in SUBSET Blocks /\ q \in InodeType
    BY <1>2, <1>17, <1>22
  <2>2. GrowthSet(v, x, more, i, q, dev)
    BY <1>1, <2>1, SetsGrowth
  <2>3. QED
    BY <2>2 DEF GrowthSet
<1>24. /\ Uses(x, i) = 1..new \cup (IF new <= Direct THEN {} ELSE {FirstIndex, SecondIndex})
       /\ Uses(v, i) = 1..old \cup (IF old <= Direct THEN {} ELSE {FirstIndex, SecondIndex})
  BY <1>5, <1>22, <1>23 DEF Uses, DataUses
<1>25. ASSUME NEW k \in Uses(x, i)
       PROVE  IF k \in Uses(v, i) THEN BlockAt(x, i, k) = BlockAt(v, i, k)
              ELSE /\ Rank(k, old, need) \in 1..need
                   /\ BlockAt(x, i, k) = free[Rank(k, old, need)]
  <2>1. k \in Nat /\ k >= 1
    BY <1>3, <1>24
  <2>2. CASE k <= Direct
    <3>1. BlockAt(x, i, k) = direct[k] /\ BlockAt(v, i, k) = n.direct_block[k]
      BY <1>22, <1>23, <2>2 DEF BlockAt
    <3>2. k \in 1..Direct /\ k <= new /\ (k \in Uses(v, i) <=> k <= old)
      BY <1>3, <1>24, <2>1, <2>2
    <3>3. ~(k <= old) => k - old \in 1..need /\ Rank(k, old, need) = k - old
      BY <1>3, <1>8, <1>9, <2>1, <2>2, <3>2 DEF Rank
    <3>4. QED
      BY <1>12, <3>1, <3>2, <3>3
  <2>3. CASE k > Direct /\ k <= Most
    <3>1. k \in Direct + 1..new /\ new > Direct /\ (k \in Uses(v, i) <=> k <= old)
      BY <1>3, <1>6, <1>24, <2>1, <2>3
    <3>2. SecondIndirect(x, i, 0) = block
      BY <1>21, <1>22, <1>23, <3>1 DEF SecondIndirect
    <3>3. BlockAt(x, i, k) = Index(kept \o added)[k - Direct]
      <4>1. ~(k <= Direct) /\ k <= Most
        BY <1>3, <2>1, <2>3
      <4>2. BlockAt(x, i, k) = x.device[SecondIndirect(x, i, 0)][k - Direct]
        BY <4>1, Zenon DEF BlockAt
      <4>3. QED
        BY <1>21, <1>23, <3>1, <3>2, <4>2
    <3>4. BlockAt(x, i, k) = IF k <= old THEN v.device[block][k - Direct] ELSE free[k - old]
      BY <1>18, <3>1, <3>3
    <3>5. CASE k <= old
      <4>1. ~first /\ new > Direct
        BY <1>3, <1>7, <2>3, <3>1, <3>5
      <4>2. ~(k <= Direct) /\ k <= Most
        BY <1>3, <2>1, <2>3
      <4>3. BlockAt(v, i, k) = v.device[SecondIndirect(v, i, 0)][k - Direct]
        BY <4>2, Zenon DEF BlockAt
      <4>4. QED
        BY <1>15, <3>1, <3>4, <3>5, <4>1, <4>3
    <3>6. CASE ~(k <= old)
      <4>1. k - old \in 1..need /\ Rank(k, old, need) = k - old
        BY <1>3, <1>8, <1>9, <2>1, <2>3, <3>1, <3>6 DEF Rank
      <4>2. QED
        BY <3>1, <3>4, <3>6, <4>1
    <3>7. QED
      BY <3>5, <3>6
  <2>4. CASE k \in {FirstIndex, SecondIndex} /\ new > Direct
    <3>1. /\ BlockAt(x, i, FirstIndex) = table
          /\ BlockAt(x, i, SecondIndex) = block
      BY <1>21, <1>22, <1>23, <2>4, IndexBlocks DEF SecondIndirect
    <3>2. CASE first
      <4>1. k \notin Uses(v, i)
        BY <1>3, <1>7, <1>24, <2>4, <3>2
      <4>2. Rank(k, old, need) = IF k = FirstIndex THEN need - 1 ELSE need
        BY <1>3, <2>4 DEF Rank
      <4>3. QED
        BY <1>3, <1>14, <2>4, <3>1, <3>2, <4>1, <4>2
    <3>3. CASE ~first
      BY <1>15, <2>4, <3>1, <3>3
    <3>4. QED
      BY <3>2, <3>3
  <2>5. QED
    BY <1>3, <1>6, <1>24, <2>1, <2>2, <2>3, <2>4
\* the ranks of the blocks taken differ
<1>26. ASSUME NEW k \in Uses(x, i) \ Uses(v, i), NEW l \in Uses(x, i) \ Uses(v, i),
              Rank(k, old, need) = Rank(l, old, need)
       PROVE  k = l
  <2>1. ASSUME NEW h \in Uses(x, i) \ Uses(v, i)
        PROVE  \/ h \in old + 1..new /\ Rank(h, old, need) = h - old
               \/ h = FirstIndex /\ Rank(h, old, need) = new - old + 1
               \/ h = SecondIndex /\ Rank(h, old, need) = new - old + 2
    <3>1. CASE h \in 1..new
      <4>1. h \in old + 1..new /\ h <= Most
        BY <1>3, <1>6, <1>24, <3>1
      <4>2. QED
        BY <4>1 DEF Rank
    <3>2. CASE h \notin 1..new
      <4>1. first /\ h \in {FirstIndex, SecondIndex}
        BY <1>3, <1>7, <1>24, <3>2
      <4>2. Rank(h, old, need) = IF h = FirstIndex THEN need - 1 ELSE need
        BY <1>3, <4>1 DEF Rank
      <4>3. QED
        BY <1>3, <1>14, <4>1, <4>2
    <3>3. QED
      BY <3>1, <3>2
  <2>2. QED
    BY <1>6, <1>26, <2>1
<1>27. Grown(v, x, i, size, need, free)
  <2>1. \A k \in Uses(x, i) :
          IF k \in Uses(v, i) THEN BlockAt(x, i, k) = BlockAt(v, i, k)
          ELSE \E m \in 1..need : BlockAt(x, i, k) = free[m]
    BY <1>25
  <2>2. \A k, l \in Uses(x, i) \ Uses(v, i) : BlockAt(x, i, k) = BlockAt(x, i, l) => k = l
    BY <1>10, <1>25, <1>26
  <2>3. QED
    BY <1>5, <1>17, <1>20, <1>22, <1>23, <2>1, <2>2 DEF Grown
<1>28. QED
  BY <1>8, <1>27 DEF x, free

\* the blocks of a grown file are its old ones and free ones
LEMMA GrownSound ==
  ASSUME NEW v, Sound(v), NEW i \in Inodes, NEW size \in Nat, BlocksNum(size) <= Most,
         NEW need \in Nat, NEW free,
         \A k \in 1..need : free[k] \in Blocks /\ free[k] \notin v.mem.datablock_bitmap,
         NEW x, Grown(v, x, i, size, need, free)
  PROVE  /\ Sound(x)
         /\ \A j \in Inodes : j # i => SameFile(v, x, j) /\ SameContents(v, x, j)
<1>1. \A j \in Inodes : \A l : l \in Uses(v, j) =>
        /\ BlockAt(v, j, l) \in v.mem.datablock_bitmap /\ BlockAt(v, j, l) \in Blocks
        /\ \A k \in 1..need : BlockAt(v, j, l) # free[k]
        /\ j # i => x.device[BlockAt(v, j, l)] = v.device[BlockAt(v, j, l)]
  <2> SUFFICES ASSUME NEW j \in Inodes, NEW l, l \in Uses(v, j)
               PROVE  /\ BlockAt(v, j, l) \in v.mem.datablock_bitmap
                      /\ BlockAt(v, j, l) \in Blocks
                      /\ \A k \in 1..need : BlockAt(v, j, l) # free[k]
                      /\ j # i => x.device[BlockAt(v, j, l)] = v.device[BlockAt(v, j, l)]
    OBVIOUS
  <2>1. BlockAt(v, j, l) \in v.mem.datablock_bitmap /\ BlockAt(v, j, l) \in Blocks
    BY UsesBounds DEF Sound, MarksUsed
  <2>2. \A k \in 1..need : BlockAt(v, j, l) # free[k]
    BY <2>1
  <2>3. ASSUME j # i, SecondIndex \in Uses(v, i)
        PROVE  BlockAt(v, j, l) # BlockAt(v, i, SecondIndex)
    BY <2>3 DEF Sound, OwnsOnce
  <2>4. QED
    BY <2>1, <2>2, <2>3 DEF Grown
<1>2. ASSUME NEW j \in Inodes, j # i
      PROVE  SameFile(v, x, j) /\ SameContents(v, x, j)
  <2>1. x.mem.inode[j] = v.mem.inode[j]
    BY <1>2 DEF Grown
  <2>2. v.mem.inode[j].blocks_number > Direct =>
          /\ x.device[BlockAt(v, j, FirstIndex)] = v.device[BlockAt(v, j, FirstIndex)]
          /\ x.device[BlockAt(v, j, SecondIndex)] = v.device[BlockAt(v, j, SecondIndex)]
    BY <1>1, <1>2, UsesBounds
  <2>3. SameFile(v, x, j)
    BY <2>1, <2>2, KeepsFile
  <2>4. SameContents(v, x, j)
    BY <1>1, <1>2 DEF SameContents
  <2>5. QED
    BY <2>3, <2>4
<1>3. ASSUME NEW k \in Uses(x, i)
      PROVE  IF k \in Uses(v, i) THEN BlockAt(x, i, k) = BlockAt(v, i, k)
             ELSE \E m \in 1..need : BlockAt(x, i, k) = free[m]
  BY <1>3 DEF Grown
<1>4. FileOK(x, i)
  <2>1. \A k \in Uses(x, i) : BlockAt(x, i, k) \in x.mem.datablock_bitmap
    <3> SUFFICES ASSUME NEW k \in Uses(x, i)
                 PROVE  BlockAt(x, i, k) \in x.mem.datablock_bitmap
      OBVIOUS
    <3>1. x.mem.datablock_bitmap = v.mem.datablock_bitmap \cup {free[l] : l \in 1..need}
      BY DEF Grown
    <3>2. QED
      BY <1>1, <1>3, <3>1
  <2>2. ASSUME NEW k \in Uses(x, i), NEW l \in Uses(x, i), BlockAt(x, i, k) = BlockAt(x, i, l)
        PROVE  k = l
    <3>1. CASE k \in Uses(v, i) /\ l \in Uses(v, i)
      BY <1>3, <2>2, <3>1 DEF Sound, OwnsOnce
    <3>2. CASE k \notin Uses(v, i) /\ l \notin Uses(v, i)
      BY <2>2, <3>2 DEF Grown
    <3>3. CASE k \in Uses(v, i) /\ l \notin Uses(v, i)
      BY <1>1, <1>3, <2>2, <3>3
    <3>4. CASE k \notin Uses(v, i) /\ l \in Uses(v, i)
      BY <1>1, <1>3, <2>2, <3>4
    <3>5. QED
      BY <3>1, <3>2, <3>3, <3>4
  <2>3. QED
    BY <2>1, <2>2 DEF FileOK, Grown
<1>5. Apart(v, x, i)
  <2> SUFFICES ASSUME NEW j \in Inodes, j # i
               PROVE  /\ SameFile(v, x, j) /\ x.mem.inode[j] = v.mem.inode[j]
                      /\ \A l \in Uses(v, j) :
                           /\ BlockAt(v, j, l) \in x.mem.datablock_bitmap
                           /\ \A k \in Uses(x, i) : BlockAt(x, i, k) # BlockAt(v, j, l)
    BY DEF Apart
  <2>1. SameFile(v, x, j) /\ x.mem.inode[j] = v.mem.inode[j]
    BY <1>2 DEF Grown
  <2>2. ASSUME NEW l \in Uses(v, j)
        PROVE  BlockAt(v, j, l) \in x.mem.datablock_bitmap
    <3>1. v.mem.datablock_bitmap \subseteq x.mem.datablock_bitmap
      BY DEF Grown
    <3>2. QED
      BY <1>1, <3>1
  <2>3. ASSUME NEW l \in Uses(v, j), NEW k \in Uses(x, i),
               BlockAt(x, i, k) = BlockAt(v, j, l)
        PROVE  FALSE
    <3>1. CASE k \in Uses(v, i)
      BY <1>3, <2>3, <3>1 DEF Sound, OwnsOnce
    <3>2. CASE k \notin Uses(v, i)
      BY <1>1, <1>3, <2>3, <3>2
    <3>3. QED
      BY <3>1, <3>2
  <2>4. QED
    BY <2>1, <2>2, <2>3
<1>6. Sound(x)
  <2>1. Typed(x)
    BY DEF Grown
  <2>2. QED
    BY <1>4, <1>5, <2>1, OneFileChanged
<1>7. QED
  BY <1>2, <1>6

(***************************************************************************)
(* The new blocks are cleared last.                                        *)
(***************************************************************************)
LEMMA ClearsBlocks ==
  ASSUME NEW v, Sound(v), NEW i \in Inodes, NEW old \in Nat, NEW w, w = Cleared(v, i, old)
  PROVE  DataWritten(v, w, i) /\ SameDisk(v, w)
<1> DEFINE index == DatablockIndex(v, i)
           dev == [b \in Blocks |->
                     IF \E k \in old + 1..Len(index) : index[k] = b THEN Block(<<>>, 1)
                     ELSE v.device[b]]
<1>1. w = [v EXCEPT !.device = dev]
  BY DEF Cleared
<1>2. Typed(w) /\ SameMem(v, w) /\ SameDisk(v, w) /\ w.device = dev
  <2> HIDE DEF dev
  <2>1. QED
    BY <1>1 DEF Sound, Typed, SameMem, SameDisk
<1>3. ASSUME NEW b \in Blocks, \A k \in DataUses(v, i) : b # BlockAt(v, i, k)
      PROVE  w.device[b] = v.device[b]
  <2>1. PICK m \in Nat : m = v.mem.inode[i].blocks_number
    BY InodeTypes DEF Sound
  <2>2. DataUses(v, i) = 1..m /\ Len(index) = m
    BY <2>1 DEF DataUses, DatablockIndex
  <2>3. \A k \in 1..m : index[k] = BlockAt(v, i, k)
    BY <2>2, DataBlocks
  <2> HIDE DEF index
  <2>4. ~ \E k \in old + 1..Len(index) : index[k] = b
    <3>1. \A k \in old + 1..m : k \in 1..m
      BY <2>1
    <3>2. QED
      BY <1>3, <2>2, <2>3, <3>1
  <2>5. QED
    BY <1>2, <2>4
<1>4. QED
  BY <1>2, <1>3 DEF DataWritten

(***************************************************************************)
(* A file that grows saves its tables before its new blocks are cleared.   *)
(***************************************************************************)
GrowLeaves(v, i, size) ==
  Cleared(WriteBlockBitmap(WriteInodeTable(Linked(v, i, size))), i,
          BlocksNum(v.mem.inode[i].file_size))

LEMMA GrowKeeps ==
  ASSUME NEW v, VolOK(v), NEW i, Regular(v, i), NEW size \in Nat,
         v.mem.inode[i].blocks_number < BlocksNum(size), BlocksNum(size) <= Most,
         BlocksToTake(v, i, size) <= Cardinality(Blocks \ v.mem.datablock_bitmap),
         NEW u, u = GrowLeaves(v, i, size)
  PROVE  /\ VolOK(u) /\ Regular(u, i)
         /\ u.mem.inode[i].blocks_number = BlocksNum(size)
<1> DEFINE x    == Linked(v, i, size)
           old  == v.mem.inode[i].blocks_number
           need == BlocksToTake(v, i, size)
           free == InOrder(Blocks \ v.mem.datablock_bitmap)
           w    == WriteBlockBitmap(WriteInodeTable(x))
<1>1. Sound(v) /\ i \in Inodes /\ Typed(v)
  BY DEF VolOK, Regular, Sound
<1>2. old \in Nat /\ v.mem.inode[i].file_size \in Nat /\ BlocksNum(size) \in Nat
      /\ old = BlocksNum(v.mem.inode[i].file_size)
  <2>1. old \in Nat /\ v.mem.inode[i].file_size \in Nat
    BY <1>1, InodeTypes
  <2>2. BlocksNum(size) \in Nat
    BY BlocksFit
  <2>3. QED
    BY <1>1, <2>1, <2>2 DEF Sound, Fits
<1>3. need \in Nat
  BY <1>2 DEF BlocksToTake
<1>4. Grown(v, x, i, size, need, free)
  BY <1>1, LinksBlocks
<1>5. /\ \A k \in 1..need : free[k] \in Blocks /\ free[k] \notin v.mem.datablock_bitmap
      /\ \A k, l \in 1..need : free[k] = free[l] => k = l
  <2>1. FreeNum(v, free, need, 0)
    BY <1>3 DEF FreeNum
  <2> HIDE DEF need, free
  <2>2. QED
    BY <1>1, <2>1, FreeList
<1>6. u = Cleared(w, i, old)
  BY <1>2 DEF GrowLeaves
<1> HIDE DEF x, old, need, free
<1>7. /\ Sound(x)
      /\ \A j \in Inodes : j # i => SameFile(v, x, j) /\ SameContents(v, x, j)
  BY <1>1, <1>2, <1>3, <1>4, <1>5, GrownSound, SMTT(30)
<1>8. FileSaved(x, w)
  <2>1. Typed(x)
    BY <1>7 DEF Sound
  <2>2. QED
    BY <2>1, SavesFile
<1> HIDE DEF w
<1>9. Sound(w) /\ SameFiles(x, w)
  BY <1>7, <1>8, KeepsSound DEF FileSaved, SameMem
<1>10. DataWritten(w, u, i) /\ SameDisk(w, u)
  BY <1>1, <1>2, <1>6, <1>9, ClearsBlocks
<1>11. /\ Sound(u) /\ SameFiles(w, u)
       /\ \A j \in Inodes, k \in Nat : j # i /\ k \in Uses(w, j) =>
            u.device[BlockAt(w, j, k)] = w.device[BlockAt(w, j, k)]
  BY <1>1, <1>9, <1>10, DataWrittenKeeps
<1>12. u.mem = x.mem /\ w.device = x.device /\ u.disk = w.disk
  BY <1>8, <1>10 DEF FileSaved, SameMem, SameDevice, SameDisk, DataWritten
<1>13. ASSUME NEW j \in Inodes, j # i
       PROVE  SameFile(v, u, j) /\ SameContents(v, u, j)
  <2>1. SameFile(v, x, j) /\ SameFile(x, w, j) /\ SameFile(w, u, j) /\ SameContents(v, x, j)
    BY <1>7, <1>9, <1>11, <1>13 DEF SameFiles
  <2>2. SameFile(v, w, j)
    BY <2>1 DEF SameFile
  <2>3. SameFile(v, u, j)
    BY <2>1, <2>2 DEF SameFile
  <2>4. ASSUME NEW k \in Uses(v, j)
        PROVE  u.device[BlockAt(v, j, k)] = v.device[BlockAt(v, j, k)]
    <3>1. k \in Nat
      <4>1. Uses(v, j) \subseteq 1..SecondIndex
        BY <1>1, UsesBounds
      <4>2. QED
        BY <4>1
    <3>2. k \in Uses(w, j) /\ BlockAt(w, j, k) = BlockAt(v, j, k)
      BY <2>2 DEF SameFile
    <3>3. u.device[BlockAt(w, j, k)] = w.device[BlockAt(w, j, k)]
      BY <1>11, <1>13, <3>1, <3>2
    <3>4. x.device[BlockAt(v, j, k)] = v.device[BlockAt(v, j, k)]
      BY <2>1 DEF SameContents
    <3>5. QED
      BY <1>12, <3>2, <3>3, <3>4
  <2>5. QED
    BY <2>3, <2>4 DEF SameContents
<1>14. Rewritten(v, u, i)
  <2>1. /\ \A j \in Inodes : j # i => u.mem.inode[j] = v.mem.inode[j]
        /\ u.mem.inode[i].file_type = v.mem.inode[i].file_type
        /\ u.mem.inode[i].links = v.mem.inode[i].links
        /\ u.mem.inode_bitmap = v.mem.inode_bitmap
    BY <1>4, <1>12 DEF Grown
  <2>2. u.disk.inode_bitmap = v.disk.inode_bitmap
    BY <1>4, <1>8, <1>12 DEF Grown, FileSaved, SameDisk
  <2>3. QED
    BY <1>11, <1>13, <2>1, <2>2 DEF Rewritten
<1>15. DiskOK(u)
  <2>1. u.disk.inode = u.mem.inode /\ u.disk.datablock_bitmap = u.mem.datablock_bitmap
    BY <1>8, <1>12 DEF FileSaved
  <2>2. QED
    BY <1>11, <2>1, SavedFile
<1>16. u.mem.inode[i].blocks_number = BlocksNum(size)
  BY <1>4, <1>12 DEF Grown
<1>17. QED
  BY <1>14, <1>15, <1>16, RewrittenKeeps

\* when the blocks do not suffice all are marked
AllTaken(v) == [v EXCEPT !.mem.datablock_bitmap = Blocks]

LEMMA TakesAll ==
  ASSUME NEW v, VolOK(v), NEW i, Regular(v, i), NEW u, u = AllTaken(v)
  PROVE  VolOK(u) /\ Regular(u, i)
<1>1. Sound(v) /\ i \in Inodes /\ Typed(v) /\ DiskOK(v)
  BY DEF VolOK, Regular, Sound
<1>2. /\ Typed(u) /\ SameDisk(v, u) /\ SameDevice(v, u) /\ u.mem.inode = v.mem.inode
      /\ u.mem.inode_bitmap = v.mem.inode_bitmap /\ u.mem.datablock_bitmap = Blocks
  BY <1>1 DEF AllTaken, Typed, SameDisk, SameDevice, TablesType
<1>3. v.mem.datablock_bitmap \subseteq Blocks
  BY <1>1, InodeTypes
<1>4. Sound(u) /\ SameFiles(v, u)
  BY <1>1, <1>2, <1>3, KeepsSound
<1>5. \A j \in Inodes : SameFile(v, u, j) /\ SameContents(v, u, j)
  BY <1>2, <1>4 DEF SameFiles, SameContents, SameDevice
<1>6. Rewritten(v, u, i)
  BY <1>2, <1>4, <1>5 DEF Rewritten, SameDisk
<1>7. DiskOK(u)
  BY <1>1, <1>2, <1>5 DEF DiskOK, SameFile, SameDisk
<1>8. QED
  BY <1>6, <1>7, RewrittenKeeps

\* whatever file_increase_block_num() answers, and its answer is right
LEMMA IncreaseKeeps ==
  ASSUME NEW v, VolOK(v), NEW i, Regular(v, i), NEW size \in Nat,
         BlocksNum(size) <= Most, NEW r \in Increase(v, i, size)
  PROVE  /\ VolOK(r[2]) /\ Regular(r[2], i)
         /\ r[1] => size <= r[2].mem.inode[i].blocks_number * UnitsPerBlock
<1> DEFINE n == v.mem.inode[i]
           free == Cardinality(Blocks \ v.mem.datablock_bitmap)
<1>1. /\ i \in Inodes /\ n.blocks_number \in Nat
      /\ BlocksToTake(v, i, size) \in Int /\ free \in Nat
  <2>1. i \in Inodes /\ Typed(v) /\ Sound(v)
    BY DEF VolOK, Regular, Sound
  <2>2. n.blocks_number \in Nat /\ n.file_size \in Nat
    BY <2>1, InodeTypes
  <2>3. BlocksNum(size) \in Nat /\ BlocksNum(n.file_size) \in Nat
    BY <2>2, BlocksFit
  <2>4. BlocksToTake(v, i, size) \in Int
    BY <2>3 DEF BlocksToTake
  <2>5. free \in Nat
    <3>1. Blocks \ v.mem.datablock_bitmap \in SUBSET Blocks
      OBVIOUS
    <3>2. QED
      BY <3>1, Constants, FS_Subset, FS_CardinalityType
  <2>6. QED
    BY <2>1, <2>2, <2>4, <2>5
<1> HIDE DEF free
<1>2. CASE size <= n.blocks_number * UnitsPerBlock
  <2>1. Increase(v, i, size) = {<<TRUE, v>>}
    BY <1>2 DEF Increase
  <2>2. r[1] = TRUE /\ r[2] = v
    <3>1. r = <<TRUE, v>>
      BY <2>1, Zenon
    <3>2. QED
      BY <3>1
  <2>3. QED
    BY <1>2, <2>2
<1>3. CASE ~(size <= n.blocks_number * UnitsPerBlock)
  <2>1. Increase(v, i, size) =
          {<<FALSE, v>>} \cup
          (IF free < BlocksToTake(v, i, size) THEN {<<FALSE, AllTaken(v)>>}
           ELSE {<<TRUE, GrowLeaves(v, i, size)>>})
    BY <1>3, Zenon DEF Increase, AllTaken, GrowLeaves, free
  <2>2. CASE r = <<FALSE, v>>
    <3>1. r[1] = FALSE /\ r[2] = v
      BY <2>2
    <3>2. QED
      BY <3>1
  <2>3. CASE r = <<FALSE, AllTaken(v)>>
    <3>1. r[1] = FALSE /\ r[2] = AllTaken(v)
      BY <2>3
    <3>2. QED
      BY <3>1, TakesAll
  <2>4. CASE r = <<TRUE, GrowLeaves(v, i, size)>> /\ ~(free < BlocksToTake(v, i, size))
    <3>1. r[1] = TRUE /\ r[2] = GrowLeaves(v, i, size)
      BY <2>4
    <3>2. BlocksToTake(v, i, size) <= free
      BY <1>1, <2>4
    <3>3. n.blocks_number < BlocksNum(size)
      <4>1. ~(BlocksNum(size) <= n.blocks_number) /\ BlocksNum(size) \in Nat
        BY <1>1, <1>3, BlocksFit
      <4>2. QED
        BY <1>1, <4>1
    <3>4. VolOK(r[2]) /\ Regular(r[2], i)
          /\ r[2].mem.inode[i].blocks_number = BlocksNum(size)
      BY <3>1, <3>2, <3>3, GrowKeeps DEF free
    <3>5. size <= BlocksNum(size) * UnitsPerBlock
      <4>1. PICK m \in Nat : m = BlocksNum(size)
        BY BlocksFit
      <4>2. QED
        BY <4>1, BlocksFit
    <3>6. QED
      BY <3>4, <3>5
  <2>5. QED
    BY <2>1, <2>2, <2>3, <2>4
<1>4. QED
  BY <1>2, <1>3

(***************************************************************************)
(* p6fs_write(): what lies past the end of the file is written once the    *)
(* blocks are there, the size and the table follow.                        *)
(***************************************************************************)
WithSize(v, i, size) == [v EXCEPT !.mem.inode[i].file_size = size]

WriteLeaves(v, i, buf, last) ==
  WriteInodeTable([WriteFile(v, i, buf) EXCEPT !.mem.inode[i].file_size = Max({@, last})])

LEMMA LargerOf ==
  ASSUME NEW a \in Nat, NEW b \in Nat
  PROVE  Max({a, b}) = IF a < b THEN b ELSE a
<1> DEFINE c == IF a < b THEN b ELSE a
<1>1. c \in {a, b} /\ \A x \in {a, b} : c >= x
  OBVIOUS
<1>2. \A m \in {a, b} : (\A x \in {a, b} : m >= x) => m = c
  OBVIOUS
<1>3. QED
  BY <1>1, <1>2 DEF Max

LEMMA SetsSize ==
  ASSUME NEW v, Typed(v), NEW i \in Inodes, NEW size \in Nat,
         NEW w, w = WithSize(v, i, size)
  PROVE  /\ Typed(w) /\ SameBitmaps(v, w) /\ SameDisk(v, w) /\ SameDevice(v, w)
         /\ \A j \in Inodes : j # i => w.mem.inode[j] = v.mem.inode[j]
         /\ w.mem.inode[i].file_size = size
         /\ w.mem.inode[i].file_type = v.mem.inode[i].file_type
         /\ w.mem.inode[i].links = v.mem.inode[i].links
         /\ w.mem.inode[i].blocks_number = v.mem.inode[i].blocks_number
         /\ w.mem.inode[i].direct_block = v.mem.inode[i].direct_block
         /\ w.mem.inode[i].indirect_block = v.mem.inode[i].indirect_block
<1> DEFINE n == [v.mem.inode[i] EXCEPT !.file_size = size]
<1>1. v.mem.inode[i] \in InodeType
  BY InodeTypes
<1>2. n \in InodeType /\ n.file_size = size
      /\ n.file_type = v.mem.inode[i].file_type /\ n.links = v.mem.inode[i].links
      /\ n.blocks_number = v.mem.inode[i].blocks_number
      /\ n.direct_block = v.mem.inode[i].direct_block
      /\ n.indirect_block = v.mem.inode[i].indirect_block
  BY <1>1 DEF InodeType
<1>3. w = WithInode(v, i, n)
  BY DEF WithSize, WithInode
<1> HIDE DEF n
<1>4. QED
  BY <1>2, <1>3, SetsInode

LEMMA WrittenKeeps ==
  ASSUME NEW v, VolOK(v), NEW i, Regular(v, i), NEW buf, NEW last \in Nat,
         last <= v.mem.inode[i].blocks_number * UnitsPerBlock,
         NEW u, u = WriteLeaves(v, i, buf, last)
  PROVE  VolOK(u)
<1> DEFINE w    == WriteFile(v, i, buf)
           old  == v.mem.inode[i].file_size
           size == IF old < last THEN last ELSE old
           x    == WithSize(w, i, size)
<1>1. Sound(v) /\ i \in Inodes /\ Typed(v) /\ DiskOK(v)
  BY DEF VolOK, Regular, Sound
<1>2. old \in Nat /\ v.mem.inode[i].blocks_number \in Nat
  BY <1>1, InodeTypes
<1>3. BlocksNum(size) = v.mem.inode[i].blocks_number /\ size \in Nat
  <2>1. v.mem.inode[i].blocks_number = BlocksNum(old)
    BY <1>1 DEF Sound, Fits
  <2>2. CASE old < last
    <3>1. old <= last /\ size = last
      BY <1>2, <2>2
    <3>2. BlocksNum(old) <= BlocksNum(last)
      BY <1>2, <3>1, BlocksGrow
    <3>3. BlocksNum(last) <= v.mem.inode[i].blocks_number /\ BlocksNum(last) \in Nat
      BY <1>2, BlocksFit
    <3> HIDE DEF size, old
    <3>4. QED
      BY <1>2, <2>1, <3>1, <3>2, <3>3
  <2>3. CASE ~(old < last)
    BY <1>2, <2>1, <2>3
  <2>4. QED
    BY <2>2, <2>3
<1>4. /\ Sound(w) /\ SameFiles(v, w)
      /\ \A j \in Inodes, k \in Nat : j # i /\ k \in Uses(v, j) =>
           w.device[BlockAt(v, j, k)] = v.device[BlockAt(v, j, k)]
  BY <1>1, WriteKeeps
<1>5. SameMem(v, w) /\ SameDisk(v, w)
  BY <1>1, WritesBlocks
<1>6. u = WriteInodeTable(x)
  <2>1. w.mem.inode[i].file_size = old
    BY <1>5 DEF SameMem
  <2>2. Max({w.mem.inode[i].file_size, last}) = size
    BY <1>2, <2>1, LargerOf
  <2>3. u = WriteInodeTable(WithSize(w, i, Max({w.mem.inode[i].file_size, last})))
    BY DEF WriteLeaves, WithSize
  <2> HIDE DEF w, size, old
  <2>4. QED
    BY <2>2, <2>3
<1> HIDE DEF w, size, old
<1>7. /\ Typed(x) /\ SameBitmaps(w, x) /\ SameDisk(w, x) /\ SameDevice(w, x)
      /\ \A j \in Inodes : j # i => x.mem.inode[j] = w.mem.inode[j]
      /\ x.mem.inode[i].file_size = size
      /\ x.mem.inode[i].file_type = w.mem.inode[i].file_type
      /\ x.mem.inode[i].links = w.mem.inode[i].links
      /\ x.mem.inode[i].blocks_number = w.mem.inode[i].blocks_number
      /\ x.mem.inode[i].direct_block = w.mem.inode[i].direct_block
      /\ x.mem.inode[i].indirect_block = w.mem.inode[i].indirect_block
  <2>1. Typed(w)
    BY <1>4 DEF Sound
  <2>2. QED
    BY <1>1, <1>3, <2>1, SetsSize
<1> HIDE DEF x
<1>8. Sound(x) /\ SameFiles(w, x)
  <2>1. SameFiles(w, x)
    <3>1. ASSUME NEW j \in Inodes
          PROVE  SameFile(w, x, j)
      <4>1. /\ x.mem.inode[j].blocks_number = w.mem.inode[j].blocks_number
            /\ x.mem.inode[j].direct_block = w.mem.inode[j].direct_block
            /\ x.mem.inode[j].indirect_block = w.mem.inode[j].indirect_block
        BY <1>7
      <4>2. x.device = w.device
        BY <1>7 DEF SameDevice
      <4>3. QED
        BY <1>4, <4>1, <4>2, KeepsFile
    <3>2. QED
      BY <3>1 DEF SameFiles
  <2>2. MarksUsed(x) /\ OwnsOnce(x)
    <3>1. w.mem.datablock_bitmap \subseteq x.mem.datablock_bitmap
      BY <1>7 DEF SameBitmaps
    <3>2. QED
      BY <1>4, <2>1, <3>1, KeepsBlocks
  <2>3. Fits(x)
    <3>1. ASSUME NEW j \in Inodes
          PROVE  /\ x.mem.inode[j].blocks_number = BlocksNum(x.mem.inode[j].file_size)
                 /\ x.mem.inode[j].blocks_number <= Most
      <4>1. /\ w.mem.inode[j].blocks_number = BlocksNum(w.mem.inode[j].file_size)
            /\ w.mem.inode[j].blocks_number <= Most
        BY <1>4 DEF Sound, Fits
      <4>2. CASE j # i
        BY <1>7, <4>1, <4>2
      <4>3. CASE j = i
        <5>1. w.mem.inode[i].blocks_number = BlocksNum(size)
          BY <1>3, <1>5 DEF SameMem
        <5>2. QED
          BY <1>7, <4>1, <4>3, <5>1
      <4>4. QED
        BY <4>2, <4>3
    <3>2. QED
      BY <3>1 DEF Fits
  <2>4. QED
    BY <1>7, <2>1, <2>2, <2>3 DEF Sound
<1>9. /\ Typed(u) /\ SameMem(x, u) /\ SameDevice(x, u)
      /\ u.disk.inode = x.mem.inode
      /\ u.disk.inode_bitmap = x.disk.inode_bitmap
      /\ u.disk.datablock_bitmap = x.disk.datablock_bitmap
  <2>1. Typed(x)
    BY <1>7
  <2>2. QED
    BY <1>6, <2>1, SavesInodes
<1>10. Sound(u) /\ SameFiles(x, u)
  BY <1>8, <1>9, KeepsSound DEF SameMem
<1>11. /\ u.mem = x.mem /\ u.device = w.device /\ w.mem = v.mem
       /\ u.disk.inode = u.mem.inode
       /\ u.disk.inode_bitmap = v.disk.inode_bitmap
       /\ u.disk.datablock_bitmap = v.disk.datablock_bitmap
       /\ u.mem.inode_bitmap = v.mem.inode_bitmap
  BY <1>5, <1>7, <1>9 DEF SameMem, SameDevice, SameDisk, SameBitmaps
<1>12. ASSUME NEW j \in Inodes
       PROVE  SameFile(v, u, j)
  <2>1. SameFile(v, w, j) /\ SameFile(w, x, j) /\ SameFile(x, u, j)
    BY <1>4, <1>8, <1>10 DEF SameFiles
  <2>2. SameFile(v, x, j)
    BY <2>1 DEF SameFile
  <2>3. QED
    BY <2>1, <2>2 DEF SameFile
<1>13. ASSUME NEW j \in Inodes, j # i
       PROVE  SameContents(v, u, j)
  <2>1. ASSUME NEW k \in Uses(v, j)
        PROVE  u.device[BlockAt(v, j, k)] = v.device[BlockAt(v, j, k)]
    <3>1. k \in Nat
      <4>1. Uses(v, j) \subseteq 1..SecondIndex
        BY <1>1, UsesBounds
      <4>2. QED
        BY <4>1
    <3>2. w.device[BlockAt(v, j, k)] = v.device[BlockAt(v, j, k)]
      BY <1>4, <1>13, <3>1
    <3>3. QED
      BY <1>11, <3>2
  <2>2. QED
    BY <2>1 DEF SameContents
<1>14. Rewritten(v, u, i)
  <2>1. /\ \A j \in Inodes : j # i => u.mem.inode[j] = v.mem.inode[j]
        /\ u.mem.inode[i].file_type = v.mem.inode[i].file_type
        /\ u.mem.inode[i].links = v.mem.inode[i].links
    BY <1>7, <1>11
  <2>2. QED
    BY <1>10, <1>11, <1>12, <1>13, <2>1 DEF Rewritten
<1>15. DiskOK(u)
  <2>1. \A j \in Inodes : u.mem.inode[j].file_type = v.mem.inode[j].file_type
    BY <1>7, <1>11
  <2>2. ASSUME NEW j \in Inodes, u.mem.inode[j].file_type # "SOFT_LINK",
               NEW k \in Uses(u, j)
        PROVE  BlockAt(u, j, k) \in u.disk.datablock_bitmap
    <3>1. k \in Uses(v, j) /\ BlockAt(u, j, k) = BlockAt(v, j, k)
      BY <1>12 DEF SameFile
    <3>2. BlockAt(v, j, k) \in v.disk.datablock_bitmap
      BY <1>1, <2>1, <2>2, <3>1 DEF DiskOK
    <3>3. QED
      BY <1>11, <3>1, <3>2
  <2>3. QED
    BY <1>11, <2>2 DEF DiskOK
<1>16. QED
  BY <1>14, <1>15, RewrittenKeeps

-----------------------------------------------------------------------------
(***************************************************************************)
(* What a step leaves is a volume as before, as long as the rules hold.    *)
(***************************************************************************)
\* the bound on the files is what one index leads to
LEMMA FileFits ==
  ASSUME NEW size \in Nat, size <= MaxUnits
  PROVE  BlocksNum(size) <= Most
<1>1. Most \in Nat /\ Most * UnitsPerBlock \in Nat /\ Most * UnitsPerBlock \in Int
  BY Constants
<1>2. PICK most \in Nat : most = Most * UnitsPerBlock
  BY <1>1
<1>3. MaxUnits \in 0..most
  BY <1>2, FileAssumption DEF Most, Direct
<1>4. QED
  BY <1>1, <1>2, <1>3, BlocksFit

LEMMA DirectoryHasRoom ==
  ASSUME AllRules \subseteq Rules, NEW p, FitsDirectory(p)
  PROVE  vol.mem.inode[ParentOf(vol, p)].dentry_num < UnitsPerBlock
BY DEF FitsDirectory, AllRules

LEMMA NamedIsRegular ==
  ASSUME NEW v, VolOK(v), NEW c, NEW o, NEW i, <<c, o, i>> \in Entries(v),
         v.mem.inode[i].file_type = "NORMAL_FILE"
  PROVE  Regular(v, i)
<1> DEFINE S == Entries(v)
           f == <<c, o, i>>
<1>1. DirsOK(v) /\ NamesCounted(v) /\ f \in S /\ f[3] = i
  BY DEF VolOK
<1>2. i \in Inodes \ {Root}
  BY <1>1, EntryShape
<1>3. v.mem.inode[i].links = Cardinality(Named(S, i)) /\ IsFiniteSet(S)
  BY <1>1, <1>2 DEF NamesCounted
<1> HIDE DEF S, f
<1>4. Cardinality(Named(S, i)) \in Nat \ {0}
  BY <1>1, <1>3, CountsLess
<1>5. QED
  BY <1>2, <1>3, <1>4 DEF Regular

LEMMA MknodStep ==
  ASSUME AllRules \subseteq Rules, VolOK(vol), NEW p \in Paths, p6fs_mknod(p)
  PROVE  VolOK(vol')
<1>1. p \in Asked /\ p \in Absent /\ FitsDirectory(p)
      /\ vol' = AddFile(vol, ParentOf(vol, p), Last(p), "NORMAL_FILE")
  BY DEF p6fs_mknod, Absent, Changes
<1>2. /\ ParentOf(vol, p) \in Dirs(vol) /\ Last(p) \in Names
      /\ \A j : <<ParentOf(vol, p), Last(p), j>> \notin Entries(vol)
      /\ vol.mem.inode[ParentOf(vol, p)].dentry_num < UnitsPerBlock
      /\ "NORMAL_FILE" \in Kinds \ {"DIRECTORY"}
  BY <1>1, AskedPaths, DirectoryHasRoom DEF Kinds
<1>3. QED
  BY <1>1, <1>2, AddFileKeeps

LEMMA MkdirStep ==
  ASSUME AllRules \subseteq Rules, VolOK(vol), NEW p \in Paths, p6fs_mkdir(p)
  PROVE  VolOK(vol')
<1>1. p \in Asked /\ p \in Absent /\ FitsDirectory(p) /\ RoomToMkdir
  BY DEF p6fs_mkdir, Absent
<1>2. vol' = MkdirLeaves(vol, ParentOf(vol, p), Last(p))
  BY Zenon DEF p6fs_mkdir, Changes, MkdirLeaves, WithFirst, WithInode
<1>3. /\ ParentOf(vol, p) \in Dirs(vol) /\ Last(p) \in Names
      /\ \A j : <<ParentOf(vol, p), Last(p), j>> \notin Entries(vol)
      /\ vol.mem.inode[ParentOf(vol, p)].dentry_num < UnitsPerBlock
  BY <1>1, AskedPaths, DirectoryHasRoom
<1>4. FreeInode(vol) # -1 /\ FreeBlock(vol) # -1
  BY <1>1 DEF RoomToMkdir, AllRules
<1>5. QED
  BY <1>2, <1>3, <1>4, MkdirKeeps

LEMMA RmdirStep ==
  ASSUME VolOK(vol), NEW p \in Paths, p6fs_rmdir(p)
  PROVE  VolOK(vol')
<1>1. /\ p \in Asked /\ p \in Present /\ TypeAt(p) = "DIRECTORY"
      /\ vol.mem.inode[FileOf(vol, p)].dentry_num <= 2
      /\ vol' = RmdirLeaves(vol, ParentOf(vol, p), Last(p), FileOf(vol, p))
  BY DEF p6fs_rmdir, Present, Changes, RmdirLeaves
<1>2. <<ParentOf(vol, p), Last(p), FileOf(vol, p)>> \in Entries(vol)
  BY <1>1, AskedPaths
<1>3. FileOf(vol, p) \in Dirs(vol)
  BY <1>1, <1>2, EntryShape DEF VolOK, TypeAt, Dirs
<1>4. QED
  BY <1>1, <1>2, <1>3, RmdirKeeps

LEMMA UnlinkStep ==
  ASSUME VolOK(vol), NEW p \in Paths, p6fs_unlink(p)
  PROVE  VolOK(vol')
<1>1. p \in Asked /\ p \in Present /\ TypeAt(p) # "DIRECTORY"
  BY DEF p6fs_unlink, Present
<1>2. vol' = UnlinkLeaves(vol, ParentOf(vol, p), Last(p), FileOf(vol, p))
  BY Zenon DEF p6fs_unlink, Changes, UnlinkLeaves, FewerLinks
<1>3. <<ParentOf(vol, p), Last(p), FileOf(vol, p)>> \in Entries(vol)
  BY <1>1, AskedPaths
<1>4. FileOf(vol, p) \notin Dirs(vol)
  BY <1>1 DEF TypeAt, Dirs
<1>5. QED
  BY <1>2, <1>3, <1>4, UnlinkKeeps

LEMMA LinkStep ==
  ASSUME AllRules \subseteq Rules, VolOK(vol), NEW p \in Paths, NEW q \in Paths, p6fs_link(p, q)
  PROVE  VolOK(vol')
<1>1. /\ p \in Asked /\ p \in Present /\ TypeAt(p) # "DIRECTORY"
      /\ q \in Asked /\ q \in Absent /\ FitsDirectory(q)
  BY DEF p6fs_link, Present, Absent
<1>2. vol' = LinkLeaves(vol, ParentOf(vol, q), Last(q), FileOf(vol, p))
  BY Zenon DEF p6fs_link, Changes, LinkLeaves, MoreLinks
<1>3. <<ParentOf(vol, p), Last(p), FileOf(vol, p)>> \in Entries(vol)
  BY <1>1, AskedPaths
<1>4. FileOf(vol, p) \notin Dirs(vol)
  BY <1>1 DEF TypeAt, Dirs
<1>5. /\ ParentOf(vol, q) \in Dirs(vol) /\ Last(q) \in Names
      /\ \A j : <<ParentOf(vol, q), Last(q), j>> \notin Entries(vol)
      /\ vol.mem.inode[ParentOf(vol, q)].dentry_num < UnitsPerBlock
  BY <1>1, AskedPaths, DirectoryHasRoom
<1>6. QED
  BY <1>2, <1>3, <1>4, <1>5, LinkKeeps

LEMMA SymlinkStep ==
  ASSUME AllRules \subseteq Rules, VolOK(vol), NEW p \in Paths, NEW q \in Paths,
         p6fs_symlink(p, q)
  PROVE  VolOK(vol')
<1>1. q \in Asked /\ q \in Absent /\ FitsDirectory(q)
  BY DEF p6fs_symlink, Absent
<1>2. vol' = SymlinkLeaves(vol, ParentOf(vol, q), Last(q), Last(p))
  BY Zenon DEF p6fs_symlink, Changes, SymlinkLeaves, WithInode
<1>3. /\ ParentOf(vol, q) \in Dirs(vol) /\ Last(q) \in Names
      /\ \A j : <<ParentOf(vol, q), Last(q), j>> \notin Entries(vol)
      /\ vol.mem.inode[ParentOf(vol, q)].dentry_num < UnitsPerBlock
  BY <1>1, AskedPaths, DirectoryHasRoom
<1>4. QED
  BY <1>2, <1>3, SymlinkKeeps

LEMMA RenameStep ==
  ASSUME AllRules \subseteq Rules, VolOK(vol), NEW p \in Paths, NEW q \in Paths,
         p6fs_rename(p, q)
  PROVE  VolOK(vol')
<1>1. /\ p \in Asked /\ p \in Present /\ q \in Asked /\ q \in Absent /\ FitsDirectory(q)
      /\ vol' = RenameLeaves(vol, ParentOf(vol, p), Last(p), ParentOf(vol, q), Last(q),
                             FileOf(vol, p))
  BY DEF p6fs_rename, Present, Absent, Changes, RenameLeaves
<1>2. <<ParentOf(vol, p), Last(p), FileOf(vol, p)>> \in Entries(vol)
  BY <1>1, AskedPaths
<1>3. /\ ParentOf(vol, q) \in Dirs(vol) /\ Last(q) \in Names
      /\ \A j : <<ParentOf(vol, q), Last(q), j>> \notin Entries(vol)
      /\ vol.mem.inode[ParentOf(vol, q)].dentry_num < UnitsPerBlock
  BY <1>1, AskedPaths, DirectoryHasRoom
<1>4. QED
  BY <1>1, <1>2, <1>3, RenameKeeps

LEMMA WriteStep ==
  ASSUME VolOK(vol), NEW p \in Paths, NEW e \in Extents, NEW x,
         p6fs_write(p, e[1], e[2], x)
  PROVE  VolOK(vol')
<1> DEFINE i    == FileOf(vol, p)
           last == e[1] + e[2]
           Put(buf) == [k \in DOMAIN buf |-> IF k \in e[1] + 1..last THEN x ELSE buf[k]]
           Buf(v) == Put(ReadFile(v, i))
           grown == IF last > vol.mem.inode[i].file_size
                      THEN Increase(vol, i, last) ELSE {<<TRUE, vol>>}
<1>1. last \in Nat
  BY FileAssumption
<1>2. p \in Asked /\ p \in Present /\ TypeAt(p) = "NORMAL_FILE" /\ last <= MaxUnits
  BY DEF p6fs_write, Present
<1>3. PICK r \in grown : vol' = IF r[1] THEN WriteLeaves(r[2], i, Buf(r[2]), last) ELSE r[2]
  BY Zenon DEF p6fs_write, Changes, WriteLeaves
<1>4. Regular(vol, i)
  BY <1>2, AskedPaths, NamedIsRegular DEF TypeAt
<1>5. BlocksNum(last) <= Most
  BY <1>1, <1>2, FileFits
<1> HIDE DEF Buf
<1>6. /\ VolOK(r[2]) /\ Regular(r[2], i)
      /\ r[1] => last <= r[2].mem.inode[i].blocks_number * UnitsPerBlock
  <2>1. CASE last > vol.mem.inode[i].file_size
    <3>1. r \in Increase(vol, i, last)
      BY <2>1
    <3> HIDE DEF last, i, grown
    <3>2. QED
      BY <1>1, <1>4, <1>5, <3>1, IncreaseKeeps
  <2>2. CASE ~(last > vol.mem.inode[i].file_size)
    <3>1. r = <<TRUE, vol>>
      BY <2>2, Zenon
    <3>2. r[1] = TRUE /\ r[2] = vol
      BY <3>1
    <3> HIDE DEF grown
    <3>3. PICK size \in Nat : size = vol.mem.inode[i].file_size /\ last <= size
      BY <1>1, <1>4, <2>2, InodeTypes DEF VolOK, Sound, Regular
    <3>4. PICK m \in Nat : m = vol.mem.inode[i].blocks_number /\ BlocksNum(size) <= m
      BY <1>4, <3>3, InodeTypes DEF VolOK, Sound, Regular, Fits
    <3> HIDE DEF last, i
    <3>5. BlocksNum(last) \in Nat /\ BlocksNum(size) \in Nat
          /\ BlocksNum(last) <= BlocksNum(size)
      BY <1>1, <3>3, BlocksFit, BlocksGrow
    <3>6. last <= m * UnitsPerBlock
      <4>1. BlocksNum(last) <= m
        BY <3>4, <3>5
      <4>2. QED
        BY <1>1, <4>1, BlocksFit
    <3>7. QED
      BY <1>4, <3>2, <3>4, <3>6
  <2>3. QED
    BY <2>1, <2>2
<1> HIDE DEF last, i, grown
<1>7. CASE r[1]
  <2>1. vol' = WriteLeaves(r[2], i, Buf(r[2]), last)
    BY <1>3, <1>7
  <2>2. QED
    BY <1>1, <1>6, <1>7, <2>1, WrittenKeeps
<1>8. CASE ~r[1]
  BY <1>3, <1>6, <1>8
<1>9. QED
  BY <1>7, <1>8

LEMMA TruncateStep ==
  ASSUME AllRules \subseteq Rules, VolOK(vol), NEW p \in Paths, NEW size \in Sizes,
         p6fs_truncate(p, size)
  PROVE  VolOK(vol')
<1> DEFINE i == FileOf(vol, p)
<1>1. size \in Nat
  BY FileAssumption
<1>2. p \in Asked /\ p \in Present /\ TypeAt(p) = "NORMAL_FILE" /\ size <= MaxUnits
  BY DEF p6fs_truncate, Present
<1>3. \/ \E r \in Increase(vol, i, size) : vol' = r[2]
      \/ /\ size < vol.mem.inode[i].file_size /\ MayShrink(vol.mem.inode[i].file_size, size)
         /\ vol' = Decrease(vol, i, size)
  BY DEF p6fs_truncate, Changes
<1>4. Regular(vol, i)
  BY <1>2, AskedPaths, NamedIsRegular DEF TypeAt
<1>5. BlocksNum(size) <= Most
  BY <1>1, <1>2, FileFits
<1> HIDE DEF i
<1>6. ASSUME NEW r \in Increase(vol, i, size), vol' = r[2]
      PROVE  VolOK(vol')
  <2>1. VolOK(r[2])
    BY <1>1, <1>4, <1>5, IncreaseKeeps
  <2>2. QED
    BY <1>6, <2>1
<1>7. ASSUME size < vol.mem.inode[i].file_size, MayShrink(vol.mem.inode[i].file_size, size),
             vol' = Decrease(vol, i, size)
      PROVE  VolOK(vol')
  <2>1. SecondIndirectNum(vol.mem.inode[i].file_size) \in {0, 1, SecondIndirectNum(size)}
    BY <1>7 DEF MayShrink, AllRules
  <2>2. QED
    BY <1>1, <1>4, <1>7, <2>1, DecreaseKeeps
<1>8. QED
  BY <1>3, <1>6, <1>7

\* a remount finds on disk what the rules have saved
LEMMA RemountStep ==
  ASSUME AllRules \subseteq Rules, VolOK(vol), Remount
  PROVE  VolOK(vol')
<1>1. LinksSaved(vol) /\ vol' = [vol EXCEPT !.mem = vol.disk]
  BY DEF Remount, LinksSaved, AllRules
<1>2. QED
  BY <1>1, RemountKeeps

LEMMA VolumeStep ==
  ASSUME AllRules \subseteq Rules, VolOK(vol), [FsNext]_fsVars
  PROVE  VolOK(vol')
<1>1. ASSUME NEW p \in Paths, p6fs_chmod(p)
      PROVE  VolOK(vol')
  BY <1>1, SaveKeeps DEF p6fs_chmod, Changes
<1>2. ASSUME NEW p \in Paths, p6fs_open(p) \/ p6fs_release(p)
      PROVE  VolOK(vol')
  BY <1>2 DEF p6fs_open, p6fs_release
<1>3. CASE UNCHANGED fsVars
  BY <1>3 DEF fsVars
<1>4. CASE FsNext
  BY <1>1, <1>2, <1>4, MknodStep, MkdirStep, RmdirStep, UnlinkStep, LinkStep, SymlinkStep,
     RenameStep, WriteStep, TruncateStep, RemountStep DEF FsNext
<1>5. QED
  BY <1>3, <1>4

(***************************************************************************)
(* The invariant read as the properties of the volume.                     *)
(***************************************************************************)
\* the blocks of a file are those its uses name
LEMMA BlocksAreUses ==
  ASSUME Sound(vol), NEW i \in Inodes, NEW b \in BlocksOf(i)
  PROVE  \E k \in Uses(vol, i) : b = BlockAt(vol, i, k)
<1> DEFINE n == vol.mem.inode[i]
<1>1. /\ ToSet(DatablockIndex(vol, i)) = {BlockAt(vol, i, k) : k \in DataUses(vol, i)}
      /\ DataUses(vol, i) \subseteq Uses(vol, i)
      /\ n.blocks_number > Direct =>
           FirstIndex \in Uses(vol, i) /\ SecondIndex \in Uses(vol, i)
  BY DataBlocks, UsesBounds
<1>2. /\ Direct \in Nat
      /\ BlockAt(vol, i, FirstIndex) = n.indirect_block
      /\ BlockAt(vol, i, SecondIndex) = SecondIndirect(vol, i, 0)
  BY Constants, IndexBlocks
<1>3. CASE b \in ToSet(DatablockIndex(vol, i))
  BY <1>1, <1>3
<1>4. CASE b = n.indirect_block /\ n.blocks_number > Direct
  BY <1>1, <1>2, <1>4
<1>5. CASE b = SecondIndirect(vol, i, 0) /\ n.blocks_number > Direct
  BY <1>1, <1>2, <1>5
<1>6. QED
  BY <1>3, <1>4, <1>5 DEF BlocksOf, Direct

LEMMA OwnedOnce ==
  ASSUME Sound(vol)
  PROVE  BlocksOwnedOnce
<1>1. \A i \in Files : i \in Inodes
  BY Constants, InodeTypes DEF Sound, Files
<1>2. ASSUME NEW i \in Files, NEW j \in Files, i # j
      PROVE  BlocksOf(i) \cap BlocksOf(j) = {}
  <2> SUFFICES ASSUME NEW b \in BlocksOf(i), b \in BlocksOf(j) PROVE FALSE
    OBVIOUS
  <2>1. PICK k \in Uses(vol, i) : b = BlockAt(vol, i, k)
    BY <1>1, BlocksAreUses
  <2>2. PICK l \in Uses(vol, j) : b = BlockAt(vol, j, l)
    BY <1>1, BlocksAreUses
  <2>3. QED
    BY <1>1, <1>2, <2>1, <2>2 DEF Sound, OwnsOnce
<1>3. ASSUME NEW i \in Files, NEW b \in BlocksOf(i)
      PROVE  b \in vol.mem.datablock_bitmap
  <2>1. PICK k \in Uses(vol, i) : b = BlockAt(vol, i, k)
    BY <1>1, BlocksAreUses
  <2>2. QED
    BY <1>1, <2>1 DEF Sound, MarksUsed
<1>4. QED
  BY <1>2, <1>3 DEF BlocksOwnedOnce

\* the entries of a directory after the first two, as they are read
LEMMA ListedEntries ==
  ASSUME Sound(vol), DirsOK(vol), NEW d \in Dirs(vol), NEW n, NEW i
  PROVE  (\E e \in ToSet(SubSeq(Directory(vol, d), 3, vol.mem.inode[d].dentry_num)) :
            e[1] = n /\ e[2] = i)
         <=> (\E k \in Listed(vol, d) : EntryAt(vol, d, k)[1] = n /\ EntryAt(vol, d, k)[2] = i)
<1>1. PICK m \in Nat : /\ m = vol.mem.inode[d].dentry_num /\ m = vol.mem.inode[d].file_size
                       /\ m \in 2..UnitsPerBlock /\ m \in 1..UnitsPerBlock
  <2>1. /\ vol.mem.inode[d].file_size = vol.mem.inode[d].dentry_num
        /\ vol.mem.inode[d].dentry_num \in 2..UnitsPerBlock
    BY DEF DirsOK, DirsFit
  <2>2. QED
    BY <2>1, Constants
<1>2. d \in Inodes
  BY DEF Dirs
<1>3. /\ Len(Directory(vol, d)) = m
      /\ \A k \in 1..m : Directory(vol, d)[k] = EntryAt(vol, d, k)
      /\ \E S : Directory(vol, d) \in Seq(S)
  <2>1. /\ vol.mem.inode[d].file_size \in 1..UnitsPerBlock
        /\ vol.mem.inode[d].dentry_num \in 1..UnitsPerBlock
    BY <1>1
  <2>2. QED
    BY <1>1, <1>2, <2>1, ReadsDirectory
<1> DEFINE dir == Directory(vol, d)
           s   == SubSeq(dir, 3, m)
<1>4. PICK S : dir \in Seq(S)
  BY <1>3
<1> HIDE DEF dir
<1>5. /\ s \in Seq(S) /\ Len(s) = m - 2
      /\ \A k \in 1..m - 2 : s[k] = dir[k + 2]
  <2>1. CASE m = 2
    <3>1. s = <<>>
      BY <1>4, <2>1, SubSeqProperties
    <3>2. QED
      BY <2>1, <3>1
  <2>2. CASE m # 2
    <3>1. 3 \in 1..m /\ m \in 1..Len(dir)
      BY <1>1, <1>3, <2>2 DEF dir
    <3>2. /\ s \in Seq(S) /\ Len(s) = m - 3 + 1
          /\ \A k \in 1..m - 3 + 1 : s[k] = dir[3 + k - 1]
      BY <1>1, <1>4, <3>1, SubSeqProperties, SMTT(30)
    <3>3. QED
      BY <1>1, <3>2
  <2>3. QED
    BY <2>1, <2>2
<1> HIDE DEF s
<1>6. ToSet(s) = {s[k] : k \in 1..m - 2}
  <2>1. DOMAIN s = 1..m - 2
    BY <1>5
  <2>2. QED
    BY <2>1 DEF ToSet
<1>7. \A k \in 1..m - 2 : k + 2 \in 3..m /\ s[k] = EntryAt(vol, d, k + 2)
  <2> SUFFICES ASSUME NEW k \in 1..m - 2
               PROVE  k + 2 \in 3..m /\ s[k] = EntryAt(vol, d, k + 2)
    OBVIOUS
  <2>1. PICK l \in 3..m : l = k + 2
    BY <1>1
  <2>2. l \in 1..m
    BY <1>1
  <2>3. s[k] = dir[l] /\ dir[l] = EntryAt(vol, d, l)
    BY <1>3, <1>5, <2>1, <2>2 DEF dir
  <2>4. QED
    BY <2>1, <2>3
<1>8. \A k \in 3..m : k - 2 \in 1..m - 2 /\ s[k - 2] = EntryAt(vol, d, k)
  <2> SUFFICES ASSUME NEW k \in 3..m
               PROVE  k - 2 \in 1..m - 2 /\ s[k - 2] = EntryAt(vol, d, k)
    OBVIOUS
  <2>1. PICK l \in 1..m - 2 : l = k - 2 /\ l + 2 = k
    BY <1>1
  <2>2. k \in 1..m
    BY <1>1
  <2>3. s[l] = dir[l + 2] /\ dir[k] = EntryAt(vol, d, k)
    BY <1>3, <1>5, <2>2 DEF dir
  <2>4. QED
    BY <2>1, <2>3
<1>9. Listed(vol, d) = 3..m
  BY <1>1 DEF Listed
<1>10. (\E e \in ToSet(s) : e[1] = n /\ e[2] = i)
       <=> (\E k \in 3..m : EntryAt(vol, d, k)[1] = n /\ EntryAt(vol, d, k)[2] = i)
  BY <1>6, <1>7, <1>8
<1>11. QED
  BY <1>1, <1>9, <1>10 DEF s, dir

LEMMA DentriesAreEntries ==
  ASSUME VolOK(vol)
  PROVE  Dentries = Entries(vol)
<1> DEFINE List(d) == ToSet(SubSeq(Directory(vol, d), 3, vol.mem.inode[d].dentry_num))
<1>1. Sound(vol) /\ DirsOK(vol) /\ UnusedOK(vol) /\ NamesCounted(vol)
  BY DEF VolOK
<1>2. {i \in Files : IsDir(i)} = Dirs(vol)
  <2>1. \A i \in Dirs(vol) : vol.mem.inode[i].links = 1 /\ i \in Inodes
    BY <1>1 DEF NamesCounted, Dirs
  <2>2. \A i \in Inodes : vol.mem.inode[i].links # 0 => i \in vol.mem.inode_bitmap
    BY <1>1 DEF UnusedOK
  <2>3. \A i \in Files : i \in Inodes
    BY Constants, <1>1, InodeTypes DEF Sound, Files
  <2>4. ASSUME NEW i \in Dirs(vol)
        PROVE  i \in Files /\ IsDir(i)
    <3>1. /\ i \in Inodes /\ i # -1 /\ vol.mem.inode[i].file_type = "DIRECTORY"
          /\ vol.mem.inode[i].links = 1
      BY <2>1, Constants DEF Dirs
    <3>2. QED
      BY <2>2, <3>1 DEF Files, IsDir
  <2>5. ASSUME NEW i \in Files, IsDir(i)
        PROVE  i \in Dirs(vol)
    BY <2>3, <2>5 DEF IsDir, Dirs
  <2>6. QED
    BY <2>4, <2>5
<1>3. Dentries = UNION {{<<d, e[1], e[2]>> : e \in List(d)} : d \in Dirs(vol)}
  BY <1>2 DEF Dentries
<1>4. \A d \in Dirs(vol) : \A n, i :
        (\E e \in List(d) : e[1] = n /\ e[2] = i)
        <=> (\E k \in Listed(vol, d) : EntryAt(vol, d, k)[1] = n /\ EntryAt(vol, d, k)[2] = i)
  BY <1>1, ListedEntries
<1> HIDE DEF List
<1>5. ASSUME NEW x \in Dentries
      PROVE  x \in Entries(vol)
  <2>0. PICK d \in Dirs(vol) : x \in {<<d, e[1], e[2]>> : e \in List(d)}
    BY <1>3
  <2>1. PICK e \in List(d) : x = <<d, e[1], e[2]>>
    BY <2>0
  <2>2. PICK k \in Listed(vol, d) : EntryAt(vol, d, k)[1] = e[1] /\ EntryAt(vol, d, k)[2] = e[2]
    BY <1>4
  <2>3. QED
    BY <2>1, <2>2, EntryIn
<1>6. ASSUME NEW x \in Entries(vol)
      PROVE  x \in Dentries
  <2>0. PICK d \in Dirs(vol) :
          x \in {<<d, EntryAt(vol, d, k)[1], EntryAt(vol, d, k)[2]>> : k \in Listed(vol, d)}
    BY DEF Entries
  <2>1. PICK k \in Listed(vol, d) : x = <<d, EntryAt(vol, d, k)[1], EntryAt(vol, d, k)[2]>>
    BY <2>0
  <2>2. PICK n, i : n = EntryAt(vol, d, k)[1] /\ i = EntryAt(vol, d, k)[2]
    OBVIOUS
  <2>3. PICK e \in List(d) : e[1] = n /\ e[2] = i
    BY <1>4, <2>2
  <2>4. QED
    BY <1>3, <2>1, <2>2, <2>3
<1>7. QED
  BY <1>5, <1>6

LEMMA LinksCounted ==
  ASSUME VolOK(vol)
  PROVE  LinksAreNames
<1>1. Sound(vol) /\ NamesCounted(vol)
  BY DEF VolOK
<1>2. \A i \in Files : i \in Inodes
  BY Constants, <1>1, InodeTypes DEF Sound, Files
<1>3. QED
  BY <1>1, <1>2, DentriesAreEntries DEF NamesCounted, LinksAreNames, Named

-----------------------------------------------------------------------------
(* No block of the volume serves two purposes and each that serves one is  *)
(* marked, whatever file_increase_block_num(), file_decrease_block_num()   *)
(* and recycle_inode_and_space() are asked for, in any order and over any  *)
(* number of remounts. Files grow from nothing into the direct blocks,     *)
(* into both indexes at once and from one block behind the indexes to the  *)
(* next, up to a full second index (the bound MaxUnits). The rules leave   *)
(* out what the theorem does not claim: a file with two or more blocks     *)
(* behind its indexes that gives one back, where the property is false     *)
(* (common.c:1151), and directories of more than one block.                *)
THEOREM NoBlockIsShared ==
  ASSUME AllRules \subseteq Rules
  PROVE  FsSpec => []BlocksOwnedOnce
<1>1. FsInit => VolOK(vol)
  BY InitOK
<1>2. VolOK(vol) /\ [FsNext]_fsVars => VolOK(vol)'
  BY VolumeStep
<1>3. VolOK(vol) => BlocksOwnedOnce
  BY OwnedOnce DEF VolOK
<1>4. QED
  BY <1>1, <1>2, <1>3, PTL DEF FsSpec

(* As long as the rules hold, the link count by which unlink() decides to  *)
(* recycle an inode is the number of names the directories hold for it.    *)
THEOREM LinksStayNames ==
  ASSUME AllRules \subseteq Rules
  PROVE  FsSpec => []LinksAreNames
<1>1. FsInit => VolOK(vol)
  BY InitOK
<1>2. VolOK(vol) /\ [FsNext]_fsVars => VolOK(vol)'
  BY VolumeStep
<1>3. VolOK(vol) => LinksAreNames
  BY LinksCounted
<1>4. QED
  BY <1>1, <1>2, <1>3, PTL DEF FsSpec

-----------------------------------------------------------------------------
(***************************************************************************)
(* The names of the volume are a tree of names.                            *)
(***************************************************************************)
LEMMA FilesAreLinked ==
  ASSUME VolOK(vol), NEW i \in Inodes
  PROVE  i \in Files <=> vol.mem.inode[i].links # 0
<1>1. Sound(vol) /\ Typed(vol) /\ UnusedOK(vol)
  BY DEF VolOK, Sound
<1>2. vol.mem.inode[i].links \in Nat
  BY <1>1, InodeTypes
<1>3. vol.mem.inode[i].links # 0 => i \in vol.mem.inode_bitmap
  BY <1>1 DEF UnusedOK
<1>4. QED
  BY <1>2, <1>3 DEF Files

LEMMA VolumeIsTree ==
  ASSUME VolOK(vol)
  PROVE  Tree!TreeSound
<1>1. Sound(vol) /\ Typed(vol) /\ DirsOK(vol) /\ NamesCounted(vol)
  BY DEF VolOK, Sound
<1>2. Dentries = Entries(vol)
  BY DentriesAreEntries
<1> DEFINE Kind == [i \in Inodes |-> IF i \in Files THEN vol.mem.inode[i].file_type ELSE "NONE"]
<1>3. ASSUME NEW d \in Dirs(vol)
      PROVE  d \in Inodes /\ Kind[d] = "DIRECTORY"
  <2>1. d \in Inodes /\ vol.mem.inode[d].file_type = "DIRECTORY"
        /\ vol.mem.inode[d].links = 1
    BY <1>1 DEF Dirs, NamesCounted
  <2>2. QED
    BY <2>1, FilesAreLinked
<1>4. ASSUME NEW i \in Inodes, Kind[i] = "DIRECTORY"
      PROVE  i \in Dirs(vol)
  BY <1>4 DEF Dirs
<1>5. ASSUME NEW i \in Inodes
      PROVE  Kind[i] # "NONE" <=> vol.mem.inode[i].links # 0
  <2>1. vol.mem.inode[i].file_type # "NONE"
    BY <1>1, InodeTypes DEF Kinds
  <2>2. QED
    BY <2>1, FilesAreLinked
<1> DEFINE S == Entries(vol)
<1>6. ASSUME NEW e \in S
      PROVE  /\ e = <<e[1], e[2], e[3]>> /\ e[1] \in Dirs(vol)
             /\ e[3] \in Inodes /\ e[3] # Root
  BY <1>1, EntryShape
<1>7. IsFiniteSet(S) /\ \A i \in Inodes : i # Root =>
        vol.mem.inode[i].links = Cardinality(Named(S, i))
  BY <1>1 DEF NamesCounted
<1> HIDE DEF S, Kind
<1>8. ASSUME NEW i
      PROVE  IsFiniteSet(Named(S, i)) /\ (Cardinality(Named(S, i)) = 0 <=> Named(S, i) = {})
  <2>1. Named(S, i) \in SUBSET S
    BY DEF Named
  <2>2. QED
    BY <1>7, <2>1, FS_Subset, FS_EmptySet
<1>9. \A e, f \in S : e[1] = f[1] /\ e[2] = f[2] => e = f
  <2> SUFFICES ASSUME NEW e \in S, NEW f \in S, e[1] = f[1], e[2] = f[2]
               PROVE  e = f
    OBVIOUS
  <2>1. <<e[1], e[2], e[3]>> \in S /\ <<e[1], e[2], f[3]>> \in S
    BY <1>6
  <2>2. e[3] = f[3]
    BY <1>1, <2>1, EntryUnique DEF S
  <2>3. QED
    BY <1>6, <2>2
<1>10. \A e \in S : Kind[e[1]] = "DIRECTORY" /\ Kind[e[3]] # "NONE"
  <2> SUFFICES ASSUME NEW e \in S
               PROVE  Kind[e[1]] = "DIRECTORY" /\ Kind[e[3]] # "NONE"
    OBVIOUS
  <2>1. e \in Named(S, e[3])
    BY DEF Named
  <2>2. Cardinality(Named(S, e[3])) # 0
    BY <1>8, <2>1
  <2>3. QED
    BY <1>3, <1>5, <1>6, <1>7, <2>2
<1>11. \A i \in Inodes : i # Root => (Kind[i] # "NONE" <=> Named(S, i) # {})
  BY <1>5, <1>7, <1>8
<1>12. Named(S, Root) = {} /\ Kind[Root] = "DIRECTORY"
  BY <1>1, <1>3, <1>6 DEF Named, DirsOK
<1>13. \A e, f \in S : e[3] = f[3] /\ Kind[e[3]] = "DIRECTORY" => e = f
  <2> SUFFICES ASSUME NEW e \in S, NEW f \in S, e[3] = f[3], Kind[e[3]] = "DIRECTORY"
               PROVE  e = f
    OBVIOUS
  <2>1. e[3] \in Dirs(vol)
    BY <1>4, <1>6
  <2>2. vol.mem.inode[e[3]].links = 1
    BY <1>1, <2>1 DEF NamesCounted
  <2>3. Cardinality(Named(S, e[3])) = 1
    BY <1>6, <1>7, <2>2
  <2>4. PICK g : Named(S, e[3]) = {g}
    BY <1>8, <2>3, FS_Singleton
  <2>5. e \in Named(S, e[3]) /\ f \in Named(S, e[3])
    BY DEF Named
  <2>6. QED
    BY <2>4, <2>5
<1>14. QED
  BY <1>2, <1>9, <1>10, <1>11, <1>12, <1>13
     DEF Tree!TreeSound, Tree!NamesAreUnique, Tree!NamesLead, Tree!ObjectsAreNamed,
         Tree!RootStays, Tree!DirectoriesHaveOneName, Tree!NamesOf, Tree!NoObject,
         Named, S, Kind

(* As long as the rules hold, a name of a directory leads to one inode,    *)
(* an inode exists exactly while a name leads to it, and no directory has  *)
(* two names: what a user of p6fs takes for granted.                       *)
THEOREM VolumeStaysTree ==
  ASSUME AllRules \subseteq Rules
  PROVE  FsSpec => []Tree!TreeSound
<1>1. FsInit => VolOK(vol)
  BY InitOK
<1>2. VolOK(vol) /\ [FsNext]_fsVars => VolOK(vol)'
  BY VolumeStep
<1>3. VolOK(vol) => Tree!TreeSound
  BY VolumeIsTree
<1>4. QED
  BY <1>1, <1>2, <1>3, PTL DEF FsSpec
=============================================================================
