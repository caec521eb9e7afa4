----------------------------- MODULE ListsProofs -----------------------------
(* Induction over data: the well-founded order of the naturals gives a least *)
(* element to every set of them, and with it induction and recursion in a    *)
(* form that can be used for given sets and functions.  With these, what     *)
(* Lists computes, for lists of every length.                                *)
EXTENDS Lists, SequencesExt, FunctionTheorems, SequenceTheorems, FiniteSetTheorems,
        WellFoundedInduction, TLAPS

LEMMA LeastElement ==
    ASSUME NEW T \in SUBSET Nat, T # {}
    PROVE  \E m \in T : \A n \in T : m <= n
<1>1. PICK less : less = OpToRel(<, Nat)
  OBVIOUS
<1>2. ASSUME NEW n \in Nat, NEW m \in Nat, n < m PROVE <<n, m>> \in less
  BY <1>1, <1>2 DEF OpToRel
<1>3. IsWellFoundedOn(less, Nat)
  BY <1>1, NatLessThanWellFounded
<1>4. PICK m \in T : \A n \in T : ~(<<n, m>> \in less)
  BY <1>3, WFMin
<1>5. ASSUME NEW n \in T PROVE m <= n
  <2>1. n \in Nat /\ m \in Nat /\ ~(n < m)
    BY <1>2, <1>4
  <2> QED BY <2>1
<1> QED BY <1>5

LEMMA Induction ==
    ASSUME NEW T \in SUBSET Nat, 0 \in T, \A n \in T : n + 1 \in T
    PROVE  T = Nat
<1> SUFFICES ASSUME Nat \ T # {} PROVE FALSE
  OBVIOUS
<1>1. PICK m \in Nat \ T : \A n \in Nat \ T : m <= n
  BY LeastElement
<1> QED BY <1>1

(* A function can be given by recursion on a number. *)
Steps(n, S) == [(1..n) \X S -> S]
IsRecursion(g, n, S, base, step) ==
    g \in [0..n -> S] /\ g[0] = base /\ \A i \in 1..n : g[i] = step[<<i, g[i-1]>>]

LEMMA Recursion ==
    ASSUME NEW n, NEW S, NEW base, NEW step,
           n \in Nat, base \in S, step \in Steps(n, S)
    PROVE  \E g : IsRecursion(g, n, S, base, step)
<1> USE DEF Steps
<1> DEFINE Follows(g, m) == g[0] = base /\ \A i \in 1..m : g[i] = step[<<i, g[i-1]>>]
<1> DEFINE T == {m \in Nat : m <= n => \E g \in [0..m -> S] : Follows(g, m)}
<1>1. 0 \in T
  <2> DEFINE z == [i \in 0..0 |-> base]
  <2>1. z \in [0..0 -> S] /\ z[0] = base /\ 1..0 = {}
    OBVIOUS
  <2>2. Follows(z, 0)
    BY <2>1
  <2> HIDE DEF z, Follows
  <2> QED BY <2>1, <2>2
<1>2. ASSUME NEW m \in T PROVE m + 1 \in T
  <2> SUFFICES ASSUME m + 1 <= n PROVE \E g \in [0..(m+1) -> S] : Follows(g, m + 1)
    OBVIOUS
  <2>1. PICK g \in [0..m -> S] : Follows(g, m)
    OBVIOUS
  <2> DEFINE last == step[<<m+1, g[m]>>]
  <2> DEFINE h == [i \in 0..(m+1) |-> IF i <= m THEN g[i] ELSE last]
  <2>2. last \in S
    OBVIOUS
  <2> HIDE DEF last
  <2>3. h \in [0..(m+1) -> S] /\ h[0] = base /\ (\A i \in 0..m : h[i] = g[i])
        /\ h[m+1] = last
    BY <2>1, <2>2
  <2> HIDE DEF h
  <2>4. h[m+1] = step[<<m+1, h[m]>>]
    <3>1. m \in 0..m
      OBVIOUS
    <3>2. h[m] = g[m]
      BY <2>3, <3>1
    <3> QED BY <2>3, <3>2 DEF last
  <2>5. \A i \in 1..(m+1) : h[i] = step[<<i, h[i-1]>>]
    <3> TAKE i \in 1..(m+1)
    <3>1. CASE i = m + 1
      BY <3>1, <2>4
    <3>2. CASE i \in 1..m
      BY <3>2, <2>1, <2>3
    <3> QED BY <3>1, <3>2
  <2> QED BY <2>3, <2>5
<1>3. T = Nat
  <2> HIDE DEF T
  <2>1. T \in SUBSET Nat
    BY DEF T
  <2> QED BY <1>1, <1>2, <2>1, Induction
<1>4. n \in T /\ n <= n
  <2> HIDE DEF T
  <2> QED BY <1>3
<1>5. PICK g \in [0..n -> S] : Follows(g, n)
  BY <1>4
<1> QED BY <1>5 DEF IsRecursion

-----------------------------------------------------------------------------
(* Running sums. *)
LEMMA UpToSteps ==
    ASSUME NEW f \in Seq(Nat)
    PROVE  /\ UpTo(f, 0) = 0
           /\ \A i \in 1..Len(f) : UpTo(f, i) = UpTo(f, i-1) + f[i]
           /\ \A i \in 0..Len(f) : UpTo(f, i) \in Nat
<1> DEFINE n == Len(f)
<1> DEFINE step == [p \in (1..n) \X Nat |-> p[2] + f[p[1]]]
<1> DEFINE IsSum(g) == g = [k \in 0..n |-> IF k = 0 THEN 0 ELSE g[k-1] + f[k]]
<1>1. n \in Nat /\ 0 \in Nat /\ step \in Steps(n, Nat)
  BY DEF Steps
<1>2. \E g : IsRecursion(g, n, Nat, 0, step)
  <2> HIDE DEF step, n
  <2> QED BY <1>1, Recursion, Zenon
<1>3. PICK g \in [0..n -> Nat] :
          g[0] = 0 /\ \A k \in 1..n : g[k] = step[<<k, g[k-1]>>]
  BY <1>2 DEF IsRecursion
<1>4. IsSum(g)
  <2>1. ASSUME NEW k \in 1..n PROVE g[k] = g[k-1] + f[k]
    <3>1. k - 1 \in 0..n /\ g[k-1] \in Nat
      BY SMTT(30)
    <3>2. step[<<k, g[k-1]>>] = g[k-1] + f[k]
      BY <3>1
    <3> HIDE DEF step
    <3> QED BY <1>3, <3>2
  <2>2. \A k \in 0..n : g[k] = IF k = 0 THEN 0 ELSE g[k-1] + f[k]
    <3> HIDE DEF step
    <3> QED BY <1>1, <1>3, <2>1
  <2> HIDE DEF step, n
  <2> QED BY <1>3, <2>2
<1> DEFINE sum == CHOOSE h : IsSum(h)
<1>5. IsSum(sum)
  <2> HIDE DEF IsSum
  <2> QED BY <1>4
<1>6. \A i : UpTo(f, i) = sum[i]
  BY DEF UpTo
<1>7. \A k \in 0..n : sum[k] = IF k = 0 THEN 0 ELSE sum[k-1] + f[k]
  <2> HIDE DEF sum
  <2> QED BY <1>5
<1> HIDE DEF sum
<1>8. sum[0] = 0 /\ \A k \in 1..n : sum[k] = sum[k-1] + f[k]
  BY <1>1, <1>7
<1>9. \A k \in 0..n : sum[k] \in Nat
  <2> DEFINE T == {k \in Nat : k <= n => sum[k] \in Nat}
  <2>1. 0 \in T
    BY <1>8
  <2>2. ASSUME NEW k \in T PROVE k + 1 \in T
    <3> SUFFICES ASSUME k + 1 <= n PROVE sum[k+1] \in Nat
      OBVIOUS
    <3>1. k + 1 \in 1..n /\ (k + 1) - 1 = k
      BY <1>1
    <3>2. sum[k+1] = sum[k] + f[k+1]
      BY <1>8, <3>1
    <3> QED BY <3>1, <3>2
  <2>3. T = Nat
    <3> HIDE DEF T
    <3>1. T \in SUBSET Nat
      BY DEF T
    <3> QED BY <2>1, <2>2, <3>1, Induction
  <2> QED BY <2>3
<1> QED BY <1>6, <1>8, <1>9

LEMMA UpToGrows ==
    ASSUME NEW f \in Seq(Nat), NEW i \in 0..Len(f), NEW j \in i..Len(f)
    PROVE  UpTo(f, i) <= UpTo(f, j)
<1> DEFINE T == {d \in Nat : i + d <= Len(f) => UpTo(f, i) <= UpTo(f, i + d)}
<1>1. 0 \in T
  BY UpToSteps
<1>2. ASSUME NEW d \in T PROVE d + 1 \in T
  <2> SUFFICES ASSUME i + (d + 1) <= Len(f)
               PROVE  UpTo(f, i) <= UpTo(f, i + (d + 1))
    OBVIOUS
  <2>1. UpTo(f, i) <= UpTo(f, i + d)
    OBVIOUS
  <2>2. i + (d + 1) \in 1..Len(f) /\ (i + (d + 1)) - 1 = i + d /\ i + d \in 0..Len(f)
    OBVIOUS
  <2>3. UpTo(f, i + (d + 1)) = UpTo(f, i + d) + f[i + (d + 1)]
    BY <2>2, UpToSteps
  <2>4. f[i + (d + 1)] \in Nat /\ UpTo(f, i) \in Nat /\ UpTo(f, i + d) \in Nat
    BY <2>2, UpToSteps
  <2> QED BY <2>1, <2>3, <2>4
<1>3. T = Nat
  <2> HIDE DEF T
  <2>1. T \in SUBSET Nat
    BY DEF T
  <2> QED BY <1>1, <1>2, <2>1, Induction
<1>4. j - i \in T /\ i + (j - i) = j
  <2> HIDE DEF T
  <2>1. j - i \in Nat /\ i + (j - i) = j
    OBVIOUS
  <2> QED BY <1>3, <2>1
<1> QED BY <1>4

(* A sum depends on the numbers that it adds up only. *)
LEMMA UpToPrefix ==
    ASSUME NEW f \in Seq(Nat), NEW g \in Seq(Nat),
           NEW n \in 0..Len(f), n <= Len(g), \A i \in 1..n : f[i] = g[i]
    PROVE  UpTo(f, n) = UpTo(g, n)
<1> DEFINE T == {i \in Nat : i <= n => UpTo(f, i) = UpTo(g, i)}
<1>1. 0 \in T
  BY UpToSteps
<1>2. ASSUME NEW i \in T PROVE i + 1 \in T
  <2> SUFFICES ASSUME i + 1 <= n PROVE UpTo(f, i + 1) = UpTo(g, i + 1)
    OBVIOUS
  <2>1. UpTo(f, i) = UpTo(g, i)
    OBVIOUS
  <2>2. i + 1 \in 1..Len(f) /\ i + 1 \in 1..Len(g) /\ i + 1 \in 1..n /\ (i + 1) - 1 = i
    OBVIOUS
  <2>3. UpTo(f, i + 1) = UpTo(f, i) + f[i + 1]
    BY <2>2, UpToSteps
  <2>4. UpTo(g, i + 1) = UpTo(g, i) + g[i + 1]
    BY <2>2, UpToSteps
  <2>5. f[i + 1] = g[i + 1]
    BY <2>2
  <2> QED BY <2>1, <2>3, <2>4, <2>5
<1>3. T = Nat
  <2> HIDE DEF T
  <2>1. T \in SUBSET Nat
    BY DEF T
  <2> QED BY <1>1, <1>2, <2>1, Induction
<1>4. n \in T /\ n <= n
  <2> HIDE DEF T
  <2> QED BY <1>3
<1> QED BY <1>4

(* The running sums are the only ones that obey their equations. *)
AreSums(g, f) == g[0] = 0 /\ \A i \in 1..Len(f) : g[i] = g[i-1] + f[i]

LEMMA UpToUnique ==
    ASSUME NEW f \in Seq(Nat), NEW g, AreSums(g, f), NEW n \in 0..Len(f)
    PROVE  UpTo(f, n) = g[n]
<1> USE DEF AreSums
<1> DEFINE T == {i \in Nat : i <= n => UpTo(f, i) = g[i]}
<1>1. 0 \in T
  BY UpToSteps
<1>2. ASSUME NEW i \in T PROVE i + 1 \in T
  <2> SUFFICES ASSUME i + 1 <= n PROVE UpTo(f, i + 1) = g[i + 1]
    OBVIOUS
  <2>1. UpTo(f, i) = g[i]
    OBVIOUS
  <2>2. i + 1 \in 1..Len(f) /\ (i + 1) - 1 = i
    OBVIOUS
  <2>3. UpTo(f, i + 1) = UpTo(f, i) + f[i + 1]
    BY <2>2, UpToSteps
  <2>4. g[i + 1] = g[i] + f[i + 1]
    BY <2>2
  <2> QED BY <2>1, <2>3, <2>4
<1>3. T = Nat
  <2> HIDE DEF T
  <2>1. T \in SUBSET Nat
    BY DEF T
  <2> QED BY <1>1, <1>2, <2>1, Induction
<1>4. n \in T /\ n <= n
  <2> HIDE DEF T
  <2> QED BY <1>3
<1> QED BY <1>4

LEMMA UpToSum ==
    ASSUME NEW f \in Seq(Nat), NEW g \in Seq(Nat), NEW h \in Seq(Nat),
           Len(g) = Len(f), Len(h) = Len(f), \A i \in 1..Len(f) : f[i] = g[i] + h[i],
           NEW n \in 0..Len(f)
    PROVE  UpTo(f, n) = UpTo(g, n) + UpTo(h, n)
<1> DEFINE sums == [i \in 0..Len(f) |-> UpTo(g, i) + UpTo(h, i)]
<1>1. /\ \A i \in 0..Len(f) : UpTo(g, i) \in Nat /\ UpTo(h, i) \in Nat
      /\ UpTo(g, 0) = 0 /\ UpTo(h, 0) = 0
      /\ \A i \in 1..Len(f) : /\ UpTo(g, i) = UpTo(g, i-1) + g[i]
                              /\ UpTo(h, i) = UpTo(h, i-1) + h[i]
  BY UpToSteps
<1>2. sums[0] = 0 /\ sums[n] = UpTo(g, n) + UpTo(h, n)
  BY <1>1
<1>3. ASSUME NEW i \in 1..Len(f) PROVE sums[i] = sums[i-1] + f[i]
  <2>1. i - 1 \in 0..Len(f) /\ i \in 0..Len(f) /\ g[i] \in Nat /\ h[i] \in Nat
    BY SMTT(30)
  <2>2. sums[i] = UpTo(g, i) + UpTo(h, i) /\ sums[i-1] = UpTo(g, i-1) + UpTo(h, i-1)
    BY <2>1
  <2> DEFINE x == UpTo(g, i-1)
  <2> DEFINE y == UpTo(h, i-1)
  <2> DEFINE u == g[i]
  <2> DEFINE v == h[i]
  <2>3. x \in Nat /\ y \in Nat /\ u \in Nat /\ v \in Nat
    BY <1>1, <2>1
  <2>4. UpTo(g, i) = x + u /\ UpTo(h, i) = y + v /\ f[i] = u + v
    BY <1>1
  <2>5. sums[i-1] = x + y
    BY <2>2
  <2> HIDE DEF sums, x, y, u, v
  <2>6. sums[i] = (x + u) + (y + v)
    BY <2>2, <2>4
  <2> QED BY <2>3, <2>4, <2>5, <2>6
<1>4. AreSums(sums, f)
  BY <1>2, <1>3 DEF AreSums
<1> HIDE DEF sums
<1> QED BY <1>2, <1>4, UpToUnique

LEMMA UpToTimes ==
    ASSUME NEW f \in Seq(Nat), NEW g \in Seq(Nat), NEW a \in Nat,
           Len(g) = Len(f), \A i \in 1..Len(f) : f[i] = a * g[i],
           NEW n \in 0..Len(f)
    PROVE  UpTo(f, n) = a * UpTo(g, n)
<1> DEFINE sums == [i \in 0..Len(f) |-> a * UpTo(g, i)]
<1>1. /\ \A i \in 0..Len(f) : UpTo(g, i) \in Nat
      /\ UpTo(g, 0) = 0
      /\ \A i \in 1..Len(f) : UpTo(g, i) = UpTo(g, i-1) + g[i]
  BY UpToSteps
<1>2. sums[0] = 0 /\ sums[n] = a * UpTo(g, n)
  BY <1>1
<1>3. ASSUME NEW i \in 1..Len(f) PROVE sums[i] = sums[i-1] + f[i]
  <2>1. i - 1 \in 0..Len(f) /\ i \in 0..Len(f) /\ g[i] \in Nat
    OBVIOUS
  <2>2. sums[i] = a * UpTo(g, i) /\ sums[i-1] = a * UpTo(g, i-1)
    BY <2>1
  <2> DEFINE x == UpTo(g, i-1)
  <2> DEFINE y == g[i]
  <2>3. x \in Nat /\ y \in Nat /\ UpTo(g, i) = x + y /\ f[i] = a * y
    BY <1>1, <2>1
  <2> HIDE DEF sums, x, y
  <2>4. a * (x + y) = a * x + a * y
    BY <2>3
  <2> QED BY <2>2, <2>3, <2>4 DEF x
<1>4. AreSums(sums, f)
  BY <1>2, <1>3 DEF AreSums
<1> HIDE DEF sums
<1> QED BY <1>2, <1>4, UpToUnique

LEMMA UpToZeros ==
    ASSUME NEW f \in Seq(Nat), \A i \in 1..Len(f) : f[i] = 0, NEW n \in 0..Len(f)
    PROVE  UpTo(f, n) = 0
<1> DEFINE sums == [i \in 0..Len(f) |-> 0]
<1>1. AreSums(sums, f) /\ sums[n] = 0
  BY DEF AreSums
<1> HIDE DEF sums
<1> QED BY <1>1, UpToUnique

(* A function on the first numbers is a sequence. *)
LEMMA OfLength ==
    ASSUME NEW n \in Nat, NEW S, NEW f \in [1..n -> S]
    PROVE  f \in Seq(S) /\ Len(f) = n
  OBVIOUS

(* A sum of smaller numbers is smaller. *)
LEMMA UpToBelow ==
    ASSUME NEW f \in Seq(Nat), NEW g \in Seq(Nat), Len(g) = Len(f),
           \A i \in 1..Len(f) : f[i] <= g[i], NEW n \in 0..Len(f)
    PROVE  UpTo(f, n) <= UpTo(g, n)
<1>1. PICK m \in Nat : m = Len(f)
  OBVIOUS
<1> DEFINE d == [i \in 1..m |-> g[i] - f[i]]
<1>2. ASSUME NEW i \in 1..m PROVE g[i] - f[i] \in Nat /\ g[i] = f[i] + (g[i] - f[i])
  BY <1>1
<1>3. d \in [1..m -> Nat] /\ \A i \in 1..m : g[i] = f[i] + d[i]
  BY <1>2
<1> HIDE DEF d
<1>4. d \in Seq(Nat) /\ Len(d) = m
  BY <1>3, OfLength
<1>5. UpTo(g, n) = UpTo(f, n) + UpTo(d, n)
  <2>1. /\ \A i \in 1..Len(g) : g[i] = f[i] + d[i]
        /\ Len(f) = Len(g) /\ Len(d) = Len(g) /\ n \in 0..Len(g)
    BY <1>1, <1>3, <1>4
  <2> QED BY <1>4, <2>1, UpToSum
<1>6. UpTo(f, n) \in Nat /\ UpTo(d, n) \in Nat
  BY <1>1, <1>4, UpToSteps
<1> QED BY <1>5, <1>6

(* A sum of ones and zeros counts the ones. *)
LEMMA UpToCounts ==
    ASSUME NEW f \in Seq(Nat), NEW T \in SUBSET (1..Len(f)),
           \A i \in 1..Len(f) : f[i] = IF i \in T THEN 1 ELSE 0
    PROVE  Total(f) = Cardinality(T)
<1> DEFINE n == Len(f)
<1> DEFINE sums == [i \in 0..n |-> Cardinality(T \cap (1..i))]
<1>1. n \in Nat
  OBVIOUS
<1>2. ASSUME NEW i \in 0..n
      PROVE  IsFiniteSet(T \cap (1..i)) /\ Cardinality(T \cap (1..i)) \in Nat
  <2>1. IsFiniteSet(1..i)
    <3>1. 1 \in Int /\ i \in Int
      OBVIOUS
    <3> QED BY <3>1, FS_Interval
  <2>2. T \cap (1..i) \in SUBSET (1..i)
    OBVIOUS
  <2>3. IsFiniteSet(T \cap (1..i))
    BY <2>1, <2>2, FS_Subset
  <2> QED BY <2>3, FS_CardinalityType
<1>3. sums[0] = 0
  <2>1. T \cap (1..0) = {}
    OBVIOUS
  <2> QED BY <1>1, <2>1, FS_EmptySet
<1>4. ASSUME NEW i \in 1..n PROVE sums[i] = sums[i-1] + f[i]
  <2> DEFINE A == T \cap (1..(i-1))
  <2>1. i - 1 \in 0..n /\ i \in 0..n /\ i \notin A
    OBVIOUS
  <2>2. sums[i] = Cardinality(T \cap (1..i)) /\ sums[i-1] = Cardinality(A)
    BY <2>1
  <2>3. IsFiniteSet(A) /\ Cardinality(A) \in Nat
    BY <1>2, <2>1
  <2>4. T \cap (1..i) = IF i \in T THEN A \cup {i} ELSE A
    BY <2>1
  <2> HIDE DEF A, sums
  <2>5. Cardinality(A \cup {i}) = Cardinality(A) + 1
    BY <2>1, <2>3, FS_AddElement
  <2>6. CASE i \in T
    BY <2>2, <2>4, <2>5, <2>6
  <2>7. CASE i \notin T
    <3>1. f[i] = 0
      BY <2>7
    <3>2. sums[i] = Cardinality(A)
      BY <2>2, <2>4, <2>7
    <3> QED BY <2>2, <2>3, <3>1, <3>2
  <2> QED BY <2>6, <2>7
<1>5. AreSums(sums, f)
  BY <1>3, <1>4 DEF AreSums
<1>6. sums[n] = Cardinality(T)
  <2>1. n \in 0..n
    BY <1>1
  <2>2. sums[n] = Cardinality(T \cap (1..n))
    BY <2>1
  <2>3. T \cap (1..n) = T
    OBVIOUS
  <2> QED BY <2>2, <2>3
<1> HIDE DEF sums
<1>7. UpTo(f, n) = sums[n]
  <2>1. n \in 0..Len(f)
    BY <1>1
  <2> QED BY <1>5, <2>1, UpToUnique
<1> QED BY <1>6, <1>7 DEF Total

-----------------------------------------------------------------------------
(* A finite set whose elements have different ranks can be put in order, and *)
(* a list that is in order has each of them once.                            *)
InOrder(s, n, rank) == \A i, j \in 1..n : i < j => rank[s[i]] < rank[s[j]]

LEMMA Sortable ==
    ASSUME NEW S, IsFiniteSet(S), NEW rank \in [S -> Nat],
           \A x, y \in S : rank[x] = rank[y] => x = y
    PROVE  \E s \in [1..Cardinality(S) -> S] : InOrder(s, Cardinality(S), rank)
<1> DEFINE P(n) == \A U \in SUBSET S : IsFiniteSet(U) /\ Cardinality(U) = n =>
                       \E s \in [1..n -> U] : InOrder(s, n, rank)
<1> DEFINE T == {n \in Nat : P(n)}
<1>1. 0 \in T
  <2> DEFINE none(U) == [i \in 1..0 |-> CHOOSE x \in U : TRUE]
  <2>1. \A U : none(U) \in [1..0 -> U] /\ InOrder(none(U), 0, rank)
    BY DEF InOrder
  <2> HIDE DEF none
  <2> QED BY <2>1
<1>2. ASSUME NEW n \in T PROVE n + 1 \in T
  <2> SUFFICES ASSUME NEW U \in SUBSET S, IsFiniteSet(U), Cardinality(U) = n + 1
               PROVE  \E s \in [1..(n+1) -> U] : InOrder(s, n + 1, rank)
    OBVIOUS
  <2>0. n \in Nat /\ P(n)
    OBVIOUS
  <2>1. U # {}
    <3>1. n + 1 # 0
      BY <2>0
    <3> QED BY <3>1, FS_EmptySet
  <2> DEFINE R == {rank[x] : x \in U}
  <2>2. PICK least \in R : \A r \in R : least <= r
    <3>1. R \in SUBSET Nat /\ R # {}
      BY <2>1
    <3> HIDE DEF R
    <3> QED BY <3>1, LeastElement
  <2>3. PICK m \in U : \A x \in U : rank[m] <= rank[x]
    BY <2>2
  <2> DEFINE V == U \ {m}
  <2>4. IsFiniteSet(V) /\ Cardinality(V) = n
    <3>1. IsFiniteSet(V) /\ Cardinality(V) = Cardinality(U) - 1
      BY <2>3, FS_RemoveElement
    <3> QED BY <2>0, <3>1
  <2>5. PICK s \in [1..n -> V] : InOrder(s, n, rank)
    BY <2>0, <2>4
  <2> DEFINE t == [i \in 1..(n+1) |-> IF i = 1 THEN m ELSE s[i-1]]
  <2>6. t[1] = m /\ \A i \in 2..(n+1) : i - 1 \in 1..n /\ t[i] = s[i-1]
    BY <2>0
  <2>7. t \in [1..(n+1) -> U]
    <3>1. ASSUME NEW i \in 1..(n+1) PROVE t[i] \in U
      <4>1. CASE i = 1
        BY <2>6, <4>1
      <4>2. CASE i \in 2..(n+1)
        BY <2>6, <4>2
      <4>3. i = 1 \/ i \in 2..(n+1)
        BY <2>0
      <4> QED BY <4>1, <4>2, <4>3
    <3> QED BY <3>1
  <2> HIDE DEF t, V, P, T, R
  <2>8. ASSUME NEW i \in 1..(n+1), NEW j \in 1..(n+1), i < j
        PROVE  rank[t[i]] < rank[t[j]]
    <3>1. j \in 2..(n+1)
      BY <2>0, <2>8
    <3>2. t[j] = s[j-1] /\ j - 1 \in 1..n /\ s[j-1] \in V
      BY <2>6, <3>1
    <3>3. CASE i = 1
      <4>1. t[i] = m /\ t[j] \in U /\ t[j] # m
        BY <2>6, <3>2, <3>3 DEF V
      <4>2. rank[m] \in Nat /\ rank[t[j]] \in Nat /\ rank[m] # rank[t[j]]
        BY <4>1
      <4> QED BY <2>3, <4>1, <4>2
    <3>4. CASE i \in 2..(n+1)
      <4>1. t[i] = s[i-1] /\ i - 1 \in 1..n
        BY <2>6, <3>4
      <4>2. i - 1 < j - 1
        BY <2>0, <2>8
      <4> QED BY <2>5, <3>2, <4>1, <4>2 DEF InOrder
    <3>5. i = 1 \/ i \in 2..(n+1)
      BY <2>0
    <3> QED BY <3>3, <3>4, <3>5
  <2>9. InOrder(t, n + 1, rank)
    BY <2>8 DEF InOrder
  <2> QED BY <2>7, <2>9
<1>3. T = Nat
  <2> HIDE DEF T
  <2>1. T \in SUBSET Nat
    BY DEF T
  <2> QED BY <1>1, <1>2, <2>1, Induction
<1>4. Cardinality(S) \in Nat
  BY FS_CardinalityType
<1>5. P(Cardinality(S))
  <2> HIDE DEF P
  <2>1. Cardinality(S) \in T
    BY <1>3, <1>4
  <2> QED BY <2>1
<1> QED BY <1>5

LEMMA OrderedIsOnto ==
    ASSUME NEW S, IsFiniteSet(S), NEW rank \in [S -> Nat],
           NEW s \in [1..Cardinality(S) -> S], InOrder(s, Cardinality(S), rank)
    PROVE  /\ \A i, j \in 1..Cardinality(S) : i # j => s[i] # s[j]
           /\ \A x \in S : \E i \in 1..Cardinality(S) : s[i] = x
<1> DEFINE n == Cardinality(S)
<1>1. n \in Nat
  BY FS_CardinalityType
<1>2. ASSUME NEW i \in 1..n, NEW j \in 1..n, i < j PROVE s[i] # s[j]
  <2>1. rank[s[i]] \in Nat /\ rank[s[i]] < rank[s[j]]
    BY <1>2 DEF InOrder
  <2> QED BY <2>1
<1>3. ASSUME NEW i \in 1..n, NEW j \in 1..n, i # j PROVE s[i] # s[j]
  <2>1. i < j \/ j < i
    BY <1>1, <1>3
  <2> HIDE DEF n
  <2> QED BY <1>2, <2>1
<1>4. s \in Injection(1..n, S)
  BY <1>3 DEF Injection, IsInjective
<1>5. Cardinality(1..n) = n
  <2>1. 1 \in Int /\ n \in Int /\ (1 > n => n = 0)
    BY <1>1
  <2>2. Cardinality(1..n) = IF 1 > n THEN 0 ELSE n - 1 + 1
    BY <2>1, FS_Interval
  <2> HIDE DEF n
  <2> QED BY <1>1, <2>1, <2>2
<1>6. s \in Surjection(1..n, S)
  BY <1>4, <1>5, FS_Injection
<1> QED BY <1>3, <1>6 DEF Surjection

-----------------------------------------------------------------------------
(* Vec::retain. *)
LEMMA SiftSteps ==
    ASSUME NEW S, NEW s \in Seq(S), NEW keep
    PROVE  \E sift \in [0..Len(s) -> Seq(S)] :
             /\ Sift(s, keep) = sift[Len(s)]
             /\ sift[0] = <<>>
             /\ \A i \in 1..Len(s) :
                  sift[i] = IF s[i] \in keep THEN Append(sift[i-1], s[i]) ELSE sift[i-1]
<1> DEFINE n == Len(s)
<1> DEFINE step == [p \in (1..n) \X Seq(S) |->
                        IF s[p[1]] \in keep THEN Append(p[2], s[p[1]]) ELSE p[2]]
<1> DEFINE IsSift(g) ==
        g = [i \in 0..n |-> IF i = 0 THEN <<>>
                            ELSE IF s[i] \in keep THEN Append(g[i-1], s[i]) ELSE g[i-1]]
<1> DEFINE sift == CHOOSE g : IsSift(g)
<1>1. n \in Nat /\ <<>> \in Seq(S) /\ step \in Steps(n, Seq(S))
  BY DEF Steps
<1>2. \E g : IsRecursion(g, n, Seq(S), <<>>, step)
  <2> HIDE DEF step, n
  <2> QED BY <1>1, Recursion, Zenon
<1>3. PICK g \in [0..n -> Seq(S)] :
          g[0] = <<>> /\ \A k \in 1..n : g[k] = step[<<k, g[k-1]>>]
  BY <1>2 DEF IsRecursion
<1>4. IsSift(g)
  <2>1. ASSUME NEW k \in 1..n
        PROVE  g[k] = IF s[k] \in keep THEN Append(g[k-1], s[k]) ELSE g[k-1]
    <3>1. k - 1 \in 0..n /\ g[k-1] \in Seq(S)
      OBVIOUS
    <3>2. step[<<k, g[k-1]>>] = IF s[k] \in keep THEN Append(g[k-1], s[k]) ELSE g[k-1]
      BY <3>1
    <3> HIDE DEF step
    <3> QED BY <1>3, <3>2
  <2>2. \A k \in 0..n : g[k] = IF k = 0 THEN <<>>
                               ELSE IF s[k] \in keep THEN Append(g[k-1], s[k]) ELSE g[k-1]
    <3> HIDE DEF step, sift, IsSift, n
    <3>1. ASSUME NEW k \in 0..n, k # 0 PROVE k \in 1..n
      BY <1>1, <3>1
    <3> QED BY <1>3, <2>1, <3>1
  <2> HIDE DEF step, n
  <2> QED BY <1>3, <2>2
<1>5. IsSift(sift)
  <2> HIDE DEF IsSift
  <2> QED BY <1>4
<1>6. Sift(s, keep) = sift[n]
  BY DEF Sift
<1>7. \A i \in 0..n : sift[i] = IF i = 0 THEN <<>>
                                ELSE IF s[i] \in keep THEN Append(sift[i-1], s[i])
                                ELSE sift[i-1]
  <2> HIDE DEF sift
  <2> QED BY <1>5
<1>8. DOMAIN sift = 0..n /\ sift = [i \in 0..n |-> sift[i]]
  <2> HIDE DEF sift
  <2> QED BY <1>5
<1> HIDE DEF sift
<1>9. \A i \in 0..n : sift[i] = g[i]
  <2> DEFINE T == {i \in Nat : i <= n => sift[i] = g[i]}
  <2>1. 0 \in T
    BY <1>3, <1>7
  <2>2. ASSUME NEW i \in T PROVE i + 1 \in T
    <3> SUFFICES ASSUME i + 1 <= n PROVE sift[i+1] = g[i+1]
      OBVIOUS
    <3>1. i + 1 \in 0..n /\ i + 1 # 0 /\ (i + 1) - 1 = i /\ sift[i] = g[i]
      BY <1>1
    <3>2. sift[i+1] = IF s[i+1] \in keep THEN Append(sift[i], s[i+1]) ELSE sift[i]
      BY <1>7, <3>1
    <3>3. g[i+1] = IF s[i+1] \in keep THEN Append(g[i], s[i+1]) ELSE g[i]
      <4>1. \A j \in 0..n : g[j] = IF j = 0 THEN <<>>
                                   ELSE IF s[j] \in keep THEN Append(g[j-1], s[j])
                                   ELSE g[j-1]
        BY <1>4
      <4> QED BY <3>1, <4>1
    <3> QED BY <3>1, <3>2, <3>3
  <2>3. T = Nat
    <3> HIDE DEF T
    <3>1. T \in SUBSET Nat
      BY DEF T
    <3> QED BY <2>1, <2>2, <3>1, Induction
  <2> QED BY <2>3
<1>10. sift \in [0..n -> Seq(S)]
  BY <1>8, <1>9
<1>11. sift[0] = <<>> /\ \A i \in 1..n :
           sift[i] = IF s[i] \in keep THEN Append(sift[i-1], s[i]) ELSE sift[i-1]
  BY <1>1, <1>7
<1> QED BY <1>6, <1>10, <1>11

(* What is kept are the elements to keep, in the order in which they were:   *)
(* pos says where each of them was.                                          *)
Kept(s, keep, r, n, pos) ==
    /\ pos \in [1..Len(r) -> 1..n]
    /\ \A k \in 1..Len(r) : r[k] = s[pos[k]] /\ s[pos[k]] \in keep
    /\ \A k, l \in 1..Len(r) : k < l => pos[k] < pos[l]
    /\ \A i \in 1..n : s[i] \in keep => \E k \in 1..Len(r) : pos[k] = i

LEMMA SiftKeeps ==
    ASSUME NEW S, NEW s \in Seq(S), NEW keep
    PROVE  /\ Sift(s, keep) \in Seq(S)
           /\ \E pos : Kept(s, keep, Sift(s, keep), Len(s), pos)
<1> DEFINE n == Len(s)
<1>1. PICK sift \in [0..n -> Seq(S)] :
         /\ Sift(s, keep) = sift[n]
         /\ sift[0] = <<>>
         /\ \A i \in 1..n :
              sift[i] = IF s[i] \in keep THEN Append(sift[i-1], s[i]) ELSE sift[i-1]
  BY SiftSteps, SMTT(30)
<1> DEFINE T == {i \in Nat : i <= n => \E pos : Kept(s, keep, sift[i], i, pos)}
<1>2. 0 \in T
  <2> DEFINE none == [k \in 1..0 |-> 1]
  <2>1. Kept(s, keep, <<>>, 0, none)
    BY DEF Kept
  <2> HIDE DEF none
  <2> QED BY <1>1, <2>1
<1>3. ASSUME NEW i \in T PROVE i + 1 \in T
  <2> SUFFICES ASSUME i + 1 <= n PROVE \E pos : Kept(s, keep, sift[i+1], i + 1, pos)
    OBVIOUS
  <2>1. PICK pos : Kept(s, keep, sift[i], i, pos)
    OBVIOUS
  <2>2. i + 1 \in 1..n /\ (i + 1) - 1 = i /\ i \in 0..n /\ sift[i] \in Seq(S)
        /\ s[i+1] \in S /\ n \in Nat /\ i \in Nat
    OBVIOUS
  <2>3. sift[i+1] = IF s[i+1] \in keep THEN Append(sift[i], s[i+1]) ELSE sift[i]
    BY <1>1, <2>2
  <2> DEFINE r == sift[i]
  <2> HIDE DEF r, T, n
  <2>4. CASE s[i+1] \notin keep
    <3>1. Kept(s, keep, r, i + 1, pos)
      <4>1. pos \in [1..Len(r) -> 1..(i+1)]
        BY <2>1, <2>2 DEF Kept, r
      <4>2. ASSUME NEW j \in 1..(i+1), s[j] \in keep
            PROVE  \E k \in 1..Len(r) : pos[k] = j
        <5>1. j # i + 1
          BY <2>4, <4>2
        <5>2. j \in 1..i
          BY <2>2, <5>1
        <5> QED BY <2>1, <4>2, <5>2 DEF Kept, r
      <4> QED BY <2>1, <4>1, <4>2 DEF Kept, r
    <3> QED BY <2>3, <2>4, <3>1 DEF r
  <2>5. CASE s[i+1] \in keep
    <3> DEFINE r1 == Append(r, s[i+1])
    <3> DEFINE pos1 == [k \in 1..(Len(r) + 1) |-> IF k <= Len(r) THEN pos[k] ELSE i + 1]
    <3>1. r \in Seq(S) /\ Len(r) \in Nat /\ pos \in [1..Len(r) -> 1..i]
      BY <2>1, <2>2 DEF Kept, r
    <3>2. /\ Len(r1) = Len(r) + 1 /\ r1[Len(r) + 1] = s[i+1]
          /\ \A k \in 1..Len(r) : r1[k] = r[k]
      BY <2>2, <3>1
    <3> HIDE DEF r1
    <3>3. pos1 \in [1..Len(r1) -> 1..(i+1)]
      BY <2>2, <3>1, <3>2
    <3>4. pos1[Len(r) + 1] = i + 1 /\ \A k \in 1..Len(r) : pos1[k] = pos[k]
      BY <3>1
    <3> HIDE DEF pos1
    <3>5. ASSUME NEW k \in 1..Len(r1)
          PROVE  r1[k] = s[pos1[k]] /\ s[pos1[k]] \in keep
      <4>1. CASE k = Len(r) + 1
        BY <2>5, <3>2, <3>4, <4>1
      <4>2. CASE k \in 1..Len(r)
        BY <2>1, <3>2, <3>4, <4>2 DEF Kept, r
      <4> QED BY <3>1, <3>2, <4>1, <4>2
    <3>6. ASSUME NEW k \in 1..Len(r1), NEW l \in 1..Len(r1), k < l
          PROVE  pos1[k] < pos1[l]
      <4>1. k \in 1..Len(r)
        BY <3>1, <3>2, <3>6
      <4>2. CASE l = Len(r) + 1
        <5>1. pos1[k] \in 1..i /\ pos1[l] = i + 1
          BY <3>1, <3>4, <4>1, <4>2
        <5> QED BY <2>2, <5>1
      <4>3. CASE l \in 1..Len(r)
        <5>1. pos[k] < pos[l]
          BY <2>1, <3>6, <4>1, <4>3 DEF Kept, r
        <5> QED BY <3>4, <4>1, <4>3, <5>1
      <4>4. l = Len(r) + 1 \/ l \in 1..Len(r)
        <5>1. Len(r) \in Nat /\ Len(r1) = Len(r) + 1
          BY <3>1, <3>2
        <5> QED BY <5>1
      <4> QED BY <4>2, <4>3, <4>4
    <3>7. ASSUME NEW j \in 1..(i+1), s[j] \in keep
          PROVE  \E k \in 1..Len(r1) : pos1[k] = j
      <4>1. CASE j = i + 1
        BY <3>1, <3>2, <3>4, <4>1
      <4>2. CASE j \in 1..i
        <5>1. PICK k \in 1..Len(r) : pos[k] = j
          BY <2>1, <3>7, <4>2 DEF Kept, r
        <5>2. k \in 1..Len(r1)
          BY <3>1, <3>2
        <5> QED BY <3>4, <5>1, <5>2
      <4> QED BY <2>2, <4>1, <4>2
    <3>8. Kept(s, keep, r1, i + 1, pos1)
      BY <3>3, <3>5, <3>6, <3>7 DEF Kept
    <3> QED BY <2>3, <2>5, <3>8 DEF r, r1
  <2> QED BY <2>4, <2>5
<1>4. T = Nat
  <2> HIDE DEF T
  <2>1. T \in SUBSET Nat
    BY DEF T
  <2> QED BY <1>2, <1>3, <2>1, Induction
<1>5. n \in T /\ n <= n /\ n \in 0..n
  <2>1. n \in Nat
    OBVIOUS
  <2> HIDE DEF T, n
  <2> QED BY <1>4, <2>1
<1>6. \E pos : Kept(s, keep, sift[n], n, pos)
  BY <1>5
<1> QED BY <1>1, <1>5, <1>6

-----------------------------------------------------------------------------
(* Slices: SubSeq(s, a + 1, b) has what s has behind a and up to b.          *)
LEMMA SliceProperties ==
    ASSUME NEW S, NEW s \in Seq(S), NEW a \in 0..Len(s), NEW b \in a..Len(s)
    PROVE  /\ SubSeq(s, a + 1, b) \in Seq(S)
           /\ Len(SubSeq(s, a + 1, b)) = b - a
           /\ \A i \in 1..(b - a) : SubSeq(s, a + 1, b)[i] = s[a + i]
<1>1. a + 1 \in Int /\ b \in Int /\ \A i \in (a + 1)..b : s[i] \in S
  <2>1. \A i \in (a + 1)..b : i \in 1..Len(s)
    OBVIOUS
  <2> QED BY <2>1, ElementOfSeq
<1>2. /\ SubSeq(s, a + 1, b) \in Seq(S)
      /\ Len(SubSeq(s, a + 1, b)) = IF a + 1 <= b THEN b - (a + 1) + 1 ELSE 0
      /\ \A i \in 1..(b - (a + 1) + 1) : SubSeq(s, a + 1, b)[i] = s[(a + 1) + i - 1]
  BY <1>1, SubSeqProperties
<1>3. b - (a + 1) + 1 = b - a /\ \A i \in Int : (a + 1) + i - 1 = a + i
  OBVIOUS
<1>4. (IF a + 1 <= b THEN b - (a + 1) + 1 ELSE 0) = b - a
  OBVIOUS
<1>5. \A i \in 1..(b - a) : SubSeq(s, a + 1, b)[i] = s[a + i]
  BY <1>2, <1>3
<1> QED BY <1>2, <1>4, <1>5

LEMMA SliceOfSlice ==
    ASSUME NEW S, NEW s \in Seq(S), NEW a \in 0..Len(s), NEW b \in a..Len(s),
           NEW c \in 0..(b - a), NEW d \in c..(b - a)
    PROVE  SubSeq(SubSeq(s, a + 1, b), c + 1, d) = SubSeq(s, (a + c) + 1, a + d)
<1> DEFINE t == SubSeq(s, a + 1, b)
<1>1. t \in Seq(S) /\ Len(t) = b - a /\ \A i \in 1..(b - a) : t[i] = s[a + i]
  BY SliceProperties
<1> HIDE DEF t
<1>2. c \in 0..Len(t) /\ d \in c..Len(t) /\ a + c \in 0..Len(s) /\ a + d \in (a + c)..Len(s)
  BY <1>1
<1> DEFINE u == SubSeq(t, c + 1, d)
<1> DEFINE v == SubSeq(s, (a + c) + 1, a + d)
<1>3. u \in Seq(S) /\ Len(u) = d - c /\ \A i \in 1..(d - c) : u[i] = t[c + i]
  BY <1>1, <1>2, SliceProperties
<1>4. /\ v \in Seq(S) /\ Len(v) = (a + d) - (a + c)
      /\ \A i \in 1..((a + d) - (a + c)) : v[i] = s[(a + c) + i]
  BY <1>2, SliceProperties
<1> HIDE DEF u, v
<1>5. (a + d) - (a + c) = d - c
  OBVIOUS
<1>6. ASSUME NEW i \in 1..(d - c) PROVE u[i] = v[i]
  <2>1. c + i \in 1..(b - a) /\ a + (c + i) = (a + c) + i
    OBVIOUS
  <2> QED BY <1>1, <1>3, <1>4, <1>5, <2>1
<1>7. u = v
  BY <1>3, <1>4, <1>5, <1>6, SeqEqual
<1> QED BY <1>7 DEF t, u, v

LEMMA SliceJoin ==
    ASSUME NEW S, NEW s \in Seq(S), NEW a \in 0..Len(s), NEW b \in a..Len(s),
           NEW c \in b..Len(s)
    PROVE  SubSeq(s, a + 1, b) \o SubSeq(s, b + 1, c) = SubSeq(s, a + 1, c)
<1>1. a + 1 \in 1..(Len(s) + 1) /\ b \in ((a + 1) - 1)..Len(s) /\ c \in b..Len(s)
  OBVIOUS
<1> QED BY <1>1, ConcatAdjacentSubSeq

LEMMA SliceOfConcat ==
    ASSUME NEW S, NEW s \in Seq(S), NEW t \in Seq(S), NEW a \in 0..Len(s), NEW b \in a..Len(s)
    PROVE  SubSeq(s \o t, a + 1, b) = SubSeq(s, a + 1, b)
<1> DEFINE r == s \o t
<1>1. r \in Seq(S) /\ Len(r) = Len(s) + Len(t) /\ \A i \in 1..Len(s) : r[i] = s[i]
  <2>1. \A i \in 1..Len(s) : i \in 1..(Len(s) + Len(t))
    OBVIOUS
  <2> QED BY <2>1, ConcatProperties
<1> HIDE DEF r
<1>2. a \in 0..Len(r) /\ b \in a..Len(r)
  BY <1>1
<1> DEFINE u == SubSeq(r, a + 1, b)
<1> DEFINE v == SubSeq(s, a + 1, b)
<1>3. u \in Seq(S) /\ Len(u) = b - a /\ \A i \in 1..(b - a) : u[i] = r[a + i]
  BY <1>1, <1>2, SliceProperties
<1>4. v \in Seq(S) /\ Len(v) = b - a /\ \A i \in 1..(b - a) : v[i] = s[a + i]
  BY SliceProperties
<1> HIDE DEF u, v
<1>5. ASSUME NEW i \in 1..(b - a) PROVE u[i] = v[i]
  <2>1. a + i \in 1..Len(s)
    OBVIOUS
  <2> QED BY <1>1, <1>3, <1>4, <2>1
<1>6. u = v
  BY <1>3, <1>4, <1>5, SeqEqual
<1> QED BY <1>6 DEF r, u, v

LEMMA SliceExtended ==
    ASSUME NEW S, NEW s \in Seq(S), NEW t \in Seq(S), NEW a \in 0..Len(s)
    PROVE  SubSeq(s, a + 1, Len(s)) \o t = SubSeq(s \o t, a + 1, Len(s) + Len(t))
<1> DEFINE r == s \o t
<1>1. r \in Seq(S) /\ Len(r) = Len(s) + Len(t)
      /\ \A i \in 1..(Len(s) + Len(t)) : r[i] = IF i <= Len(s) THEN s[i] ELSE t[i - Len(s)]
  BY ConcatProperties
<1> HIDE DEF r
<1>2. Len(s) \in Nat /\ Len(t) \in Nat /\ Len(s) \in a..Len(s)
  OBVIOUS
<1>3. SubSeq(r, a + 1, Len(s)) = SubSeq(s, a + 1, Len(s))
  BY <1>2, SliceOfConcat DEF r
<1>4. SubSeq(r, Len(s) + 1, Len(s) + Len(t)) = t
  <2> DEFINE u == SubSeq(r, Len(s) + 1, Len(s) + Len(t))
  <2>1. Len(s) \in 0..Len(r) /\ Len(s) + Len(t) \in Len(s)..Len(r)
    BY <1>1, <1>2
  <2>2. /\ u \in Seq(S) /\ Len(u) = (Len(s) + Len(t)) - Len(s)
        /\ \A i \in 1..((Len(s) + Len(t)) - Len(s)) : u[i] = r[Len(s) + i]
    BY <1>1, <2>1, SliceProperties
  <2> HIDE DEF u
  <2>3. (Len(s) + Len(t)) - Len(s) = Len(t)
    BY <1>2
  <2>4. ASSUME NEW i \in 1..Len(t) PROVE u[i] = t[i]
    <3>1. Len(s) + i \in 1..(Len(s) + Len(t)) /\ ~(Len(s) + i <= Len(s))
          /\ (Len(s) + i) - Len(s) = i
      BY <1>2
    <3> QED BY <1>1, <2>2, <2>3, <3>1
  <2>5. u = t
    BY <2>2, <2>3, <2>4, SeqEqual
  <2> QED BY <2>5 DEF u
<1>5. SubSeq(r, a + 1, Len(s)) \o SubSeq(r, Len(s) + 1, Len(s) + Len(t))
        = SubSeq(r, a + 1, Len(s) + Len(t))
  <2>1. a \in 0..Len(r) /\ Len(s) \in a..Len(r) /\ Len(s) + Len(t) \in Len(s)..Len(r)
    BY <1>1, <1>2
  <2> QED BY <1>1, <2>1, SliceJoin
<1> QED BY <1>3, <1>4, <1>5 DEF r

-----------------------------------------------------------------------------
(* One after the other. *)
AreJoined(g, seqs, n, S) ==
    /\ g \in [0..n -> Seq(S)] /\ g[0] = <<>>
    /\ \A i \in 1..n : g[i] = g[i-1] \o seqs[i]

LEMMA FlattenSteps ==
    ASSUME NEW S, NEW n \in Nat \ {0}, NEW seqs \in [1..n -> Seq(S)]
    PROVE  \E g : AreJoined(g, seqs, n, S) /\ FlattenSeq(seqs) = g[n]
<1> DEFINE step == [p \in (1..n) \X Seq(S) |-> p[2] \o seqs[p[1]]]
<1> DEFINE IsFlat(h) ==
        h = [i \in 1..n |-> IF i = 1 THEN seqs[i] ELSE h[i-1] \o seqs[i]]
<1> DEFINE flat == CHOOSE h : IsFlat(h)
<1>1. n \in Nat /\ <<>> \in Seq(S) /\ step \in Steps(n, Seq(S))
  BY DEF Steps
<1>2. \E g : IsRecursion(g, n, Seq(S), <<>>, step)
  <2> HIDE DEF step
  <2> QED BY <1>1, Recursion, Zenon
<1>3. PICK g \in [0..n -> Seq(S)] :
          g[0] = <<>> /\ \A k \in 1..n : g[k] = step[<<k, g[k-1]>>]
  BY <1>2 DEF IsRecursion
<1>4. \A k \in 1..n : g[k] = g[k-1] \o seqs[k]
  <2> TAKE k \in 1..n
  <2>1. k - 1 \in 0..n /\ g[k-1] \in Seq(S)
    OBVIOUS
  <2>2. step[<<k, g[k-1]>>] = g[k-1] \o seqs[k]
    BY <2>1
  <2> HIDE DEF step
  <2> QED BY <1>3, <2>2
<1> HIDE DEF step
<1> DEFINE h == [i \in 1..n |-> g[i]]
<1>5. IsFlat(h)
  <2>1. ASSUME NEW i \in 1..n
        PROVE  h[i] = IF i = 1 THEN seqs[i] ELSE h[i-1] \o seqs[i]
    <3>1. CASE i = 1
      <4>1. g[1] = <<>> \o seqs[1] /\ <<>> \o seqs[1] = seqs[1]
        <5>1. 1 \in 1..n /\ 1 - 1 = 0 /\ seqs[1] \in Seq(S)
          OBVIOUS
        <5> QED BY <1>3, <1>4, <5>1, ConcatEmptySeq
      <4> QED BY <3>1, <4>1
    <3>2. CASE i # 1
      <4>1. i - 1 \in 1..n
        BY <3>2
      <4> QED BY <1>4, <3>2, <4>1
    <3> QED BY <3>1, <3>2
  <2>2. DOMAIN h = 1..n
    OBVIOUS
  <2>3. h = [i \in 1..n |-> h[i]]
    OBVIOUS
  <2> HIDE DEF h
  <2> QED BY <2>1, <2>2, <2>3
<1>6. IsFlat(flat)
  <2> HIDE DEF IsFlat
  <2> QED BY <1>5
<1>7. FlattenSeq(seqs) = flat[n]
  <2>1. Len(seqs) = n /\ n # 0
    OBVIOUS
  <2> QED BY <2>1 DEF FlattenSeq
<1>8. \A i \in 1..n : flat[i] = IF i = 1 THEN seqs[i] ELSE flat[i-1] \o seqs[i]
  <2> HIDE DEF flat
  <2> QED BY <1>6
<1> HIDE DEF flat
<1>9. \A i \in 1..n : h[i] = IF i = 1 THEN seqs[i] ELSE h[i-1] \o seqs[i]
  <2> HIDE DEF h
  <2> QED BY <1>5
<1>10. \A i \in 1..n : flat[i] = g[i]
  <2> DEFINE T == {i \in Nat : i + 1 <= n => flat[i+1] = h[i+1]}
  <2> HIDE DEF h
  <2>1. 0 \in T
    BY <1>8, <1>9
  <2>2. ASSUME NEW i \in T PROVE i + 1 \in T
    <3> SUFFICES ASSUME (i + 1) + 1 <= n PROVE flat[(i+1)+1] = h[(i+1)+1]
      OBVIOUS
    <3>1. (i + 1) + 1 \in 1..n /\ (i + 1) + 1 # 1 /\ ((i + 1) + 1) - 1 = i + 1
          /\ flat[i+1] = h[i+1]
      OBVIOUS
    <3> DEFINE j == (i + 1) + 1
    <3> HIDE DEF j
    <3>2. flat[j] = flat[j-1] \o seqs[j] /\ h[j] = h[j-1] \o seqs[j]
      <4>1. j \in 1..n /\ j # 1
        BY <3>1 DEF j
      <4> QED BY <4>1, <1>8, <1>9
    <3> QED BY <3>1, <3>2 DEF j
  <2>3. T = Nat
    <3> HIDE DEF T
    <3>1. T \in SUBSET Nat
      BY DEF T
    <3> QED BY <2>1, <2>2, <3>1, Induction
  <2>4. ASSUME NEW i \in 1..n PROVE flat[i] = h[i]
    <3>1. i - 1 \in T /\ (i - 1) + 1 = i
      <4> HIDE DEF T
      <4>1. i - 1 \in Nat /\ (i - 1) + 1 = i
        OBVIOUS
      <4> QED BY <2>3, <4>1
    <3> QED BY <3>1
  <2> QED BY <2>4 DEF h
<1>11. FlattenSeq(seqs) = g[n]
  <2>1. n \in 1..n
    OBVIOUS
  <2> QED BY <1>7, <1>10, <2>1
<1> HIDE DEF IsFlat, h
<1> QED BY <1>3, <1>4, <1>11 DEF AreJoined

-----------------------------------------------------------------------------
(* The elements of a list, and lists that have each of them once.            *)
LEMMA Elements ==
    ASSUME NEW S, NEW s \in Seq(S)
    PROVE  /\ Range(s) \subseteq S
           /\ \A i \in 1..Len(s) : s[i] \in Range(s)
           /\ \A x \in Range(s) : \E i \in 1..Len(s) : s[i] = x
           /\ IsInjective(s) <=> \A i, j \in 1..Len(s) : i # j => s[i] # s[j]
<1>1. DOMAIN s = 1..Len(s) /\ \A i \in 1..Len(s) : s[i] \in S
  OBVIOUS
<1> QED BY <1>1 DEF Range, IsInjective

LEMMA EmptyList ==
    /\ Range(<<>>) = {} /\ IsInjective(<<>>)
    /\ \A x : Range(<<x>>) = {x} /\ IsInjective(<<x>>)
<1>1. Range(<<>>) = {} /\ IsInjective(<<>>)
  BY DEF Range, IsInjective
<1>2. ASSUME NEW x PROVE Range(<<x>>) = {x} /\ IsInjective(<<x>>)
  <2>1. DOMAIN <<x>> = {1} /\ <<x>>[1] = x
    OBVIOUS
  <2> QED BY <2>1 DEF Range, IsInjective
<1> QED BY <1>1, <1>2

LEMMA ConcatElements ==
    ASSUME NEW S, NEW s \in Seq(S), NEW t \in Seq(S)
    PROVE  /\ s \o t \in Seq(S)
           /\ Len(s \o t) = Len(s) + Len(t)
           /\ \A i \in 1..Len(s) : (s \o t)[i] = s[i]
           /\ \A i \in 1..Len(t) : (s \o t)[Len(s) + i] = t[i]
           /\ Range(s \o t) = Range(s) \cup Range(t)
           /\ IsInjective(s) /\ IsInjective(t) /\ Range(s) \cap Range(t) = {}
                => IsInjective(s \o t)
<1> DEFINE r == s \o t
<1>1. /\ r \in Seq(S) /\ Len(r) = Len(s) + Len(t)
      /\ \A i \in 1..(Len(s) + Len(t)) : r[i] = IF i <= Len(s) THEN s[i] ELSE t[i - Len(s)]
  BY ConcatProperties
<1>2. Len(s) \in Nat /\ Len(t) \in Nat
  OBVIOUS
<1> HIDE DEF r
<1>3. ASSUME NEW i \in 1..Len(s) PROVE i \in 1..Len(r) /\ r[i] = s[i]
  BY <1>1, <1>2
<1>4. ASSUME NEW i \in 1..Len(t) PROVE Len(s) + i \in 1..Len(r) /\ r[Len(s) + i] = t[i]
  <2>1. Len(s) + i \in 1..(Len(s) + Len(t)) /\ ~(Len(s) + i <= Len(s)) /\ Len(s) + i - Len(s) = i
    BY <1>2
  <2> QED BY <1>1, <2>1
<1>5. ASSUME NEW i \in 1..Len(r)
      PROVE  i \in 1..Len(s) \/ \E k \in 1..Len(t) : i = Len(s) + k
  <2>1. CASE i <= Len(s)
    BY <1>1, <1>2, <2>1
  <2>2. CASE i > Len(s)
    <3>1. i - Len(s) \in 1..Len(t) /\ i = Len(s) + (i - Len(s))
      BY <1>1, <1>2, <2>2
    <3> QED BY <3>1
  <2> QED BY <1>1, <1>2, <2>1, <2>2
<1>6. Range(r) = Range(s) \cup Range(t)
  <2>1. ASSUME NEW x \in Range(r) PROVE x \in Range(s) \cup Range(t)
    <3>1. PICK i \in 1..Len(r) : r[i] = x
      BY <1>1, Elements
    <3>2. CASE i \in 1..Len(s)
      BY <1>3, <3>1, <3>2, Elements
    <3>3. ASSUME NEW k \in 1..Len(t), i = Len(s) + k PROVE x \in Range(t)
      BY <1>4, <3>1, <3>3, Elements
    <3> QED BY <1>5, <3>2, <3>3
  <2>2. ASSUME NEW x \in Range(s) PROVE x \in Range(r)
    <3>1. PICK i \in 1..Len(s) : s[i] = x
      BY Elements
    <3> QED BY <1>1, <1>3, <3>1, Elements
  <2>3. ASSUME NEW x \in Range(t) PROVE x \in Range(r)
    <3>1. PICK i \in 1..Len(t) : t[i] = x
      BY Elements
    <3> QED BY <1>1, <1>4, <3>1, Elements
  <2> QED BY <2>1, <2>2, <2>3
<1>7. ASSUME IsInjective(s), IsInjective(t), Range(s) \cap Range(t) = {}
      PROVE  IsInjective(r)
  <2>1. ASSUME NEW i \in 1..Len(r), NEW j \in 1..Len(r), i # j PROVE r[i] # r[j]
    <3>1. CASE i \in 1..Len(s) /\ j \in 1..Len(s)
      BY <1>3, <1>7, <2>1, <3>1, Elements
    <3>2. ASSUME NEW k \in 1..Len(t), NEW l \in 1..Len(t), i = Len(s) + k, j = Len(s) + l
          PROVE  r[i] # r[j]
      BY <1>4, <1>7, <2>1, <3>2, Elements
    <3>3. ASSUME NEW m \in 1..Len(s), NEW l \in 1..Len(t) PROVE r[m] # r[Len(s) + l]
      <4>1. r[m] \in Range(s) /\ r[Len(s) + l] \in Range(t)
        BY <1>3, <1>4, Elements
      <4> QED BY <1>7, <4>1
    <3> QED BY <1>5, <3>1, <3>2, <3>3
  <2> QED BY <1>1, <2>1, Elements
<1> QED BY <1>1, <1>3, <1>4, <1>6, <1>7 DEF r

LEMMA FrontElements ==
    ASSUME NEW S, NEW s \in Seq(S), s # <<>>
    PROVE  /\ Front(s) \in Seq(S) /\ Len(Front(s)) = Len(s) - 1
           /\ \A i \in 1..(Len(s) - 1) : Front(s)[i] = s[i]
           /\ Last(s) \in S /\ s = Append(Front(s), Last(s))
           /\ Range(s) = Range(Front(s)) \cup {Last(s)}
           /\ IsInjective(s) => IsInjective(Front(s)) /\ Last(s) \notin Range(Front(s))
<1> DEFINE n == Len(s)
<1> DEFINE f == Front(s)
<1>1. n \in Nat /\ n > 0
  BY EmptySeq
<1>2. f \in Seq(S) /\ Len(f) = n - 1 /\ \A i \in 1..(n - 1) : f[i] = s[i]
  <2>1. 0 \in 0..n /\ n - 1 \in 0..n /\ 0 + 1 = 1 /\ (n - 1) - 0 = n - 1
    BY <1>1
  <2>2. \A i \in Int : 0 + i = i
    OBVIOUS
  <2>3. /\ SubSeq(s, 0 + 1, n - 1) \in Seq(S) /\ Len(SubSeq(s, 0 + 1, n - 1)) = (n - 1) - 0
        /\ \A i \in 1..((n - 1) - 0) : SubSeq(s, 0 + 1, n - 1)[i] = s[0 + i]
    BY <2>1, SliceProperties
  <2> QED BY <2>1, <2>2, <2>3 DEF Front
<1>3. Last(s) \in S /\ Last(s) = s[n]
  BY <1>1 DEF Last
<1> HIDE DEF f
<1>4. s = Append(f, Last(s))
  <2> DEFINE r == Append(f, Last(s))
  <2>1. r \in Seq(S) /\ Len(r) = Len(f) + 1 /\ r[Len(f) + 1] = Last(s)
        /\ \A i \in 1..Len(f) : r[i] = f[i]
    BY <1>2, <1>3
  <2> HIDE DEF r
  <2>2. Len(r) = n
    BY <1>1, <1>2, <2>1
  <2>3. ASSUME NEW i \in 1..n PROVE r[i] = s[i]
    <3>1. CASE i = n
      <4>1. Len(f) + 1 = n
        BY <1>1, <1>2
      <4> QED BY <1>3, <2>1, <3>1, <4>1
    <3>2. CASE i \in 1..(n - 1)
      BY <1>2, <2>1, <3>2
    <3> QED BY <1>1, <3>1, <3>2
  <2>4. r = s
    BY <2>1, <2>2, <2>3, SeqEqual
  <2> QED BY <2>4 DEF r
<1>5. ASSUME NEW i \in 1..n PROVE (i = n /\ s[i] = Last(s)) \/ (i \in 1..Len(f) /\ s[i] = f[i])
  BY <1>1, <1>2, <1>3
<1>6. ASSUME NEW i \in 1..Len(f) PROVE i \in 1..n /\ i # n /\ s[i] = f[i]
  BY <1>1, <1>2
<1>7. Range(s) = Range(f) \cup {Last(s)}
  <2>1. ASSUME NEW x \in Range(s) PROVE x \in Range(f) \cup {Last(s)}
    <3>1. PICK i \in 1..n : s[i] = x
      BY Elements
    <3> QED BY <1>2, <1>5, <3>1, Elements
  <2>2. ASSUME NEW x \in Range(f) PROVE x \in Range(s)
    <3>1. PICK i \in 1..Len(f) : f[i] = x
      BY <1>2, Elements
    <3> QED BY <1>6, <3>1, Elements
  <2>3. Last(s) \in Range(s)
    <3>1. n \in 1..n
      BY <1>1
    <3> QED BY <1>3, <3>1, Elements
  <2> QED BY <2>1, <2>2, <2>3
<1>8. ASSUME IsInjective(s) PROVE IsInjective(f) /\ Last(s) \notin Range(f)
  <2>1. \A i, j \in 1..n : i # j => s[i] # s[j]
    BY <1>8, Elements
  <2>2. ASSUME NEW i \in 1..Len(f), NEW j \in 1..Len(f), i # j PROVE f[i] # f[j]
    BY <1>6, <2>1, <2>2
  <2>3. n \in 1..n
    BY <1>1
  <2>4. ASSUME NEW i \in 1..Len(f) PROVE f[i] # Last(s)
    BY <1>3, <1>6, <2>1, <2>3
  <2> QED BY <1>2, <2>2, <2>4, Elements, SMTT(30)
<1> QED BY <1>2, <1>3, <1>4, <1>7, <1>8 DEF f

LEMMA SiftElements ==
    ASSUME NEW S, NEW s \in Seq(S), NEW keep
    PROVE  /\ Sift(s, keep) \in Seq(S)
           /\ Range(Sift(s, keep)) = Range(s) \cap keep
           /\ IsInjective(s) => IsInjective(Sift(s, keep))
<1> DEFINE r == Sift(s, keep)
<1>1. r \in Seq(S)
  BY SiftKeeps
<1>2. PICK pos : Kept(s, keep, r, Len(s), pos)
  BY SiftKeeps
<1> HIDE DEF r
<1>3. ASSUME NEW k \in 1..Len(r) PROVE pos[k] \in 1..Len(s) /\ r[k] = s[pos[k]] /\ r[k] \in keep
  BY <1>2 DEF Kept
<1>4. Range(r) = Range(s) \cap keep
  <2>1. ASSUME NEW x \in Range(r) PROVE x \in Range(s) \cap keep
    <3>1. PICK k \in 1..Len(r) : r[k] = x
      BY <1>1, Elements
    <3> QED BY <1>3, <3>1, Elements
  <2>2. ASSUME NEW x \in Range(s), x \in keep PROVE x \in Range(r)
    <3>1. PICK i \in 1..Len(s) : s[i] = x
      BY Elements
    <3>2. PICK k \in 1..Len(r) : pos[k] = i
      BY <1>2, <2>2, <3>1 DEF Kept
    <3> QED BY <1>1, <1>3, <3>1, <3>2, Elements
  <2> QED BY <2>1, <2>2
<1>5. ASSUME IsInjective(s) PROVE IsInjective(r)
  <2>1. ASSUME NEW k \in 1..Len(r), NEW l \in 1..Len(r), k # l PROVE r[k] # r[l]
    <3>1. pos[k] # pos[l]
      <4>1. k < l \/ l < k
        BY <1>1, <2>1
      <4>2. pos[k] < pos[l] \/ pos[l] < pos[k]
        BY <1>2, <4>1 DEF Kept
      <4>3. pos[k] \in Int /\ pos[l] \in Int
        BY <1>3
      <4> QED BY <4>2, <4>3
    <3> QED BY <1>3, <1>5, <3>1, Elements
  <2> QED BY <1>1, <2>1, Elements
<1> QED BY <1>1, <1>4, <1>5 DEF r

-----------------------------------------------------------------------------
(* Prefixes.                                                                 *)
LEMMA PrefixIs ==
    ASSUME NEW S, NEW s \in Seq(S), NEW t \in Seq(S)
    PROVE  IsPrefix(s, t) <=> Len(s) <= Len(t) /\ \A i \in 1..Len(s) : s[i] = t[i]
<1>1. CASE Len(s) <= Len(t)
  <2>1. \A i \in Int : 0 + i = i
    OBVIOUS
  <2>2. 0 \in 0..Len(s) /\ Len(s) \in 0..Len(s) /\ 0 + 1 = 1 /\ Len(s) - 0 = Len(s)
        /\ 0 \in 0..Len(t) /\ Len(s) \in 0..Len(t)
    BY <1>1
  <2>3. /\ SubSeq(s, 1, Len(s)) \in Seq(S) /\ Len(SubSeq(s, 1, Len(s))) = Len(s)
        /\ \A i \in 1..Len(s) : SubSeq(s, 1, Len(s))[i] = s[0 + i]
    BY <2>2, SliceProperties
  <2>4. /\ SubSeq(t, 1, Len(s)) \in Seq(S) /\ Len(SubSeq(t, 1, Len(s))) = Len(s)
        /\ \A i \in 1..Len(s) : SubSeq(t, 1, Len(s))[i] = t[0 + i]
    BY <2>2, SliceProperties
  <2>5. ASSUME SubSeq(s, 1, Len(s)) = SubSeq(t, 1, Len(s)), NEW i \in 1..Len(s)
        PROVE  s[i] = t[i]
    BY <2>1, <2>3, <2>4, <2>5
  <2>6. ASSUME \A i \in 1..Len(s) : s[i] = t[i]
        PROVE  SubSeq(s, 1, Len(s)) = SubSeq(t, 1, Len(s))
    <3> DEFINE a == SubSeq(s, 1, Len(s))
    <3> DEFINE b == SubSeq(t, 1, Len(s))
    <3>1. \A i \in 1..Len(s) : a[i] = b[i]
      BY <2>1, <2>3, <2>4, <2>6
    <3>2. a \in Seq(S) /\ b \in Seq(S) /\ Len(a) = Len(s) /\ Len(b) = Len(s)
      BY <2>3, <2>4
    <3> HIDE DEF a, b
    <3>3. a = b
      BY <3>1, <3>2, SeqEqual
    <3> QED BY <3>3 DEF a, b
  <2> QED BY <1>1, <2>5, <2>6 DEF IsPrefix
<1> QED BY <1>1 DEF IsPrefix

LEMMA ConcatAppend ==
    ASSUME NEW S, NEW s \in Seq(S), NEW t \in Seq(S), NEW x \in S
    PROVE  s \o Append(t, x) = Append(s \o t, x)
  OBVIOUS

LEMMA TakeOneMore ==
    ASSUME NEW S, NEW s \in Seq(S), NEW g \in 0..Len(s), g < Len(s)
    PROVE  Append(SubSeq(s, 1, g), s[g + 1]) = SubSeq(s, 1, g + 1) /\ s[g + 1] \in S
<1>1. g + 1 \in 1..Len(s) /\ g + 1 \in 0..Len(s) /\ 0 \in 0..Len(s) /\ g \in Nat
      /\ 0 + 1 = 1 /\ g - 0 = g /\ (g + 1) - 0 = g + 1 /\ \A i \in Int : 0 + i = i
  OBVIOUS
<1> DEFINE x == s[g + 1]
<1> DEFINE w == SubSeq(s, 1, g)
<1> DEFINE u == Append(w, x)
<1> DEFINE v == SubSeq(s, 1, g + 1)
<1>2. x \in S
  BY <1>1
<1>3. w \in Seq(S) /\ Len(w) = g /\ \A i \in 1..g : w[i] = s[i]
  <2>1. /\ SubSeq(s, 0 + 1, g) \in Seq(S) /\ Len(SubSeq(s, 0 + 1, g)) = g - 0
        /\ \A i \in 1..(g - 0) : SubSeq(s, 0 + 1, g)[i] = s[0 + i]
    BY <1>1, SliceProperties
  <2> QED BY <1>1, <2>1
<1>4. v \in Seq(S) /\ Len(v) = g + 1 /\ \A i \in 1..(g + 1) : v[i] = s[i]
  <2>1. /\ SubSeq(s, 0 + 1, g + 1) \in Seq(S)
        /\ Len(SubSeq(s, 0 + 1, g + 1)) = (g + 1) - 0
        /\ \A i \in 1..((g + 1) - 0) : SubSeq(s, 0 + 1, g + 1)[i] = s[0 + i]
    BY <1>1, SliceProperties
  <2> QED BY <1>1, <2>1
<1> HIDE DEF w
<1>5. u \in Seq(S) /\ Len(u) = g + 1 /\ u[g + 1] = x /\ \A i \in 1..g : u[i] = w[i]
  BY <1>2, <1>3
<1> HIDE DEF u, v
<1>6. \A i \in 1..(g + 1) : u[i] = v[i]
  <2>1. \A i \in 1..(g + 1) : i = g + 1 \/ i \in 1..g
    BY <1>1
  <2>2. g + 1 \in 1..(g + 1)
    BY <1>1
  <2> QED BY <1>3, <1>4, <1>5, <2>1, <2>2
<1>7. u = v
  BY <1>4, <1>5, <1>6, SeqEqual
<1> QED BY <1>2, <1>7 DEF u, v, w

(* The first of two parts of a prefix is one, too.                           *)
LEMMA PrefixOfRead ==
    ASSUME NEW a \in Seq(Nat), NEW b \in Seq(Nat), NEW data \in Seq(Nat),
           NEW g \in 0..Len(data), a \o b = SubSeq(data, 1, g)
    PROVE  IsPrefix(a, data) /\ IsPrefix(a \o b, data)
<1> DEFINE w == a \o b
<1>1. /\ w \in Seq(Nat) /\ Len(w) = Len(a) + Len(b)
      /\ \A i \in 1..Len(a) : w[i] = a[i]
  BY ConcatElements
<1>2. Len(w) = g /\ \A i \in 1..g : w[i] = data[i]
  <2>1. 0 \in 0..Len(data) /\ g \in 0..Len(data) /\ 0 + 1 = 1 /\ g - 0 = g
    OBVIOUS
  <2>2. \A i \in Int : 0 + i = i
    OBVIOUS
  <2>3. /\ Len(SubSeq(data, 0 + 1, g)) = g - 0
        /\ \A i \in 1..(g - 0) : SubSeq(data, 0 + 1, g)[i] = data[0 + i]
    BY <2>1, SliceProperties
  <2> QED BY <2>1, <2>2, <2>3
<1> HIDE DEF w
<1>3. Len(a) \in Nat /\ Len(b) \in Nat /\ Len(data) \in Nat /\ g \in Nat /\ g <= Len(data)
  OBVIOUS
<1>4. Len(a) <= Len(data) /\ \A i \in 1..Len(a) : i \in 1..g
  BY <1>1, <1>2, <1>3
<1>5. IsPrefix(a, data)
  BY <1>1, <1>2, <1>4, PrefixIs
<1>6. IsPrefix(w, data)
  BY <1>1, <1>2, <1>3, PrefixIs
<1> QED BY <1>5, <1>6 DEF w
=============================================================================
