----------------------------- MODULE ListProofs -----------------------------
(* Facts about lists that several proofs need: what an arrangement of a     *)
(* finite set is, and what holds of the numbers up to N one after the other *)
(* and of a function that is computed from one to the next.                 *)

EXTENDS Ranking, Sequences, FiniteSetTheorems, TLAPS

\* What comes before x in S.
Below(x, S, before) == {y \in S : <<y, x>> \in before}

\* A rank is a number less than the number of elements.
LEMMA RankType ==
  ASSUME NEW S, IsFiniteSet(S), NEW before, Orders(before, S), NEW x \in S
  PROVE  /\ IsFiniteSet(Below(x, S, before))
         /\ Rank(x, S, before) \in Nat
         /\ Cardinality(S) \in Nat
         /\ Rank(x, S, before) < Cardinality(S)
<1> DEFINE B == Below(x, S, before)
<1>1. B \in SUBSET S /\ x \notin B
  BY DEF Below, Orders
<1>2. IsFiniteSet(B) /\ Cardinality(B) <= Cardinality(S)
      /\ (Cardinality(B) = Cardinality(S) => B = S)
  BY <1>1, FS_Subset
<1>3. Cardinality(B) \in Nat /\ Cardinality(S) \in Nat
  BY <1>2, FS_CardinalityType
<1>4. Rank(x, S, before) = Cardinality(B)
  BY DEF Rank, Below
<1> QED
  BY <1>1, <1>2, <1>3, <1>4

\* Ranks follow the order.
LEMMA RankFollows ==
  ASSUME NEW S, IsFiniteSet(S), NEW before, Orders(before, S),
         NEW x \in S, NEW y \in S, <<x, y>> \in before
  PROVE  Rank(x, S, before) < Rank(y, S, before)
<1> DEFINE A == Below(x, S, before)
           B == Below(y, S, before)
<1>1. A \in SUBSET B
  BY DEF Below, Orders
<1>2. x \in B /\ x \notin A
  BY DEF Below, Orders
<1>3. IsFiniteSet(B) /\ Cardinality(A) \in Nat /\ Cardinality(B) \in Nat
  BY RankType DEF Rank, Below
<1>4. Cardinality(A) <= Cardinality(B) /\ (Cardinality(A) = Cardinality(B) => A = B)
  BY <1>1, <1>3, FS_Subset
<1>5. Cardinality(A) < Cardinality(B)
  BY <1>2, <1>3, <1>4
<1> QED
  BY <1>5 DEF Rank, Below

\* The rank of another element is another one.
LEMMA RankUnique ==
  ASSUME NEW S, IsFiniteSet(S), NEW before, Orders(before, S),
         NEW x \in S, NEW y \in S
  PROVE  /\ Rank(x, S, before) = Rank(y, S, before) => x = y
         /\ Rank(x, S, before) < Rank(y, S, before) => <<x, y>> \in before
<1>1. Rank(x, S, before) \in Nat /\ Rank(y, S, before) \in Nat
  BY RankType
<1>2. x = y \/ <<x, y>> \in before \/ <<y, x>> \in before
  BY DEF Orders
<1>3. <<x, y>> \in before => Rank(x, S, before) < Rank(y, S, before)
  BY RankFollows
<1>4. <<y, x>> \in before => Rank(y, S, before) < Rank(x, S, before)
  BY RankFollows
<1> QED
  BY <1>1, <1>2, <1>3, <1>4

\* Every rank below the number of elements is taken: a step from S to the
\* numbers below that never meets a number twice leaves none out.
LEMMA RankTaken ==
  ASSUME NEW S, IsFiniteSet(S), NEW before, Orders(before, S),
         NEW k \in 1..Cardinality(S)
  PROVE  \E x \in S : Rank(x, S, before) = k - 1
<1> DEFINE n == Cardinality(S)
           ranks == 0..(n - 1)
           f == [x \in S |-> Rank(x, S, before)]
<1>1. n \in Nat
  BY FS_CardinalityType
<1>2. IsFiniteSet(ranks) /\ Cardinality(ranks) = n
  <2>1. 0 \in Int /\ n - 1 \in Int
    BY <1>1
  <2>2. IsFiniteSet(ranks)
        /\ Cardinality(ranks) = IF 0 > n - 1 THEN 0 ELSE (n - 1) - 0 + 1
    BY <2>1, FS_Interval
  <2> HIDE DEF ranks, n
  <2> QED
    BY <1>1, <2>2
<1>3. \A x \in S : Rank(x, S, before) \in ranks
  BY <1>1, RankType
<1>4. f \in [S -> ranks] /\ IsInjective(f)
  <2>1. \A x, y \in S : f[x] = f[y] => x = y
    BY RankUnique
  <2> QED
    BY <1>3, <2>1 DEF IsInjective
<1>5. f \in Injection(S, ranks)
  BY <1>4 DEF Injection
<1>6. f \in Surjection(S, ranks)
  BY <1>2, <1>5, FS_Injection
<1>7. k - 1 \in ranks
  BY <1>1
<1> QED
  BY <1>6, <1>7 DEF Surjection

\* An arrangement has all elements of the set and no others, each once, and
\* in the order.
THEOREM ArrangedInOrder ==
  ASSUME NEW S, IsFiniteSet(S), NEW before, Orders(before, S)
  PROVE  /\ Cardinality(S) \in Nat
         /\ Arranged(S, before) \in [1..Cardinality(S) -> S]
         /\ Arranged(S, before) \in Seq(S)
         /\ Len(Arranged(S, before)) = Cardinality(S)
         /\ \A x \in S : \E k \in 1..Cardinality(S) : Arranged(S, before)[k] = x
         /\ \A i, j \in 1..Cardinality(S) :
               i < j => <<Arranged(S, before)[i], Arranged(S, before)[j]>> \in before
<1> DEFINE n == Cardinality(S)
           a == Arranged(S, before)
<1>1. n \in Nat
  BY FS_CardinalityType
<1>2. a = [k \in 1..n |-> CHOOSE x \in S : Rank(x, S, before) = k - 1]
  BY DEF Arranged
<1>3. \A k \in 1..n : a[k] \in S /\ Rank(a[k], S, before) = k - 1
  BY <1>2, RankTaken
<1>4. a \in [1..n -> S]
  BY <1>2, <1>3
<1> HIDE DEF a
<1>5. a \in Seq(S) /\ Len(a) = n
  BY <1>1, <1>4
<1>6. ASSUME NEW x \in S PROVE \E k \in 1..n : a[k] = x
  <2>1. Rank(x, S, before) \in Nat /\ Rank(x, S, before) < n
    BY RankType
  <2>2. Rank(x, S, before) + 1 \in 1..n
    BY <1>1, <2>1
  <2>3. Rank(a[Rank(x, S, before) + 1], S, before) = Rank(x, S, before)
    BY <1>3, <2>1, <2>2
  <2> QED
    BY <1>3, <2>2, <2>3, RankUnique
<1>7. ASSUME NEW i \in 1..n, NEW j \in 1..n, i < j
      PROVE  <<a[i], a[j]>> \in before
  <2>1. Rank(a[i], S, before) < Rank(a[j], S, before)
    BY <1>3, <1>7
  <2> QED
    BY <1>3, <2>1, RankUnique
<1> QED
  BY <1>1, <1>4, <1>5, <1>6, <1>7 DEF a

\* The element at a place has the rank of the place.
LEMMA ArrangedRank ==
  ASSUME NEW S, IsFiniteSet(S), NEW before, Orders(before, S), NEW k \in 1..Cardinality(S)
  PROVE  Arranged(S, before)[k] \in S /\ Rank(Arranged(S, before)[k], S, before) = k - 1
BY RankTaken DEF Arranged

LEMMA DisjointUnion ==
  ASSUME NEW S, IsFiniteSet(S), NEW T, IsFiniteSet(T), S \cap T = {}
  PROVE  Cardinality(S \cup T) = Cardinality(S) + Cardinality(T)
<1>1. Cardinality(S \cap T) = 0
  BY FS_EmptySet
<1>2. Cardinality(S) \in Nat /\ Cardinality(T) \in Nat
  BY FS_CardinalityType
<1>3. Cardinality(S \cup T) = Cardinality(S) + Cardinality(T) - Cardinality(S \cap T)
  BY FS_Union
<1> QED
  BY <1>1, <1>2, <1>3

\* The elements of U come after the others of S, among each other as in S.
Ends(U, among, S, before) ==
    /\ U \in SUBSET S
    /\ \A x, y \in U : <<x, y>> \in among <=> <<x, y>> \in before
    /\ \A x \in U, y \in S \ U : <<y, x>> \in before

LEMMA RestCounted ==
  ASSUME NEW S, IsFiniteSet(S), NEW U, U \in SUBSET S
  PROVE  /\ Cardinality(U) \in Nat /\ Cardinality(S \ U) \in Nat
         /\ Cardinality(S) = Cardinality(S \ U) + Cardinality(U)
<1>1. IsFiniteSet(U) /\ IsFiniteSet(S \ U) /\ (S \ U) \cap U = {} /\ (S \ U) \cup U = S
  BY FS_Subset
<1>2. Cardinality(U) \in Nat /\ Cardinality(S \ U) \in Nat
  BY <1>1, FS_CardinalityType
<1> QED
  BY <1>1, <1>2, DisjointUnion

\* The elements that come after all others are arranged as the end of the
\* whole arrangement.
LEMMA RestArranged ==
  ASSUME NEW S, IsFiniteSet(S), NEW before, Orders(before, S),
         NEW U, NEW among, Ends(U, among, S, before), NEW k \in 1..Cardinality(U)
  PROVE  Arranged(U, among)[k] = Arranged(S, before)[Cardinality(S \ U) + k]
<1> DEFINE R == S \ U
           m == Cardinality(R)
           x == Arranged(U, among)[k]
           y == Arranged(S, before)[m + k]
<1> USE DEF Ends
<1>1. IsFiniteSet(U) /\ IsFiniteSet(R) /\ U \cap R = {} /\ U \cup R = S
  BY FS_Subset
<1>2. Cardinality(U) \in Nat /\ m \in Nat /\ Cardinality(S) = m + Cardinality(U)
  BY RestCounted
<1>3. Orders(among, U)
  BY DEF Orders
<1>4. ASSUME NEW z \in U
      PROVE  Rank(z, S, before) = m + Rank(z, U, among)
  <2> DEFINE B == {w \in U : <<w, z>> \in among}
  <2>1. {w \in S : <<w, z>> \in before} = B \cup R
    BY <1>1
  <2>2. IsFiniteSet(B) /\ B \cap R = {}
    BY <1>1, FS_Subset
  <2>3. Cardinality(B) \in Nat
    BY <2>2, FS_CardinalityType
  <2>4. Cardinality(B \cup R) = Cardinality(B) + m
    BY <1>1, <2>2, DisjointUnion
  <2>5. Rank(z, S, before) = Cardinality(B) + m
    BY <2>1, <2>4 DEF Rank
  <2>6. Rank(z, U, among) = Cardinality(B)
    BY DEF Rank
  <2> HIDE DEF B, m
  <2> QED
    BY <1>2, <2>3, <2>5, <2>6
<1>5. x \in U /\ Rank(x, U, among) = k - 1
  BY <1>1, <1>3, ArrangedRank
<1>6. m + k \in 1..Cardinality(S)
  BY <1>2
<1>7. y \in S /\ Rank(y, S, before) = (m + k) - 1
  BY <1>6, ArrangedRank
<1> HIDE DEF x, y
<1>8. Rank(x, S, before) = m + (k - 1)
  BY <1>4, <1>5
<1>9. m + (k - 1) = (m + k) - 1
  BY <1>2
<1>10. x \in S /\ Rank(x, S, before) = Rank(y, S, before)
  BY <1>5, <1>7, <1>8, <1>9
<1> QED
  BY <1>7, <1>10, RankUnique DEF x, y

\* Numbers by size.
NumberOrder(S) == {ij \in S \X S : ij[1] < ij[2]}

LEMMA NumbersOrdered ==
  ASSUME NEW S \in SUBSET Nat
  PROVE  Orders(NumberOrder(S), S)
<1>1. \A i, j : <<i, j>> \in NumberOrder(S) <=> i \in S /\ j \in S /\ i < j
  BY DEF NumberOrder
<1>2. S \subseteq Nat
  OBVIOUS
<1>3. \A x \in S : ~(x < x)
  BY <1>2
<1>4. \A x, y, z \in S : x < y /\ y < z => x < z
  BY <1>2
<1>5. \A x, y \in S : x = y \/ x < y \/ y < x
  BY <1>2
<1> QED
  BY <1>1, <1>3, <1>4, <1>5 DEF Orders

\* A set of numbers that is finite has a first and a last one.
LEMMA FirstAndLast ==
  ASSUME NEW S \in SUBSET Nat, IsFiniteSet(S), S # {}
  PROVE  /\ \E i \in S : \A j \in S : i <= j
         /\ \E i \in S : \A j \in S : j <= i
<1> DEFINE a == Arranged(S, NumberOrder(S))
           c == Cardinality(S)
<1>1. Orders(NumberOrder(S), S)
  BY NumbersOrdered
<1>2. /\ c \in Nat /\ a \in [1..c -> S]
      /\ \A x \in S : \E k \in 1..c : a[k] = x
      /\ \A i, j \in 1..c : i < j => <<a[i], a[j]>> \in NumberOrder(S)
  BY <1>1, ArrangedInOrder
<1> HIDE DEF a, c
<1>3. \A i, j \in 1..c : i < j => a[i] < a[j]
  BY <1>2 DEF NumberOrder
<1>4. 1 \in 1..c /\ c \in 1..c
  <2>1. PICK k \in 1..c : a[k] \in S
    BY <1>2
  <2> QED
    BY <1>2, <2>1
<1>5. a[1] \in S /\ a[c] \in S
  BY <1>2, <1>4
<1>6. ASSUME NEW j \in S PROVE a[1] <= j /\ j <= a[c]
  <2>1. PICK k \in 1..c : a[k] = j
    BY <1>2
  <2>2. (k = c \/ k < c) /\ (k = 1 \/ 1 < k)
    BY <1>2, <2>1
  <2>3. j \in Nat /\ a[1] \in Nat /\ a[c] \in Nat
    BY <1>5
  <2> QED
    BY <1>3, <1>4, <2>1, <2>2, <2>3
<1> QED
  BY <1>5, <1>6

-----------------------------------------------------------------------------
(* The numbers up to N.                                                     *)

\* What holds of some numbers holds of a least one.
LEMMA LeastOf ==
  ASSUME NEW N \in Nat, NEW T \in SUBSET (0..N), T # {}
  PROVE  \E n \in T : \A k \in 0..N : k < n => k \notin T
<1>1. IsFiniteSet(0..N)
  BY FS_Interval
<1>2. IsFiniteSet(T)
  BY <1>1, FS_Subset
<1>3. T \in SUBSET Nat
  OBVIOUS
<1>4. PICK n \in T : \A k \in T : n <= k
  BY <1>2, <1>3, FirstAndLast
<1>5. \A k \in 0..N : k < n => ~(n <= k)
  BY <1>3
<1> QED
  BY <1>4, <1>5

\* Induction, with the numbers for which it holds as a set.
LEMMA UpTo ==
  ASSUME NEW N \in Nat, NEW T, 0 \in T, \A n \in 0..(N - 1) : n \in T => n + 1 \in T
  PROVE  \A n \in 0..N : n \in T
<1> DEFINE U == (0..N) \ T
<1> SUFFICES ASSUME U # {} PROVE FALSE
  OBVIOUS
<1>1. PICK n \in U : \A k \in 0..N : k < n => k \notin U
  <2>1. U \in SUBSET (0..N)
    OBVIOUS
  <2> HIDE DEF U
  <2> QED
    BY <2>1, LeastOf
<1>2. n \in 0..N /\ n \notin T /\ n # 0
  OBVIOUS
<1>3. n - 1 \in 0..N /\ n - 1 \in 0..(N - 1) /\ n - 1 < n /\ (n - 1) + 1 = n
  BY <1>2
<1>4. n - 1 \in T
  BY <1>1, <1>3
<1> QED
  BY <1>2, <1>3, <1>4

\* Each value of f follows from the one before.
Iteration(f, n, S, base, step) ==
    f \in [0..n -> S] /\ f[0] = base /\ \A i \in 1..n : f[i] = step[<<f[i - 1], i>>]

\* There is such a function.
LEMMA Iterates ==
  ASSUME NEW N \in Nat, NEW S, NEW base \in S, NEW step \in [S \X (1..N) -> S]
  PROVE  \E f : Iteration(f, N, S, base, step)
<1> DEFINE Is(f, n) == Iteration(f, n, S, base, step)
           T == {n \in 0..N : \E f : Is(f, n)}
<1>1. 0 \in T
  <2> DEFINE f == [i \in 0..0 |-> base]
  <2>1. Is(f, 0)
    BY DEF Iteration
  <2> HIDE DEF Is
  <2> QED
    BY <2>1
<1>2. ASSUME NEW n \in 0..(N - 1), n \in T PROVE n + 1 \in T
  <2>1. PICK f : Is(f, n)
    BY <1>2
  <2>2. n \in Nat /\ n + 1 \in 1..N /\ f[n] \in S
    BY <2>1 DEF Iteration
  <2> DEFINE next == step[<<f[n], n + 1>>]
             g == [i \in 0..(n + 1) |-> IF i = n + 1 THEN next ELSE f[i]]
  <2>3. next \in S
    BY <2>2
  <2> HIDE DEF next
  <2>4. g \in [0..(n + 1) -> S] /\ g[n + 1] = next /\ \A i \in 0..n : g[i] = f[i]
    BY <2>1, <2>2, <2>3 DEF Iteration
  <2> HIDE DEF g
  <2>5. ASSUME NEW i \in 1..(n + 1) PROVE g[i] = step[<<g[i - 1], i>>]
    <3>1. i - 1 \in 0..n /\ (i = n + 1 \/ (i \in 1..n /\ i \in 0..n))
      BY <2>2
    <3>2. g[i - 1] = f[i - 1]
      BY <2>4, <3>1
    <3>3. CASE i = n + 1
      <4>1. i - 1 = n
        BY <2>2, <3>3
      <4> QED
        BY <2>4, <3>2, <3>3, <4>1 DEF next
    <3>4. CASE i \in 1..n /\ i \in 0..n
      BY <2>1, <2>4, <3>2, <3>4 DEF Iteration
    <3> QED
      BY <3>1, <3>3, <3>4
  <2>6. g[0] = base
    <3>1. 0 \in 0..n
      BY <2>2
    <3> QED
      BY <2>1, <2>4, <3>1 DEF Iteration
  <2>7. Is(g, n + 1) /\ n + 1 \in 0..N
    BY <2>2, <2>4, <2>5, <2>6 DEF Iteration
  <2> HIDE DEF Is
  <2> QED
    BY <2>7
<1>3. N \in T
  <2>1. N \in 0..N
    OBVIOUS
  <2> HIDE DEF T
  <2> QED
    BY <1>1, <1>2, <2>1, UpTo
<1>4. PICK f : Is(f, N)
  BY <1>3
<1> QED
  BY <1>4
=============================================================================
