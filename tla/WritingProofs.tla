--------------------------- MODULE WritingProofs ---------------------------
(* What is written is what was meant, and is read as what it says: the       *)
(* conditions of the statements, the column of a key, and the numbers and    *)
(* moments in the rows of a table.                                           *)
(*   What contexts, the action and the Finds under way keep of what they     *)
(* were given, for any number of contexts and of callers. An append writes   *)
(* into an array that others have only if there is room behind its slice.    *)
(* The slices of contexts have room only from the third resolution on        *)
(* (Roomy); no array of theirs is the action's or a Find's; those of Finds   *)
(* are the action's, where only room behind it lets one write into another,  *)
(* or their own (Aside).                                                     *)
(*   What Scan reads of a key, for any number of ancestors: the path parts   *)
(* where its levels were joined (PathSplits), a level where its kind ends,   *)
(* and escapes are one to one.                                               *)
(*   What the columns of a table can hold (Fit), whatever struct it is made  *)
(* of and whatever is inserted; so what the driver hands to the decoders, by *)
(* either protocol.                                                          *)

EXTENDS Contexts, KeyColumn, Entities, ListProofs, SequenceTheorems

\* The arrays hold cells of V.
Arrays(arrays, V) == arrays \in Seq(Seq(V))

\* A slice of arrays: it has an array, and does not go beyond it.
Within(slice, arrays) ==
    /\ slice \in [arr : DOMAIN arrays, len : Nat]
    /\ slice.len <= Len(arrays[slice.arr])

\* What a slice of length len can have room behind.
Roomy(slice, arrays) == slice.len >= 3 \/ slice.len = Len(arrays[slice.arr])

Held(slice, arrays) == SubSeq(arrays[slice.arr], 1, slice.len)

\* The greater of two numbers, as append asks for it.
LEMMA Greater ==
  ASSUME NEW m \in Nat, NEW n \in Nat
  PROVE  LET g == Max({m, n}) IN g \in Nat /\ g >= m /\ g >= n /\ (g = m \/ g = n)
<1> DEFINE S == {m, n}
           P(x) == x \in S /\ \A y \in S : x >= y
<1>1. \E x : P(x)
  <2>1. CASE m >= n
    <3>1. P(m)
      BY <2>1
    <3> QED
      BY <3>1
  <2>2. CASE ~(m >= n)
    <3>1. P(n)
      BY <2>2
    <3> QED
      BY <3>1
  <2> QED
    BY <2>1, <2>2
<1>2. Max(S) = CHOOSE x : P(x)
  BY DEF Max
<1>3. P(CHOOSE x : P(x))
  BY <1>1
<1> QED
  BY <1>2, <1>3

LEMMA PaddedIs ==
  ASSUME NEW V, Cell \in V, NEW xs \in Seq(V), NEW cap \in Nat, Len(xs) <= cap
  PROVE  /\ Padded(xs, cap) \in Seq(V) /\ Len(Padded(xs, cap)) = cap
         /\ SubSeq(Padded(xs, cap), 1, Len(xs)) = xs
<1> DEFINE k == cap - Len(xs)
           rest == [i \in 1..k |-> Cell]
<1>1. k \in Nat
  OBVIOUS
<1>2. rest \in Seq(V) /\ Len(rest) = k
  BY <1>1
<1> HIDE DEF rest
<1>3. Padded(xs, cap) = xs \o rest
  BY DEF Padded, rest
<1>4. SubSeq(xs \o rest, 1, Len(xs)) = xs
  BY <1>2
<1>5. xs \o rest \in Seq(V) /\ Len(xs \o rest) = cap
  BY <1>2
<1> QED
  BY <1>3, <1>4, <1>5

\* The first n cells are the same.
SameFirst(n, array, other) == \A i \in 1..n : other[i] = array[i]

\* Behind the first n cells an array holds xs.
Follows(n, xs, array) == \A i \in 1..Len(xs) : array[n + i] = xs[i]

\* Each cell is as it was or one of xs.
Overwritten(array, xs, written) ==
    \A i \in 1..Len(array) : written[i] = array[i] \/ \E j \in 1..Len(xs) : written[i] = xs[j]

\* What an array holds after xs was written behind its first cells.
Over(array, old, xs) ==
    [i \in 1..Len(array) |-> IF i \in (old + 1)..(old + Len(xs)) THEN xs[i - old] ELSE array[i]]

LEMMA OverIs ==
  ASSUME NEW V, NEW array \in Seq(V), NEW xs \in Seq(V), NEW old \in Nat,
         old + Len(xs) <= Len(array)
  PROVE  /\ Over(array, old, xs) \in Seq(V) /\ Len(Over(array, old, xs)) = Len(array)
         /\ SameFirst(old, array, Over(array, old, xs))
         /\ Follows(old, xs, Over(array, old, xs))
         /\ old = Len(array) => Over(array, old, xs) = array
         /\ Overwritten(array, xs, Over(array, old, xs))
<1> DEFINE cap == Len(array)
           written == Over(array, old, xs)
<1>1. cap \in Nat /\ Len(xs) \in Nat /\ old + Len(xs) <= cap
  OBVIOUS
<1>2. ASSUME NEW i \in 1..cap, i \in (old + 1)..(old + Len(xs))
      PROVE  i - old \in 1..Len(xs) /\ written[i] = xs[i - old] /\ xs[i - old] \in V
  <2>1. i - old \in 1..Len(xs)
    BY <1>1, <1>2
  <2> QED
    BY <1>2, <2>1 DEF Over
<1>3. ASSUME NEW i \in 1..cap, i \notin (old + 1)..(old + Len(xs))
      PROVE  written[i] = array[i] /\ array[i] \in V
  BY <1>3 DEF Over
<1>4. written \in [1..cap -> V]
  <2>1. written = [i \in 1..cap |-> written[i]]
    BY DEF Over
  <2>2. \A i \in 1..cap : written[i] \in V
    BY <1>2, <1>3
  <2> HIDE DEF written
  <2> QED
    BY <2>1, <2>2
<1>5. written \in Seq(V) /\ Len(written) = cap
  <2> HIDE DEF written, cap
  <2> QED
    BY <1>1, <1>4
<1>6. \A i \in 1..old : written[i] = array[i]
  <2> SUFFICES ASSUME NEW i \in 1..old PROVE written[i] = array[i]
    OBVIOUS
  <2>1. i \in 1..cap /\ i \notin (old + 1)..(old + Len(xs))
    BY <1>1
  <2> QED
    BY <1>3, <2>1
<1>7. \A i \in 1..Len(xs) : written[old + i] = xs[i]
  <2> SUFFICES ASSUME NEW i \in 1..Len(xs) PROVE written[old + i] = xs[i]
    OBVIOUS
  <2>1. /\ old + i \in 1..cap /\ old + i \in (old + 1)..(old + Len(xs))
        /\ (old + i) - old = i
    BY <1>1
  <2> QED
    BY <1>2, <2>1
<1>8. ASSUME old = cap PROVE written = array
  <2>1. Len(xs) = 0 /\ \A i \in 1..cap : written[i] = array[i]
    BY <1>1, <1>6, <1>8
  <2>2. array = [i \in 1..cap |-> array[i]]
    OBVIOUS
  <2>3. written = [i \in 1..cap |-> written[i]]
    BY DEF Over
  <2> HIDE DEF written, cap
  <2>4. [i \in 1..cap |-> written[i]] = [i \in 1..cap |-> array[i]]
    BY <2>1
  <2> QED
    BY <2>2, <2>3, <2>4
<1>9. ASSUME NEW i \in 1..cap PROVE written[i] = array[i] \/ \E j \in 1..Len(xs) : written[i] = xs[j]
  BY <1>2, <1>3
<1> HIDE DEF written
<1>10. Overwritten(array, xs, written)
  BY <1>9 DEF Overwritten
<1> QED
  BY <1>5, <1>6, <1>7, <1>8, <1>10 DEF SameFirst, Follows, written

\* The first cells and what was written behind them are what is read back.
LEMMA ReadBehind ==
  ASSUME NEW V, NEW array \in Seq(V), NEW xs \in Seq(V), NEW old \in Nat, old <= Len(array),
         NEW written \in Seq(V), old + Len(xs) <= Len(written),
         SameFirst(old, array, written), Follows(old, xs, written)
  PROVE  SubSeq(written, 1, old + Len(xs)) = SubSeq(array, 1, old) \o xs
<1> DEFINE len == old + Len(xs)
           left == SubSeq(written, 1, len)
           first == SubSeq(array, 1, old)
           right == first \o xs
<1>1. Len(xs) \in Nat /\ len \in Nat /\ Len(written) \in Nat /\ len <= Len(written) /\ old <= len
  OBVIOUS
<1>2. left \in Seq(V) /\ Len(left) = len /\ \A i \in 1..len : left[i] = written[i]
  BY <1>1
<1>3. first \in Seq(V) /\ Len(first) = old /\ \A i \in 1..old : first[i] = array[i]
  OBVIOUS
<1>4. /\ right \in Seq(V) /\ Len(right) = len
      /\ \A i \in 1..len : right[i] = IF i <= old THEN first[i] ELSE xs[i - old]
  BY <1>1, <1>3
<1>5. ASSUME NEW i \in 1..len PROVE left[i] = right[i]
  <2>1. CASE i <= old
    <3>1. i \in 1..old
      BY <1>1, <2>1
    <3> QED
      BY <1>2, <1>3, <1>4, <2>1, <3>1 DEF SameFirst
  <2>2. CASE i > old
    <3>1. i - old \in 1..Len(xs) /\ old + (i - old) = i /\ ~(i <= old)
      BY <1>1, <2>2
    <3>2. written[i] = xs[i - old]
      BY <3>1 DEF Follows
    <3> QED
      BY <1>2, <1>4, <3>1, <3>2
  <2> QED
    BY <1>1, <2>1, <2>2
<1>6. left \in Seq(V) /\ right \in Seq(V) /\ Len(left) = len /\ Len(right) = len /\ len \in Nat
  BY <1>1, <1>2, <1>4
<1> HIDE DEF left, right, len
<1>7. left = right
  BY <1>5, <1>6
<1> QED
  BY <1>7 DEF len, left, right

-----------------------------------------------------------------------------
(* What one append does, from memory mem to memory new.                     *)

\* The array of the slice alone may be written, behind the slice; there may
\* be one more array.
Frame(mem, new) ==
    /\ DOMAIN mem.heap \subseteq DOMAIN new.heap
    /\ \A a \in DOMAIN mem.heap : Len(new.heap[a]) = Len(mem.heap[a])
    /\ \A a \in DOMAIN mem.heap : a # mem.slice.arr => new.heap[a] = mem.heap[a]
    /\ SameFirst(mem.slice.len, mem.heap[mem.slice.arr], new.heap[mem.slice.arr])

\* The slice is longer by xs, in its array or in a new one.
Longer(mem, xs, new) ==
    /\ Within(new.slice, new.heap)
    /\ new.slice.len = mem.slice.len + Len(xs)
    /\ new.slice.arr = mem.slice.arr \/ new.slice.arr \notin DOMAIN mem.heap
    /\ Held(new.slice, new.heap) = Held(mem.slice, mem.heap) \o xs
    /\ Roomy(mem.slice, mem.heap) => Roomy(new.slice, new.heap)

\* Nothing is written without room.
Untouched(mem, new) == mem.slice.len = Len(mem.heap[mem.slice.arr]) =>
    new.heap[mem.slice.arr] = mem.heap[mem.slice.arr]

\* Nothing but xs is written.
WroteBehind(mem, xs, new) == Overwritten(mem.heap[mem.slice.arr], xs, new.heap[mem.slice.arr])

Fits(mem, xs) == mem.slice.len + Len(xs) <= Len(mem.heap[mem.slice.arr])

LEMMA AppendedInPlace ==
  ASSUME NEW V, Cell \in V, NEW mem, Arrays(mem.heap, V), Within(mem.slice, mem.heap),
         NEW xs \in Seq(V), Fits(mem, xs)
  PROVE  LET new == Appended(mem, xs)
         IN  /\ Arrays(new.heap, V)
             /\ Frame(mem, new) /\ Longer(mem, xs, new) /\ Untouched(mem, new)
             /\ WroteBehind(mem, xs, new)
<1> DEFINE arr == mem.slice.arr
           old == mem.slice.len
           array == mem.heap[arr]
           written == Over(array, old, xs)
           new == Appended(mem, xs)
<1>1. /\ arr \in DOMAIN mem.heap /\ array \in Seq(V) /\ old \in Nat
      /\ Len(array) \in Nat /\ Len(xs) \in Nat /\ old + Len(xs) <= Len(array)
      /\ arr = mem.slice.arr /\ old = mem.slice.len /\ array = mem.heap[arr]
  BY DEF Within, Fits, Arrays
<1>2. new = [heap |-> [mem.heap EXCEPT ![arr] = written], slice |-> Slice(arr, old + Len(xs))]
  BY <1>1 DEF Appended, Over
<1> HIDE DEF arr, old, array
<1>3. /\ written \in Seq(V) /\ Len(written) = Len(array)
      /\ SameFirst(old, array, written) /\ Follows(old, xs, written)
      /\ old = Len(array) => written = array
      /\ Overwritten(array, xs, written)
  BY <1>1, OverIs
<1> HIDE DEF new, written
<1>4. SubSeq(written, 1, old + Len(xs)) = SubSeq(array, 1, old) \o xs
  <2>1. old <= Len(array) /\ old + Len(xs) <= Len(written)
    BY <1>1, <1>3
  <2>2. array \in Seq(V) /\ old \in Nat /\ written \in Seq(V)
    BY <1>1, <1>3
  <2>3. SameFirst(old, array, written) /\ Follows(old, xs, written)
    BY <1>3
  <2> QED
    BY <2>1, <2>2, <2>3, ReadBehind
<1>5. /\ Arrays(new.heap, V) /\ DOMAIN new.heap = DOMAIN mem.heap
      /\ new.heap[arr] = written
      /\ \A a \in DOMAIN mem.heap : a # arr => new.heap[a] = mem.heap[a]
      /\ new.slice = [arr |-> arr, len |-> old + Len(xs)]
      /\ new.slice.arr = arr /\ new.slice.len = old + Len(xs)
  <2>1. new.heap = [mem.heap EXCEPT ![arr] = written] /\ new.slice = [arr |-> arr, len |-> old + Len(xs)]
    BY <1>2 DEF Slice
  <2>2. Arrays(new.heap, V)
    BY <1>1, <1>3, <2>1 DEF Arrays
  <2> QED
    BY <1>1, <2>1, <2>2
<1>6. Frame(mem, new)
  BY <1>1, <1>3, <1>5 DEF Frame, SameFirst
<1>7. Longer(mem, xs, new)
  <2>1. Within(new.slice, new.heap) /\ (Roomy(mem.slice, mem.heap) => Roomy(new.slice, new.heap))
    BY <1>1, <1>3, <1>5 DEF Within, Roomy
  <2>2. Held(new.slice, new.heap) = Held(mem.slice, mem.heap) \o xs
    <3>1. Held(new.slice, new.heap) = SubSeq(written, 1, old + Len(xs))
      BY <1>5 DEF Held
    <3>2. Held(mem.slice, mem.heap) = SubSeq(array, 1, old)
      BY <1>1 DEF Held
    <3> QED
      BY <1>4, <3>1, <3>2
  <2> QED
    BY <1>1, <1>5, <2>1, <2>2 DEF Longer
<1>8. Untouched(mem, new)
  BY <1>1, <1>3, <1>5 DEF Untouched
<1>9. WroteBehind(mem, xs, new)
  BY <1>1, <1>3, <1>5 DEF WroteBehind
<1> QED
  BY <1>5, <1>6, <1>7, <1>8, <1>9 DEF new

LEMMA AppendedElsewhere ==
  ASSUME NEW V, Cell \in V, NEW mem, Arrays(mem.heap, V), Within(mem.slice, mem.heap),
         NEW xs \in Seq(V), ~Fits(mem, xs)
  PROVE  LET new == Appended(mem, xs)
         IN  /\ Arrays(new.heap, V)
             /\ Frame(mem, new) /\ Longer(mem, xs, new) /\ Untouched(mem, new)
             /\ WroteBehind(mem, xs, new)
<1> DEFINE arr == mem.slice.arr
           old == mem.slice.len
           array == mem.heap[arr]
           last == Len(mem.heap) + 1
           len == old + Len(xs)
           cap == Max({len, 2 * Len(array)})
           held == SubSeq(array, 1, old) \o xs
           moved == Padded(held, cap)
           new == Appended(mem, xs)
<1>1. /\ arr \in DOMAIN mem.heap /\ array \in Seq(V) /\ old \in Nat
      /\ Len(array) \in Nat /\ Len(xs) \in Nat /\ old <= Len(array) /\ len > Len(array)
      /\ len = old + Len(xs) /\ len \in Nat
      /\ arr = mem.slice.arr /\ old = mem.slice.len /\ array = mem.heap[arr]
  <2>1. arr \in DOMAIN mem.heap /\ old \in Nat /\ old <= Len(array)
    BY DEF Within
  <2>2. array \in Seq(V)
    BY <2>1 DEF Arrays
  <2>3. Len(array) \in Nat /\ Len(xs) \in Nat
    BY <2>2
  <2>4. ~(old + Len(xs) <= Len(array))
    BY DEF Fits
  <2> HIDE DEF arr, array, old
  <2>5. len \in Nat /\ len > Len(array)
    BY <2>1, <2>3, <2>4
  <2> QED
    BY <2>1, <2>2, <2>3, <2>5 DEF arr, array, old
<1>2. new = [heap |-> Append(mem.heap, moved), slice |-> Slice(last, len)]
  <2>1. ~(len <= Len(array))
    BY <1>1
  <2> QED
    BY <2>1 DEF Appended
<1> HIDE DEF new
<1>3. cap \in Nat /\ cap >= len /\ (cap = len \/ cap = 2 * Len(array))
  <2>1. 2 * Len(array) \in Nat
    BY <1>1
  <2> QED
    BY <1>1, <2>1, Greater
<1> HIDE DEF cap
<1>4. held \in Seq(V) /\ Len(held) = len
  <2>1. SubSeq(array, 1, old) \in Seq(V) /\ Len(SubSeq(array, 1, old)) = old
    BY <1>1
  <2> HIDE DEF old, array
  <2> QED
    BY <1>1, <2>1
<1> HIDE DEF held, len
<1>5. moved \in Seq(V) /\ Len(moved) = cap /\ SubSeq(moved, 1, len) = held
  BY <1>1, <1>3, <1>4, PaddedIs
<1> HIDE DEF moved
<1>6. /\ Arrays(new.heap, V) /\ DOMAIN mem.heap \subseteq DOMAIN new.heap
      /\ last \in DOMAIN new.heap /\ last \notin DOMAIN mem.heap /\ new.heap[last] = moved
      /\ \A a \in DOMAIN mem.heap : new.heap[a] = mem.heap[a]
      /\ new.slice = [arr |-> last, len |-> len]
      /\ new.slice.arr = last /\ new.slice.len = len
  BY <1>2, <1>5 DEF Slice, Arrays
<1> HIDE DEF arr, old, array, last
<1>7. Frame(mem, new)
  BY <1>1, <1>6 DEF Frame, SameFirst
<1>8. Longer(mem, xs, new)
  <2>1. Within(new.slice, new.heap)
    BY <1>1, <1>3, <1>5, <1>6 DEF Within
  <2>2. Held(new.slice, new.heap) = Held(mem.slice, mem.heap) \o xs
    <3>1. Held(new.slice, new.heap) = held
      BY <1>5, <1>6 DEF Held
    <3>2. Held(mem.slice, mem.heap) = SubSeq(array, 1, old)
      BY <1>1 DEF Held
    <3> QED
      BY <3>1, <3>2 DEF held
  <2>3. Roomy(mem.slice, mem.heap) => Roomy(new.slice, new.heap)
    <3>1. CASE old >= 3
      <4>1. len >= 3
        BY <1>1, <3>1
      <4> QED
        BY <1>6, <4>1 DEF Roomy
    <3>2. CASE old = Len(array)
      <4>1. len >= 3 \/ len = cap
        BY <1>1, <1>3, <3>2
      <4> QED
        BY <1>5, <1>6, <4>1 DEF Roomy
    <3> QED
      BY <1>1, <3>1, <3>2 DEF Roomy
  <2> QED
    BY <1>1, <1>6, <2>1, <2>2, <2>3 DEF Longer
<1>9. Untouched(mem, new)
  BY <1>1, <1>6 DEF Untouched
<1>10. WroteBehind(mem, xs, new)
  BY <1>1, <1>6 DEF WroteBehind, Overwritten
<1> QED
  BY <1>6, <1>7, <1>8, <1>9, <1>10 DEF new

LEMMA AppendedIs ==
  ASSUME NEW V, Cell \in V, NEW mem, Arrays(mem.heap, V), Within(mem.slice, mem.heap),
         NEW xs \in Seq(V)
  PROVE  LET new == Appended(mem, xs)
         IN  /\ Arrays(new.heap, V)
             /\ Frame(mem, new) /\ Longer(mem, xs, new) /\ Untouched(mem, new)
             /\ WroteBehind(mem, xs, new)
<1>1. CASE Fits(mem, xs)
  BY <1>1, AppendedInPlace
<1>2. CASE ~Fits(mem, xs)
  BY <1>2, AppendedElsewhere
<1> QED
  BY <1>1, <1>2

-----------------------------------------------------------------------------
(* Appends one after the other. AppendedAll is a recursive function, so     *)
(* that it is what it says takes two arguments by the least number for      *)
(* which it would not be.                                                   *)

\* f is the memory after each of the first N appends.
Chain(f, N, slice, pieces) ==
    /\ f = [n \in 0..N |-> f[n]]
    /\ f[0] = Memory(slice)
    /\ \A n \in 1..N : f[n] = Appended(f[n - 1], pieces[n])

LEMMA ChainExists ==
  ASSUME NEW N \in Nat, NEW slice, NEW pieces
  PROVE  \E f : Chain(f, N, slice, pieces)
<1> DEFINE Chained(n) == \E f : Chain(f, n, slice, pieces)
           T == {n \in 0..N : ~Chained(n)}
<1> SUFFICES ASSUME ~Chained(N) PROVE FALSE
  OBVIOUS
<1>1. PICK n \in T : \A k \in 0..N : k < n => k \notin T
  <2>1. N \in T /\ T \in SUBSET (0..N)
    OBVIOUS
  <2> HIDE DEF T
  <2> QED
    BY <2>1, LeastOf
<1>2. n \in Nat /\ n # 0
  <2>0. n \in 0..N
    BY <1>1
  <2> DEFINE f == [i \in 0..0 |-> Memory(slice)]
  <2>1. Chain(f, 0, slice, pieces)
    BY DEF Chain
  <2> HIDE DEF f
  <2> QED
    BY <1>1, <2>0, <2>1
<1>3. PICK f : Chain(f, n - 1, slice, pieces)
  BY <1>1, <1>2
<1> DEFINE g == [i \in 0..n |-> IF i = n THEN Appended(f[n - 1], pieces[n]) ELSE f[i]]
<1>4. g[n] = Appended(f[n - 1], pieces[n]) /\ \A i \in 0..(n - 1) : g[i] = f[i]
  BY <1>1
<1>5. g = [i \in 0..n |-> g[i]]
  OBVIOUS
<1> HIDE DEF g
<1>6. ASSUME NEW i \in 1..n PROVE g[i] = Appended(g[i - 1], pieces[i])
  <2>1. i - 1 \in 0..(n - 1) /\ (i = n \/ (i \in 1..(n - 1) /\ i \in 0..(n - 1)))
    BY <1>2
  <2>2. CASE i = n
    BY <1>4, <2>1, <2>2
  <2>3. CASE i \in 1..(n - 1) /\ i \in 0..(n - 1)
    <3>1. f[i] = Appended(f[i - 1], pieces[i])
      BY <1>3, <2>3 DEF Chain
    <3> QED
      BY <1>4, <2>1, <2>3, <3>1
  <2> QED
    BY <2>1, <2>2, <2>3
<1>7. g[0] = Memory(slice)
  <2>1. 0 \in 0..(n - 1)
    BY <1>1, <1>2
  <2> QED
    BY <1>3, <1>4, <2>1 DEF Chain
<1>8. Chain(g, n, slice, pieces)
  BY <1>5, <1>6, <1>7 DEF Chain
<1> QED
  BY <1>1, <1>8

LEMMA AppendedAllIs ==
  ASSUME NEW slice, NEW pieces, Len(pieces) \in Nat
  PROVE  \E f : /\ Chain(f, Len(pieces), slice, pieces)
               /\ AppendedAll(slice, pieces) = f[Len(pieces)]
<1> DEFINE N == Len(pieces)
           Is(f) == f = [n \in 0..N |-> IF n = 0 THEN Memory(slice)
                                        ELSE Appended(f[n - 1], pieces[n])]
<1>1. PICK g : Chain(g, N, slice, pieces)
  BY ChainExists
<1>2. Is(g)
  <2>1. \A n \in 0..N : g[n] = IF n = 0 THEN Memory(slice) ELSE Appended(g[n - 1], pieces[n])
    BY <1>1 DEF Chain
  <2>2. g = [n \in 0..N |-> g[n]]
    BY <1>1 DEF Chain
  <2> QED
    BY <2>1, <2>2
<1> DEFINE h == CHOOSE f : Is(f)
<1>3. Is(h)
  BY <1>2
<1>4. AppendedAll(slice, pieces) = h[N]
  BY DEF AppendedAll
<1> HIDE DEF h
<1>5. Chain(h, N, slice, pieces)
  <2>1. \A n \in 0..N : h[n] = IF n = 0 THEN Memory(slice) ELSE Appended(h[n - 1], pieces[n])
    BY <1>3
  <2>2. h = [n \in 0..N |-> h[n]]
    BY <1>3
  <2>3. 0 \in 0..N /\ \A n \in 1..N : n \in 0..N /\ n # 0
    OBVIOUS
  <2> QED
    BY <2>1, <2>2, <2>3 DEF Chain
<1> QED
  BY <1>4, <1>5

\* What find should append, as one sequence.
LEMMA FlatIs ==
  ASSUME NEW V, NEW pieces, Arrays(pieces, V)
  PROVE  \E f \in [0..Len(pieces) -> Seq(V)] :
            /\ f[0] = <<>> /\ \A n \in 1..Len(pieces) : f[n] = f[n - 1] \o pieces[n]
            /\ Flat(pieces) = f[Len(pieces)]
<1> DEFINE N == Len(pieces)
           S == Seq(V)
           base == <<>>
           step == [x \in S \X (1..N) |-> x[1] \o pieces[x[2]]]
           Is(f) == f = [n \in 0..N |-> IF n = 0 THEN <<>> ELSE f[n - 1] \o pieces[n]]
<1>1. N \in Nat /\ \A n \in 1..N : pieces[n] \in S
  BY DEF Arrays
<1>2. step \in [S \X (1..N) -> S] /\ base \in S
  BY <1>1
<1>3. ASSUME NEW xs \in S, NEW n \in 1..N PROVE step[<<xs, n>>] = xs \o pieces[n]
  OBVIOUS
<1> HIDE DEF step, base, S, N
<1>4. PICK f : Iteration(f, N, S, base, step)
  BY <1>1, <1>2, Iterates
<1>5. f \in [0..N -> S] /\ f[0] = base /\ \A n \in 1..N : f[n] = step[<<f[n - 1], n>>]
  BY <1>4 DEF Iteration
<1>6. ASSUME NEW n \in 1..N PROVE n - 1 \in 0..N /\ f[n] = f[n - 1] \o pieces[n]
  <2>1. n - 1 \in 0..N
    BY <1>1
  <2>2. f[n - 1] \in S
    BY <1>5, <2>1
  <2>3. f[n] = step[<<f[n - 1], n>>]
    BY <1>5
  <2>4. step[<<f[n - 1], n>>] = f[n - 1] \o pieces[n]
    BY <1>3, <2>2
  <2> QED
    BY <2>1, <2>3, <2>4
<1>7. Is(f)
  <2>1. f[0] = <<>>
    BY <1>5 DEF base
  <2>2. \A n \in 0..N : f[n] = IF n = 0 THEN <<>> ELSE f[n - 1] \o pieces[n]
    <3> SUFFICES ASSUME NEW n \in 0..N, n # 0 PROVE f[n] = f[n - 1] \o pieces[n]
      BY <2>1
    <3>1. n \in 1..N
      BY <1>1
    <3> QED
      BY <1>6, <3>1
  <2>3. f = [n \in 0..N |-> f[n]]
    BY <1>5
  <2> QED
    BY <2>2, <2>3
<1> DEFINE h == CHOOSE g : Is(g)
<1>8. Is(h) /\ Flat(pieces) = h[N]
  BY <1>7 DEF Flat, N
<1> HIDE DEF h
<1>9. \A n \in 0..N : h[n] = f[n]
  <2> DEFINE T == {n \in 0..N : h[n] = f[n]}
  <2>1. \A n \in 0..N : h[n] = IF n = 0 THEN <<>> ELSE h[n - 1] \o pieces[n]
    BY <1>8
  <2>2. 0 \in T
    BY <1>1, <1>5, <2>1 DEF base
  <2>3. ASSUME NEW n \in 0..(N - 1), n \in T PROVE n + 1 \in T
    <3>1. n + 1 \in 1..N /\ n + 1 \in 0..N /\ (n + 1) - 1 = n /\ n + 1 # 0
      BY <1>1
    <3> QED
      BY <1>6, <2>1, <2>3, <3>1
  <2> HIDE DEF T
  <2>4. \A n \in 0..N : n \in T
    BY <1>1, <2>2, <2>3, UpTo
  <2> QED
    BY <2>4 DEF T
<1>10. Flat(pieces) = f[N]
  BY <1>1, <1>8, <1>9
<1> QED
  BY <1>5, <1>6, <1>10 DEF N, S, base

\* Other arrays than the slice's stay as they are, the slice moves to none of
\* them, and its own is written behind it only, and only if there is room.
Aside(slice, mem) ==
    /\ DOMAIN heap \subseteq DOMAIN mem.heap
    /\ \A a \in DOMAIN heap : a # slice.arr => mem.heap[a] = heap[a]
    /\ \A a \in DOMAIN heap : a # slice.arr => a # mem.slice.arr
    /\ Len(mem.heap[slice.arr]) = Len(heap[slice.arr])
    /\ SameFirst(slice.len, heap[slice.arr], mem.heap[slice.arr])
    /\ slice.len <= mem.slice.len
    /\ slice.len = Len(heap[slice.arr]) =>
          /\ mem.heap[slice.arr] = heap[slice.arr]
          /\ mem.slice.arr = slice.arr => mem.slice.len = slice.len

\* One append more.
LEMMA AsideStep ==
  ASSUME NEW slice, Within(slice, heap), NEW V, NEW mem, Arrays(mem.heap, V), Within(mem.slice, mem.heap),
         Aside(slice, mem), NEW xs \in Seq(V),
         NEW new, Arrays(new.heap, V), Frame(mem, new), Longer(mem, xs, new), Untouched(mem, new)
  PROVE  Aside(slice, new)
<1> DEFINE arr == slice.arr
           len == slice.len
<1>1. /\ arr \in DOMAIN heap /\ arr \in DOMAIN mem.heap /\ len \in Nat /\ mem.slice.len \in Nat
      /\ new.slice.len \in Nat /\ len <= mem.slice.len /\ Len(xs) \in Nat
      /\ new.slice.len = mem.slice.len + Len(xs)
  BY DEF Within, Aside, Longer
<1>2. /\ DOMAIN heap \subseteq DOMAIN new.heap
      /\ \A a \in DOMAIN heap : a # arr => new.heap[a] = heap[a] /\ a # new.slice.arr
      /\ Len(new.heap[arr]) = Len(heap[arr])
  BY <1>1 DEF Aside, Frame, Longer
<1>3. SameFirst(len, heap[arr], new.heap[arr])
  <2>1. CASE mem.slice.arr = arr
    <3>1. \A i \in 1..len : i \in 1..mem.slice.len
      BY <1>1
    <3> QED
      BY <2>1, <3>1 DEF Aside, Frame, SameFirst
  <2>2. CASE mem.slice.arr # arr
    BY <1>1, <2>2 DEF Aside, Frame, SameFirst
  <2> QED
    BY <2>1, <2>2
<1>4. len <= new.slice.len
  BY <1>1
<1>5. ASSUME len = Len(heap[arr])
      PROVE  new.heap[arr] = heap[arr] /\ (new.slice.arr = arr => new.slice.len = len)
  <2>1. CASE mem.slice.arr = arr
    <3>1. mem.slice.len = len /\ mem.heap[arr] = heap[arr]
      BY <1>5, <2>1 DEF Aside
    <3>2. new.heap[arr] = heap[arr]
      BY <1>5, <2>1, <3>1 DEF Untouched
    <3>3. new.slice.arr = arr => new.slice.len <= len
      BY <1>5, <3>2 DEF Longer, Within
    <3> QED
      BY <1>1, <1>4, <3>2, <3>3
  <2>2. CASE mem.slice.arr # arr
    <3>1. new.heap[arr] = heap[arr]
      BY <1>1, <1>5, <2>2 DEF Aside, Frame
    <3>2. new.slice.arr # arr
      BY <1>1, <2>2 DEF Longer
    <3> QED
      BY <3>1, <3>2
  <2> QED
    BY <2>1, <2>2
<1> QED
  BY <1>2, <1>3, <1>4, <1>5 DEF Aside

LEMMA AppendedAllAside ==
  ASSUME NEW V, Cell \in V, Arrays(heap, V), NEW slice, Within(slice, heap),
         NEW pieces, Arrays(pieces, V)
  PROVE  LET mem == AppendedAll(slice, pieces)
         IN  /\ Arrays(mem.heap, V) /\ Within(mem.slice, mem.heap) /\ Aside(slice, mem)
             /\ Held(mem.slice, mem.heap) = Held(slice, heap) \o Flat(pieces)
<1> DEFINE N == Len(pieces)
           held == Held(slice, heap)
<1>1. N \in Nat /\ \A n \in 1..N : pieces[n] \in Seq(V)
  BY DEF Arrays
<1>2. PICK f : Chain(f, N, slice, pieces) /\ AppendedAll(slice, pieces) = f[N]
  BY <1>1, AppendedAllIs
<1>3. PICK e \in [0..N -> Seq(V)] :
         /\ e[0] = <<>> /\ \A n \in 1..N : e[n] = e[n - 1] \o pieces[n]
         /\ Flat(pieces) = e[N]
  BY FlatIs
<1>4. held \in Seq(V)
  BY DEF Held, Within, Arrays
<1> HIDE DEF N, held
<1> DEFINE Ok(mem, n) == /\ Arrays(mem.heap, V) /\ Within(mem.slice, mem.heap) /\ Aside(slice, mem)
                         /\ Held(mem.slice, mem.heap) = held \o e[n]
           T == {n \in 0..N : Ok(f[n], n)}
<1>5. Ok(f[0], 0)
  <2>1. f[0].heap = heap /\ f[0].slice = slice
    BY <1>2 DEF Chain, Memory
  <2>2. Aside(slice, f[0])
    <3>1. slice.len \in Nat
      BY DEF Within
    <3> QED
      BY <2>1, <3>1 DEF Aside, SameFirst
  <2>3. held \o e[0] = held
    BY <1>3, <1>4
  <2> QED
    BY <2>1, <2>2, <2>3 DEF held
<1>6. ASSUME NEW n \in 1..N, Ok(f[n - 1], n - 1) PROVE Ok(f[n], n)
  <2> DEFINE mem == f[n - 1]
             new == f[n]
  <2>1. new = Appended(mem, pieces[n]) /\ pieces[n] \in Seq(V)
    BY <1>1, <1>2 DEF Chain
  <2> HIDE DEF mem, new
  <2>2. /\ Arrays(mem.heap, V) /\ Within(mem.slice, mem.heap) /\ Aside(slice, mem)
        /\ Held(mem.slice, mem.heap) = held \o e[n - 1]
    BY <1>6 DEF mem
  <2>3. Arrays(new.heap, V) /\ Frame(mem, new) /\ Longer(mem, pieces[n], new) /\ Untouched(mem, new)
    BY <2>1, <2>2, AppendedIs
  <2>4. Aside(slice, new)
    BY <2>1, <2>2, <2>3, AsideStep
  <2>5. Held(new.slice, new.heap) = held \o e[n]
    <3>1. n - 1 \in 0..N
      BY <1>1
    <3>2. e[n - 1] \in Seq(V) /\ e[n] = e[n - 1] \o pieces[n]
      BY <1>3, <3>1
    <3>3. (held \o e[n - 1]) \o pieces[n] = held \o (e[n - 1] \o pieces[n])
      <4> DEFINE before == e[n - 1]
                 piece == pieces[n]
      <4>1. held \in Seq(V) /\ before \in Seq(V) /\ piece \in Seq(V)
        BY <1>4, <2>1, <3>2
      <4> HIDE DEF before, piece
      <4>2. (held \o before) \o piece = held \o (before \o piece)
        BY <4>1, ConcatAssociative
      <4> QED
        BY <4>2 DEF before, piece
    <3>4. Held(new.slice, new.heap) = Held(mem.slice, mem.heap) \o pieces[n]
      BY <2>3 DEF Longer
    <3> QED
      BY <2>2, <3>2, <3>3, <3>4
  <2> QED
    BY <2>3, <2>4, <2>5 DEF Longer, new
<1>7. 0 \in T
  BY <1>1, <1>5
<1>8. ASSUME NEW n \in 0..(N - 1), n \in T PROVE n + 1 \in T
  <2>1. n + 1 \in 1..N /\ n + 1 \in 0..N /\ (n + 1) - 1 = n
    BY <1>1
  <2>2. Ok(f[n], n)
    BY <1>8
  <2> HIDE DEF Ok
  <2>3. Ok(f[n + 1], n + 1)
    BY <1>6, <2>1, <2>2
  <2> QED
    BY <2>1, <2>3
<1>9. Ok(f[N], N)
  <2> HIDE DEF T, Ok
  <2>1. \A n \in 0..N : n \in T
    BY <1>1, <1>7, <1>8, UpTo
  <2>2. N \in 0..N
    BY <1>1
  <2> QED
    BY <2>1, <2>2 DEF T
<1> QED
  BY <1>2, <1>3, <1>9 DEF held

-----------------------------------------------------------------------------
(* What holds of contexts, of the action and of the Finds under way.        *)

\* The slice of a context has one cell per resolution. It has room behind it
\* from the third one on, it is lost with more than three, and if it is not
\* lost it holds what was injected.
HoldsIn(x, arrays, arr) ==
    /\ Within(x.slice, arrays) /\ x.slice.arr # arr
    /\ x.slice.len = Len(x.meant) /\ Roomy(x.slice, arrays)
    /\ x.lost => x.slice.len > 3
    /\ ~x.lost => Held(x.slice, arrays) = x.groups

Holds(x) == HoldsIn(x, heap, action.arr)

Typed(x, V) ==
    /\ x = [slice |-> x.slice, meant |-> x.meant, groups |-> x.groups, lost |-> x.lost]
    /\ IsSequence(x.meant) /\ x.groups \in Seq(V) /\ x.lost \in BOOLEAN

FindTyped(f) ==
    /\ f = [open |-> f.open, slice |-> f.slice, context |-> f.context, lost |-> f.lost, met |-> f.met]
    /\ f.open \in BOOLEAN /\ f.lost \in BOOLEAN /\ f.met \in BOOLEAN

\* The members of s are groups of members of V.
Grouped(s, V) == \A i \in 1..Len(s) : s[i][2] \in Seq(V)

TypedBy(V) ==
    /\ Cell \in V /\ And \in V /\ Arrays(heap, V) /\ Within(action, heap)
    /\ contexts = [c \in 1..Len(contexts) |-> contexts[c]] /\ Len(contexts) \in Nat
    /\ \A c \in 1..Len(contexts) :
          Typed(contexts[c], V) /\ Grouped(Held(contexts[c].slice, heap), V)
    /\ finds = [g \in Callers |-> finds[g]] /\ \A g \in Callers : FindTyped(finds[g])

\* The conditions of a Find are in no array of a context; they are lost with
\* more than three resolutions, or if another Find found room.
FindIn(f, arrays, resolved, arr, room) ==
    /\ f.context \in 1..Len(resolved) /\ Within(f.slice, arrays)
    /\ \A c \in 1..Len(resolved) : resolved[c].slice.arr # f.slice.arr
    /\ f.lost => Len(resolved[f.context].meant) > 3 \/ (f.met /\ room < Len(arrays[arr]))

FindHolds(f) ==
    /\ FindIn(f, heap, contexts, action.arr, action.len)
    /\ ~f.lost => Held(f.slice, heap) = Wanted(f)

Inv ==
    /\ \E V : TypedBy(V)
    /\ \A c \in 1..Len(contexts) : Holds(contexts[c])
    /\ Held(action, heap) = given
    /\ \A g \in Callers : finds[g].open => FindHolds(finds[g])

\* A sequence of anything is one of a larger set.
LEMMA SequenceOf ==
  ASSUME NEW s, IsSequence(s), NEW V, ToSet(s) \subseteq V
  PROVE  s \in Seq(V) /\ Len(s) \in Nat
BY DEF IsSequence

\* Nothing is lost by taking more cells into account.
LEMMA TypedByMore ==
  ASSUME NEW V, TypedBy(V), NEW W, V \subseteq W
  PROVE  TypedBy(W)
<1>1. Arrays(heap, W)
  <2>1. Seq(V) \subseteq Seq(W)
    OBVIOUS
  <2> QED
    BY <2>1 DEF TypedBy, Arrays
<1>2. ASSUME NEW c \in 1..Len(contexts)
      PROVE  Typed(contexts[c], W) /\ Grouped(Held(contexts[c].slice, heap), W)
  <2>1. Seq(V) \subseteq Seq(W)
    OBVIOUS
  <2> QED
    BY <2>1 DEF TypedBy, Typed, Grouped
<1> QED
  BY <1>1, <1>2 DEF TypedBy

LEMMA InvInitially == ContextsInit => Inv
<1> SUFFICES ASSUME ContextsInit PROVE Inv
  OBVIOUS
<1>1. PICK conditions : \E cap \in Nat :
         IsSequence(conditions) /\ Len(conditions) <= cap /\ Begun(conditions, cap)
  BY DEF ContextsInit
<1>2. PICK cap \in Nat :
         IsSequence(conditions) /\ Len(conditions) <= cap /\ Begun(conditions, cap)
  BY <1>1
<1> DEFINE V == ToSet(conditions) \cup {Cell, And}
           array == Padded(conditions, cap)
<1>3. conditions \in Seq(V) /\ Len(conditions) \in Nat
  BY <1>2, SequenceOf
<1>4. Cell \in V /\ And \in V
  OBVIOUS
<1> HIDE DEF V
<1>5. array \in Seq(V) /\ Len(array) >= Len(conditions) /\ Len(array) \in Nat
      /\ SubSeq(array, 1, Len(conditions)) = conditions
  BY <1>2, <1>3, <1>4, PaddedIs
<1> HIDE DEF array
<1>6. heap = <<NoResolutions, array>>
  BY <1>2 DEF Begun, array
<1>7. action = [arr |-> 2, len |-> Len(conditions)]
  BY <1>2 DEF Begun, Slice
<1> DEFINE x == [slice |-> [arr |-> 1, len |-> 0], meant |-> <<>>, groups |-> <<>>, lost |-> FALSE]
<1>8. contexts = <<x>>
  BY <1>2 DEF Begun, Slice
<1>9. NoResolutions \in Seq(V) /\ Len(NoResolutions) = 0 /\ NoResolutions = <<>>
  BY DEF NoResolutions
<1>10. Arrays(heap, V) /\ DOMAIN heap = {1, 2} /\ heap[1] = <<>> /\ heap[2] = array
  BY <1>5, <1>6, <1>9 DEF Arrays
<1>11. Within(action, heap)
  BY <1>3, <1>5, <1>7, <1>10 DEF Within
<1>12. Typed(x, V) /\ Grouped(Held(x.slice, heap), V)
  BY <1>10 DEF Typed, IsSequence, Grouped, Held
<1>13. Holds(x)
  <2>1. Within(x.slice, heap)
    BY <1>10 DEF Within
  <2>2. Held(x.slice, heap) = <<>>
    BY <1>10 DEF Held
  <2> QED
    BY <1>7, <1>10, <2>1, <2>2 DEF Holds, HoldsIn, Roomy
<1> HIDE DEF x
<1>14. /\ contexts = [c \in 1..Len(contexts) |-> contexts[c]] /\ Len(contexts) = 1
       /\ \A c \in 1..Len(contexts) : contexts[c] = x
  BY <1>8
<1>15. /\ finds = [g \in Callers |-> finds[g]]
       /\ \A g \in Callers : FindTyped(finds[g]) /\ finds[g].open = FALSE
  BY <1>2 DEF Begun, NoFind, FindTyped
<1>16. TypedBy(V)
  BY <1>4, <1>10, <1>11, <1>12, <1>14, <1>15 DEF TypedBy
<1>17. Held(action, heap) = given
  BY <1>2, <1>5, <1>7, <1>10 DEF Held, Begun
<1> QED
  BY <1>13, <1>14, <1>15, <1>16, <1>17 DEF Inv

\* A slice whose array was not written, or behind it only, is as it was.
LEMMA HeldStays ==
  ASSUME NEW V, Arrays(heap, V), NEW slice, Within(slice, heap), NEW arrays, Arrays(arrays, V),
         NEW n \in Nat, slice.len <= n,
         SameFirst(n, heap[slice.arr], arrays[slice.arr]),
         Len(arrays[slice.arr]) = Len(heap[slice.arr]), slice.arr \in DOMAIN arrays
  PROVE  Held(slice, arrays) = Held(slice, heap)
<1> DEFINE old == heap[slice.arr]
           new == arrays[slice.arr]
           len == slice.len
<1>1. /\ old \in Seq(V) /\ new \in Seq(V) /\ len \in Nat /\ len <= Len(old) /\ len <= Len(new)
      /\ \A i \in 1..len : new[i] = old[i]
  <2>1. slice.arr \in DOMAIN heap /\ len \in Nat /\ len <= Len(old)
    BY DEF Within
  <2>2. old \in Seq(V) /\ new \in Seq(V)
    BY <2>1 DEF Arrays
  <2>3. \A i \in 1..n : new[i] = old[i]
    BY DEF SameFirst
  <2> QED
    BY <2>1, <2>2, <2>3
<1> HIDE DEF old, new, len
<1>2. SubSeq(new, 1, len) = SubSeq(old, 1, len)
  BY <1>1
<1> QED
  BY <1>2 DEF Held, old, new, len

LEMMA JoinedArrays ==
  ASSUME NEW V, And \in V, NEW s \in Seq(V), Grouped(s, V), NEW some
  PROVE  Arrays(Joined(s, some), V)
<1> DEFINE W == Seq(V)
           parts == [i \in DOMAIN s |-> s[i][2]]
           first == IF s # <<>> /\ some THEN <<<<And>>>> ELSE <<>>
<1>1. parts \in [1..Len(s) -> W] /\ Len(s) \in Nat
  BY DEF Grouped
<1>2. <<And>> \in W
  OBVIOUS
<1> HIDE DEF W, parts
<1>3. parts \in Seq(W)
  BY <1>1
<1>4. first \in Seq(W)
  BY <1>2
<1> HIDE DEF first
<1>5. first \o parts \in Seq(W)
  BY <1>3, <1>4
<1> QED
  BY <1>5 DEF Joined, Arrays, W, first, parts

\* What other Finds appended is lost to a Find only if there was room, and
\* nothing is lost twice.
LEMMA FindStays ==
  ASSUME NEW mem, Aside(action, mem), Within(action, heap), NEW f, FindTyped(f), FindHolds(f),
         NEW now, now = [f EXCEPT !.lost = @ \/ Changes(mem, f.slice), !.met = TRUE]
  PROVE  /\ FindTyped(now) /\ FindIn(now, mem.heap, contexts, action.arr, action.len)
         /\ ~now.lost => Held(now.slice, mem.heap) = Wanted(now)
<1>1. /\ now.slice = f.slice /\ now.context = f.context /\ now.met = TRUE
      /\ now.lost <=> f.lost \/ Changes(mem, f.slice)
      /\ FindTyped(now)
  BY DEF FindTyped
<1>2. Within(f.slice, heap)
  BY DEF FindHolds, FindIn
<1>3. /\ \A a \in DOMAIN heap : a \in DOMAIN mem.heap /\ Len(mem.heap[a]) = Len(heap[a])
      /\ action.arr \in DOMAIN heap
  BY DEF Aside, Within
<1>4. Within(f.slice, mem.heap)
  BY <1>2, <1>3 DEF Within
<1>5. ASSUME Changes(mem, f.slice) PROVE action.len < Len(mem.heap[action.arr])
  <2>1. mem.heap[f.slice.arr] # heap[f.slice.arr]
    BY <1>5 DEF Changes, Content
  <2>2. action.len # Len(heap[action.arr])
    BY <1>2, <2>1 DEF Aside, Within
  <2>3. action.len <= Len(heap[action.arr]) /\ Len(mem.heap[action.arr]) = Len(heap[action.arr])
    BY DEF Aside, Within
  <2>4. action.len \in Nat /\ Len(heap[action.arr]) \in Nat
    BY DEF Within
  <2> QED
    BY <2>2, <2>3, <2>4
<1>6. FindIn(now, mem.heap, contexts, action.arr, action.len)
  BY <1>1, <1>3, <1>4, <1>5 DEF FindHolds, FindIn
<1>7. ~Changes(mem, f.slice) => Held(f.slice, mem.heap) = Held(f.slice, heap)
  BY DEF Changes, Content, Held
<1>8. Wanted(now) = Wanted(f)
  BY <1>1 DEF Wanted
<1> QED
  BY <1>1, <1>6, <1>7, <1>8 DEF FindHolds

\* find leaves the contexts alone, and the conditions of the action.
LEMMA FindAppendsStep ==
  ASSUME Inv, NEW g \in Callers, NEW c \in DOMAIN contexts, FindAppends(g, c)
  PROVE  Inv'
<1> DEFINE held == extractResolution(c)
           pieces == Joined(held, action.len > 0)
           mem == AppendedAll(action, pieces)
           began == [open |-> TRUE, slice |-> mem.slice, context |-> c, lost |-> contexts[c].lost,
                     met |-> FALSE]
           later(h) == [finds[h] EXCEPT !.lost = @ \/ Changes(mem, finds[h].slice), !.met = TRUE]
<1>1. PICK V : TypedBy(V)
  BY DEF Inv
<1>2. c \in 1..Len(contexts) /\ Typed(contexts[c], V) /\ Holds(contexts[c])
  BY <1>1 DEF TypedBy, Inv
<1>3. held \in Seq(V) /\ Grouped(held, V)
  <2>1. held = Held(contexts[c].slice, heap)
    BY DEF extractResolution, Content, Held
  <2>2. Grouped(held, V)
    BY <1>1, <1>2, <2>1 DEF TypedBy
  <2>3. Held(contexts[c].slice, heap) \in Seq(V)
    <3> DEFINE slice == contexts[c].slice
               array == heap[slice.arr]
    <3>1. slice.arr \in DOMAIN heap /\ slice.len \in Nat /\ slice.len <= Len(array)
      BY <1>2 DEF Holds, HoldsIn, Within
    <3>2. array \in Seq(V)
      BY <1>1, <3>1 DEF TypedBy, Arrays
    <3> HIDE DEF slice, array
    <3>3. SubSeq(array, 1, slice.len) \in Seq(V)
      BY <3>1, <3>2
    <3> QED
      BY <3>3 DEF Held, slice, array
  <2> QED
    BY <2>1, <2>2, <2>3
<1>4. Arrays(pieces, V)
  BY <1>1, <1>3, JoinedArrays DEF TypedBy
<1>5. Cell \in V /\ Arrays(heap, V) /\ Within(action, heap)
  BY <1>1 DEF TypedBy
<1> HIDE DEF pieces
<1>6. /\ Arrays(mem.heap, V) /\ Within(mem.slice, mem.heap) /\ Aside(action, mem)
      /\ Held(mem.slice, mem.heap) = Held(action, heap) \o Flat(pieces)
  BY <1>4, <1>5, AppendedAllAside
<1>7. /\ heap' = mem.heap /\ contexts' = contexts /\ action' = action /\ given' = given
      /\ ~finds[g].open
      /\ finds' = [h \in Callers |-> IF h = g THEN began
                                     ELSE IF finds[h].open THEN later(h) ELSE finds[h]]
  BY DEF FindAppends, pieces
<1> HIDE DEF mem
<1>8. ASSUME NEW d \in 1..Len(contexts)
      PROVE  /\ Held(contexts[d].slice, mem.heap) = Held(contexts[d].slice, heap)
             /\ HoldsIn(contexts[d], mem.heap, action.arr) /\ contexts[d].slice.arr # mem.slice.arr
  <2>1. HoldsIn(contexts[d], heap, action.arr) /\ contexts[d].slice.arr \in DOMAIN heap
    BY DEF Inv, Holds, HoldsIn, Within
  <2>2. /\ mem.heap[contexts[d].slice.arr] = heap[contexts[d].slice.arr]
        /\ contexts[d].slice.arr # mem.slice.arr /\ contexts[d].slice.arr \in DOMAIN mem.heap
    BY <1>6, <2>1 DEF HoldsIn, Aside
  <2> QED
    BY <2>1, <2>2 DEF HoldsIn, Within, Roomy, Held
<1>9. Within(action, mem.heap) /\ Held(action, mem.heap) = given
  <2>1. /\ action.arr \in DOMAIN mem.heap /\ Len(mem.heap[action.arr]) = Len(heap[action.arr])
        /\ SameFirst(action.len, heap[action.arr], mem.heap[action.arr])
        /\ action.len \in Nat /\ action.len <= action.len
    BY <1>5, <1>6 DEF Within, Aside
  <2>2. Held(action, mem.heap) = Held(action, heap)
    BY <1>5, <1>6, <2>1, HeldStays
  <2> QED
    BY <1>5, <2>1, <2>2 DEF Within, Inv
<1>10. FindTyped(began)
  BY <1>2 DEF FindTyped, Typed
<1>11. FindIn(began, mem.heap, contexts, action.arr, action.len)
  <2>1. contexts[c].lost => Len(contexts[c].meant) > 3
    BY <1>2 DEF Holds, HoldsIn
  <2>2. /\ began.slice = mem.slice /\ began.context = c /\ began.lost = contexts[c].lost
    OBVIOUS
  <2> HIDE DEF began
  <2> QED
    BY <1>2, <1>6, <1>8, <2>1, <2>2 DEF FindIn
<1>12. ASSUME ~began.lost PROVE Held(began.slice, mem.heap) = Wanted(began)
  <2>1. held = contexts[c].groups
    BY <1>2, <1>12 DEF Holds, HoldsIn, extractResolution, Content, Held
  <2>2. (action.len > 0) = (given # <<>>)
    <3>1. heap[action.arr] \in Seq(V) /\ action.len \in Nat /\ action.len <= Len(heap[action.arr])
      BY <1>5 DEF Within, Arrays
    <3>2. given = SubSeq(heap[action.arr], 1, action.len)
      BY DEF Inv, Held
    <3>3. given \in Seq(V) /\ Len(given) = action.len
      BY <3>1, <3>2
    <3> QED
      BY <3>1, <3>3
  <2>3. pieces = Joined(contexts[c].groups, given # <<>>)
    BY <2>1, <2>2 DEF pieces
  <2>4. Wanted(began) = given \o Flat(pieces)
    BY <2>3 DEF Wanted
  <2>5. Held(mem.slice, mem.heap) = given \o Flat(pieces)
    BY <1>6 DEF Inv
  <2> QED
    BY <2>4, <2>5
<1>13. ASSUME NEW h \in Callers
       PROVE  /\ FindTyped(finds'[h])
              /\ finds'[h].open => /\ FindIn(finds'[h], mem.heap, contexts, action.arr, action.len)
                                   /\ ~finds'[h].lost => Held(finds'[h].slice, mem.heap) = Wanted(finds'[h])
  <2>1. FindTyped(finds[h]) /\ (finds[h].open => FindHolds(finds[h]))
    BY <1>1 DEF TypedBy, Inv
  <2>2. CASE h = g
    <3>1. finds'[h] = began
      BY <1>7, <2>2
    <3> HIDE DEF began
    <3> QED
      BY <1>10, <1>11, <1>12, <3>1
  <2>3. CASE h # g /\ finds[h].open
    <3> DEFINE f == finds[h]
               now == finds'[h]
    <3>1. now = [f EXCEPT !.lost = @ \/ Changes(mem, f.slice), !.met = TRUE]
      BY <1>7, <2>3
    <3>2. FindTyped(f) /\ FindHolds(f)
      BY <2>1, <2>3
    <3> HIDE DEF f, now
    <3>3. /\ FindTyped(now) /\ FindIn(now, mem.heap, contexts, action.arr, action.len)
          /\ ~now.lost => Held(now.slice, mem.heap) = Wanted(now)
      BY <1>5, <1>6, <3>1, <3>2, FindStays
    <3> QED
      BY <3>3 DEF now
  <2>4. CASE h # g /\ ~finds[h].open
    <3>1. finds'[h] = finds[h]
      BY <1>7, <2>4
    <3> QED
      BY <2>1, <2>4, <3>1
  <2> QED
    BY <2>2, <2>3, <2>4
<1>14. finds' = [h \in Callers |-> finds'[h]]
  BY <1>7
<1>15. ASSUME NEW h \in Callers, finds'[h].open PROVE FindHolds(finds[h])'
  <2>1. Wanted(finds[h])' = Wanted(finds'[h])
    BY <1>7 DEF Wanted
  <2> QED
    BY <1>7, <1>13, <1>15, <2>1 DEF FindHolds
<1>16. TypedBy(V)'
  BY <1>1, <1>6, <1>7, <1>8, <1>9, <1>13, <1>14 DEF TypedBy
<1> QED
  BY <1>7, <1>8, <1>9, <1>15, <1>16 DEF Inv, Holds

LEMMA FindQueriesStep ==
  ASSUME Inv, NEW g \in Callers, FindQueries(g)
  PROVE  Inv'
<1>1. PICK V : TypedBy(V)
  BY DEF Inv
<1>2. /\ heap' = heap /\ contexts' = contexts /\ action' = action /\ given' = given
      /\ finds' = [finds EXCEPT ![g].open = FALSE]
  BY DEF FindQueries
<1>3. ASSUME NEW h \in Callers
      PROVE  FindTyped(finds'[h]) /\ (finds'[h].open => finds'[h] = finds[h])
  <2>1. FindTyped(finds[h]) /\ finds = [k \in Callers |-> finds[k]]
    BY <1>1 DEF TypedBy
  <2>2. CASE h = g
    BY <1>2, <2>1, <2>2 DEF FindTyped
  <2>3. CASE h # g
    BY <1>2, <2>1, <2>3
  <2> QED
    BY <2>2, <2>3
<1>4. finds' = [h \in Callers |-> finds'[h]]
  BY <1>1, <1>2 DEF TypedBy
<1>5. ASSUME NEW h \in Callers, finds'[h].open PROVE FindHolds(finds[h])'
  <2>1. finds'[h] = finds[h] /\ FindHolds(finds[h])
    BY <1>3, <1>5 DEF Inv
  <2> QED
    BY <1>2, <2>1 DEF FindHolds, Wanted
<1>6. TypedBy(V)'
  BY <1>1, <1>2, <1>3, <1>4 DEF TypedBy
<1> QED
  BY <1>2, <1>5, <1>6 DEF Inv, Holds

LEMMA SequencesJoined ==
  ASSUME NEW s, NEW t, IsSequence(s), IsSequence(t)
  PROVE  /\ IsSequence(s \o t) /\ Len(s \o t) = Len(s) + Len(t)
         /\ Len(s) \in Nat /\ Len(t) \in Nat
<1> DEFINE V == ToSet(s) \cup ToSet(t)
           st == s \o t
<1>1. s \in Seq(V) /\ t \in Seq(V)
  BY SequenceOf
<1> HIDE DEF V
<1>2. st \in Seq(V) /\ Len(st) = Len(s) + Len(t)
  BY <1>1
<1> HIDE DEF st
<1>3. st \in Seq(ToSet(st))
  BY <1>2 DEF ToSet
<1> QED
  BY <1>1, <1>2, <1>3 DEF IsSequence, st

\* A context whose cells are written over has more than three: there was room
\* behind the slice that was appended to, and it is longer than that one.
LEMMA ChangedOnlyDeep ==
  ASSUME NEW V, Arrays(heap, V), NEW slice, Within(slice, heap), Roomy(slice, heap),
         NEW new, Arrays(new.heap, V), Frame(Memory(slice), new), Untouched(Memory(slice), new),
         NEW other, Within(other, heap), Changes(new, other)
  PROVE  other.len > 3
<1>1. Memory(slice).heap = heap /\ Memory(slice).slice = slice
  BY DEF Memory
<1>2. Held(other, new.heap) # Held(other, heap)
  BY DEF Changes, Content, Held
<1>3. other.arr = slice.arr
  <2> SUFFICES ASSUME other.arr # slice.arr PROVE FALSE
    OBVIOUS
  <2>1. new.heap[other.arr] = heap[other.arr]
    BY <1>1 DEF Frame, Within
  <2> QED
    BY <1>2, <2>1 DEF Held
<1>4. slice.len # Len(heap[slice.arr])
  BY <1>1, <1>2, <1>3 DEF Untouched, Held
<1>5. ~(other.len <= slice.len)
  <2> SUFFICES ASSUME other.len <= slice.len PROVE FALSE
    OBVIOUS
  <2>1. /\ SameFirst(slice.len, heap[other.arr], new.heap[other.arr])
        /\ other.arr \in DOMAIN new.heap /\ Len(new.heap[other.arr]) = Len(heap[other.arr])
        /\ slice.len \in Nat
    BY <1>1, <1>3 DEF Frame, Within
  <2> QED
    BY <1>2, <2>1, HeldStays
<1>6. slice.len \in Nat /\ other.len \in Nat
  BY DEF Within
<1> QED
  BY <1>4, <1>5, <1>6 DEF Roomy

\* Groups stay groups when groups are written over them.
LEMMA GroupedStays ==
  ASSUME NEW V, Arrays(heap, V), NEW mem, mem.heap = heap, Within(mem.slice, heap),
         NEW groups, groups \in Seq(V), Grouped(groups, V),
         NEW new, Arrays(new.heap, V), Frame(mem, new), WroteBehind(mem, groups, new),
         NEW slice, Within(slice, heap), Within(slice, new.heap), Grouped(Held(slice, heap), V)
  PROVE  Grouped(Held(slice, new.heap), V)
<1> DEFINE W == Seq(V)
           old == heap[slice.arr]
           written == new.heap[slice.arr]
           len == slice.len
<1>1. /\ old \in W /\ written \in W /\ len \in Nat /\ len <= Len(old) /\ len <= Len(written)
      /\ Len(old) = Len(written)
  BY DEF Within, Arrays, Frame
<1>2. /\ Len(SubSeq(old, 1, len)) = len /\ \A i \in 1..len : SubSeq(old, 1, len)[i] = old[i]
      /\ Len(SubSeq(written, 1, len)) = len /\ \A i \in 1..len : SubSeq(written, 1, len)[i] = written[i]
  BY <1>1
<1>3. \A i \in 1..len : old[i][2] \in W
  BY <1>2 DEF Grouped, Held
<1>4. \A i \in 1..Len(groups) : groups[i][2] \in W
  BY DEF Grouped
<1>5. \A i \in 1..Len(old) : written[i] = old[i] \/ \E j \in 1..Len(groups) : written[i] = groups[j]
  <2>1. CASE slice.arr = mem.slice.arr
    BY <2>1 DEF WroteBehind, Overwritten
  <2>2. CASE slice.arr # mem.slice.arr
    BY <2>2 DEF Frame, Within
  <2> QED
    BY <2>1, <2>2
<1> HIDE DEF W, old, written, len
<1>6. \A i \in 1..len : i \in 1..Len(old)
  <2>1. Len(old) \in Nat
    BY <1>1 DEF W
  <2> QED
    BY <1>1, <2>1
<1>7. \A i \in 1..len : written[i][2] \in W
  BY <1>3, <1>4, <1>5, <1>6
<1> QED
  BY <1>2, <1>7 DEF Grouped, Held, W, written, len

LEMMA GroupedJoined ==
  ASSUME NEW V, NEW s \in Seq(V), NEW t \in Seq(V), Grouped(s, V), Grouped(t, V)
  PROVE  Grouped(s \o t, V)
<1> DEFINE W == Seq(V)
<1>1. Len(s) \in Nat /\ Len(t) \in Nat /\ Len(s \o t) = Len(s) + Len(t)
  OBVIOUS
<1>2. \A i \in 1..(Len(s) + Len(t)) : (s \o t)[i] = IF i <= Len(s) THEN s[i] ELSE t[i - Len(s)]
  OBVIOUS
<1>3. (\A i \in 1..Len(s) : s[i][2] \in W) /\ \A i \in 1..Len(t) : t[i][2] \in W
  BY DEF Grouped
<1> HIDE DEF W
<1>4. ASSUME NEW i \in 1..(Len(s) + Len(t)) PROVE (s \o t)[i][2] \in W
  <2>1. CASE i <= Len(s)
    <3>1. i \in 1..Len(s)
      BY <1>1, <2>1
    <3> QED
      BY <1>2, <1>3, <2>1, <3>1
  <2>2. CASE ~(i <= Len(s))
    <3>1. i - Len(s) \in 1..Len(t)
      BY <1>1, <2>2
    <3> QED
      BY <1>2, <1>3, <2>2, <3>1
  <2> QED
    BY <2>1, <2>2
<1> QED
  BY <1>1, <1>4 DEF Grouped, W

\* InjectResolution, with any resolutions.
LEMMA InjectResolutionStep ==
  ASSUME Inv, NEW c \in DOMAIN contexts, NEW queries, NEW groups,
         IsSequence(queries), IsSequence(groups), Len(groups) = Len(queries),
         \A i \in DOMAIN groups : IsGroup(groups[i]),
         InjectResolution(c, queries, groups)
  PROVE  Inv'
<1> DEFINE n == Len(contexts)
           from == contexts[c]
           mem == Memory(from.slice)
           new == Appended(mem, groups)
           kept == [d \in 1..n |->
                      [contexts[d] EXCEPT !.lost = @ \/ Changes(new, contexts[d].slice)]]
           derived == [slice |-> new.slice, meant |-> from.meant \o queries,
                       groups |-> from.groups \o groups, lost |-> from.lost]
<1>1. PICK V0 : TypedBy(V0)
  BY DEF Inv
<1> DEFINE V == V0 \cup ToSet(groups) \cup UNION {ToSet(groups[i][2]) : i \in DOMAIN groups}
<1>2. /\ V0 \subseteq V /\ ToSet(groups) \subseteq V
      /\ \A i \in DOMAIN groups : ToSet(groups[i][2]) \subseteq V
  OBVIOUS
<1> HIDE DEF V
<1>3. TypedBy(V) /\ groups \in Seq(V) /\ Grouped(groups, V)
  <2>1. TypedBy(V) /\ groups \in Seq(V)
    BY <1>1, <1>2, TypedByMore, SequenceOf
  <2>2. \A i \in DOMAIN groups : groups[i][2] \in Seq(V)
    BY <1>2, SequenceOf DEF IsGroup
  <2> QED
    BY <2>1, <2>2 DEF Grouped
<1>4. n \in Nat /\ DOMAIN contexts = 1..n /\ contexts = [d \in 1..n |-> contexts[d]]
  BY <1>3 DEF TypedBy
<1>5. /\ heap' = new.heap /\ action' = action /\ contexts' = Append(kept, derived)
      /\ given' = given /\ finds' = finds
  BY <1>4 DEF InjectResolution
<1>6. c \in 1..n /\ Typed(from, V) /\ Holds(from)
  BY <1>3, <1>4 DEF TypedBy, Inv
<1>7. mem.heap = heap /\ mem.slice = from.slice
  BY DEF Memory
<1>8. /\ Arrays(new.heap, V)
      /\ Frame(mem, new) /\ Longer(mem, groups, new) /\ Untouched(mem, new)
      /\ WroteBehind(mem, groups, new)
  <2>1. Arrays(mem.heap, V) /\ Within(mem.slice, mem.heap) /\ Cell \in V
    BY <1>3, <1>6, <1>7 DEF TypedBy, Holds, HoldsIn
  <2> HIDE DEF mem
  <2> QED
    BY <1>3, <2>1, AppendedIs
<1> HIDE DEF new
<1>9. /\ DOMAIN heap \subseteq DOMAIN new.heap
      /\ \A a \in DOMAIN heap : Len(new.heap[a]) = Len(heap[a])
  BY <1>7, <1>8 DEF Frame
<1>10. /\ contexts' = [d \in 1..(n + 1) |-> contexts'[d]] /\ Len(contexts') = n + 1
       /\ \A d \in 1..(n + 1) : contexts'[d] = IF d = n + 1 THEN derived ELSE kept[d]
  <2> DEFINE S == {kept[d] : d \in 1..n} \cup {derived}
  <2>1. kept \in [1..n -> S] /\ derived \in S
    OBVIOUS
  <2> HIDE DEF kept, derived, S
  <2>2. kept \in Seq(S) /\ Len(kept) = n
    BY <1>4, <2>1
  <2> DEFINE more == Append(kept, derived)
  <2>3. more \in Seq(S) /\ Len(more) = n + 1
    BY <2>1, <2>2
  <2>4. \A d \in 1..(n + 1) : more[d] = IF d = n + 1 THEN derived ELSE kept[d]
    BY <1>4, <2>1, <2>2
  <2>5. contexts' = more
    BY <1>5
  <2> HIDE DEF n, more
  <2> QED
    BY <2>3, <2>4, <2>5
<1>11. ASSUME NEW d \in 1..n
       PROVE  /\ Typed(kept[d], V) /\ HoldsIn(kept[d], new.heap, action.arr)
              /\ Grouped(Held(kept[d].slice, new.heap), V)
              /\ kept[d].slice = contexts[d].slice /\ kept[d].meant = contexts[d].meant
              /\ kept[d].groups = contexts[d].groups
  <2> DEFINE x == contexts[d]
             y == kept[d]
  <2>1. Typed(x, V) /\ Holds(x)
    BY <1>3, <1>4 DEF TypedBy, Inv
  <2>2. /\ y.slice = x.slice /\ y.meant = x.meant /\ y.groups = x.groups
        /\ y.lost <=> x.lost \/ Changes(new, x.slice)
        /\ Typed(y, V)
    BY <2>1 DEF Typed
  <2> HIDE DEF x, y
  <2>3. Within(x.slice, new.heap) /\ Roomy(x.slice, new.heap)
    BY <1>9, <2>1 DEF Holds, HoldsIn, Within, Roomy
  <2>4. ASSUME Changes(new, x.slice) PROVE x.slice.len > 3
    BY <1>3, <1>6, <1>8, <2>1, <2>4, ChangedOnlyDeep DEF TypedBy, Holds, HoldsIn
  <2>5. ~Changes(new, x.slice) => Held(x.slice, new.heap) = Held(x.slice, heap)
    BY DEF Changes, Content, Held
  <2>6. HoldsIn(y, new.heap, action.arr)
    BY <2>1, <2>2, <2>3, <2>4, <2>5 DEF Holds, HoldsIn
  <2>7. Grouped(Held(x.slice, heap), V)
    BY <1>3 DEF TypedBy, x
  <2>8. Grouped(Held(x.slice, new.heap), V)
    BY <1>3, <1>6, <1>7, <1>8, <2>1, <2>3, <2>7, GroupedStays DEF TypedBy, Holds, HoldsIn
  <2> QED
    BY <2>2, <2>6, <2>8 DEF x, y
<1>12. /\ Typed(derived, V) /\ HoldsIn(derived, new.heap, action.arr)
       /\ Grouped(Held(derived.slice, new.heap), V)
       /\ derived.slice.arr = from.slice.arr \/ derived.slice.arr \notin DOMAIN heap
  <2>1. /\ Within(new.slice, new.heap) /\ Roomy(new.slice, new.heap)
        /\ new.slice.len = from.slice.len + Len(groups)
        /\ new.slice.arr = from.slice.arr \/ new.slice.arr \notin DOMAIN heap
        /\ Held(new.slice, new.heap) = Held(from.slice, heap) \o groups
    BY <1>6, <1>7, <1>8 DEF Longer, Holds, HoldsIn
  <2>2. new.slice.arr # action.arr
    BY <1>3, <1>6, <2>1 DEF TypedBy, Within, Holds, HoldsIn
  <2>3. /\ IsSequence(from.meant \o queries)
        /\ Len(from.meant \o queries) = Len(from.meant) + Len(queries)
        /\ Len(groups) \in Nat /\ Len(from.meant) \in Nat
    BY <1>6, SequencesJoined DEF Typed
  <2>4. from.groups \o groups \in Seq(V) /\ from.lost \in BOOLEAN
    BY <1>3, <1>6 DEF Typed
  <2>5. /\ derived.slice = new.slice /\ derived.meant = from.meant \o queries
        /\ derived.groups = from.groups \o groups /\ derived.lost = from.lost
        /\ Typed(derived, V)
    BY <2>3, <2>4 DEF Typed
  <2> HIDE DEF derived, from
  <2>6. from.lost => new.slice.len > 3
    BY <1>6, <2>1, <2>3 DEF Holds, HoldsIn
  <2>7. ~from.lost => Held(new.slice, new.heap) = from.groups \o groups
    BY <1>6, <2>1 DEF Holds, HoldsIn
  <2>8. new.slice.len = Len(from.meant) + Len(queries)
    BY <1>6, <2>1 DEF Holds, HoldsIn
  <2>9. derived.slice.len = Len(derived.meant) /\ derived.slice.arr # action.arr
    BY <2>2, <2>3, <2>5, <2>8
  <2>10. Within(derived.slice, new.heap) /\ Roomy(derived.slice, new.heap)
    BY <2>1, <2>5
  <2>11. /\ derived.lost => derived.slice.len > 3
         /\ ~derived.lost => Held(derived.slice, new.heap) = derived.groups
    BY <2>5, <2>6, <2>7
  <2>12. Grouped(Held(new.slice, new.heap), V)
    <3>1. Held(from.slice, heap) \in Seq(V)
      <4>1. Arrays(heap, V) /\ Within(from.slice, heap)
        BY <1>3, <1>6 DEF TypedBy, Holds, HoldsIn
      <4> DEFINE slice == from.slice
      <4> HIDE DEF slice
      <4>2. heap[slice.arr] \in Seq(V) /\ slice.len \in 0..Len(heap[slice.arr])
        BY <4>1 DEF Within, Arrays, slice
      <4> DEFINE array == heap[slice.arr]
      <4> HIDE DEF array
      <4>3. SubSeq(array, 1, slice.len) \in Seq(V)
        BY <4>2 DEF array
      <4> QED
        BY <4>3 DEF Held, array, slice
    <3>2. Grouped(Held(from.slice, heap), V)
      BY <1>3, <1>6 DEF TypedBy, from
    <3> QED
      BY <1>3, <2>1, <3>1, <3>2, GroupedJoined
  <2> QED
    BY <2>1, <2>5, <2>9, <2>10, <2>11, <2>12 DEF HoldsIn
<1> HIDE DEF kept, derived
<1>13. ASSUME NEW d \in 1..(n + 1)
       PROVE  /\ Typed(contexts'[d], V) /\ HoldsIn(contexts'[d], new.heap, action.arr)
              /\ Grouped(Held(contexts'[d].slice, new.heap), V)
  <2>1. CASE d = n + 1
    BY <1>10, <1>12, <2>1
  <2>2. CASE d # n + 1
    <3>1. d \in 1..n
      BY <1>4, <2>2
    <3> QED
      BY <1>10, <1>11, <2>2, <3>1
  <2> QED
    BY <2>1, <2>2
<1>14. Within(action, new.heap) /\ new.heap[action.arr] = heap[action.arr]
  BY <1>3, <1>6, <1>7, <1>8, <1>9 DEF TypedBy, Within, Frame, Holds, HoldsIn
<1>15. TypedBy(V)'
  <2>1. Cell \in V /\ And \in V
    BY <1>3 DEF TypedBy
  <2>2. finds = [g \in Callers |-> finds[g]] /\ \A g \in Callers : FindTyped(finds[g])
    BY <1>3 DEF TypedBy
  <2> HIDE DEF n
  <2> QED
    BY <1>4, <1>5, <1>8, <1>10, <1>13, <1>14, <2>1, <2>2 DEF TypedBy
<1>16. ASSUME NEW g \in Callers, finds'[g].open PROVE FindHolds(finds[g])'
  <2> DEFINE f == finds[g]
  <2>1. FindHolds(f) /\ finds'[g] = f
    BY <1>5, <1>16 DEF Inv
  <2> HIDE DEF f
  <2>2. /\ f.context \in 1..n /\ f.slice.arr \in DOMAIN heap /\ Within(f.slice, heap)
        /\ \A d \in 1..n : contexts[d].slice.arr # f.slice.arr
        /\ f.lost => Len(contexts[f.context].meant) > 3
                     \/ (f.met /\ action.len < Len(heap[action.arr]))
    BY <2>1 DEF FindHolds, FindIn, Within
  <2>3. new.heap[f.slice.arr] = heap[f.slice.arr] /\ f.slice.arr \in DOMAIN new.heap
    BY <1>6, <1>7, <1>8, <1>9, <2>2 DEF Frame
  <2>4. Within(f.slice, new.heap) /\ Held(f.slice, new.heap) = Held(f.slice, heap)
    BY <2>2, <2>3 DEF Within, Held
  <2>5. ASSUME NEW d \in 1..(n + 1) PROVE contexts'[d].slice.arr # f.slice.arr
    <3>1. CASE d = n + 1
      BY <1>6, <1>10, <1>12, <2>2, <3>1
    <3>2. CASE d # n + 1
      <4>1. d \in 1..n
        BY <1>4, <3>2
      <4> QED
        BY <1>10, <1>11, <2>2, <3>2, <4>1
    <3> QED
      BY <3>1, <3>2
  <2>6. /\ f.context \in 1..(n + 1) /\ f.context # n + 1
        /\ contexts'[f.context].meant = contexts[f.context].meant
        /\ contexts'[f.context].groups = contexts[f.context].groups
    <3>1. f.context \in 1..(n + 1) /\ f.context # n + 1
      BY <1>4, <2>2
    <3> QED
      BY <1>10, <1>11, <2>2, <3>1
  <2>7. FindIn(f, new.heap, contexts', action.arr, action.len)
    BY <1>10, <1>14, <2>2, <2>4, <2>5, <2>6 DEF FindIn
  <2>8. ~f.lost => Held(f.slice, new.heap) = Wanted(f)
    BY <2>1, <2>4 DEF FindHolds
  <2>9. Wanted(finds[g])' = Wanted(f)
    BY <1>5, <2>1, <2>6 DEF Wanted
  <2> QED
    BY <1>5, <2>1, <2>7, <2>8, <2>9 DEF FindHolds
<1>17. Held(action, heap)' = given'
  BY <1>5, <1>14 DEF Inv, Held
<1>18. \A d \in 1..Len(contexts') : Holds(contexts[d])'
  BY <1>5, <1>10, <1>13 DEF Holds
<1> QED
  BY <1>15, <1>16, <1>17, <1>18 DEF Inv

LEMMA InvInductive == Inv /\ [ContextsNext]_contextVars => Inv'
<1> SUFFICES ASSUME Inv, [ContextsNext]_contextVars PROVE Inv'
  OBVIOUS
<1>1. CASE UNCHANGED contextVars
  <2>1. heap' = heap /\ contexts' = contexts /\ action' = action /\ given' = given /\ finds' = finds
    BY <1>1 DEF contextVars
  <2> QED
    BY <2>1 DEF Inv, TypedBy, Holds, FindHolds, Wanted
<1>2. ASSUME NEW c \in DOMAIN contexts, NEW queries, NEW groups,
             IsSequence(queries), IsSequence(groups), Len(groups) = Len(queries),
             \A i \in DOMAIN groups : IsGroup(groups[i]),
             InjectResolution(c, queries, groups)
      PROVE  Inv'
  BY <1>2, InjectResolutionStep
<1>3. ASSUME NEW g \in Callers, NEW c \in DOMAIN contexts, FindAppends(g, c)
      PROVE  Inv'
  BY <1>3, FindAppendsStep
<1>4. ASSUME NEW g \in Callers, FindQueries(g)
      PROVE  Inv'
  BY <1>4, FindQueriesStep
<1> QED
  BY <1>1, <1>2, <1>3, <1>4 DEF ContextsNext

\* Whatever is injected into whichever contexts, and however many Finds are
\* under way: a context loses resolutions only if it has more than three, the
\* action never loses a condition, and a Find sends the conditions and the
\* resolutions of its context unless such a context, or another Find that
\* appends to the same array meanwhile, took some (InjectResolution in
\* sqlike/context.go, find in sqlike/find.go).
THEOREM SlicesHold == ContextsSpec => []SlicesKept
<1>1. ASSUME Inv PROVE SlicesKept
  <2>1. DOMAIN contexts = 1..Len(contexts)
    BY <1>1 DEF Inv, TypedBy
  <2>2. ContextsKept
    <3> SUFFICES ASSUME NEW c \in DOMAIN contexts
                 PROVE  /\ contexts[c].lost => Len(contexts[c].meant) > 3
                        /\ ~contexts[c].lost => extractResolution(c) = contexts[c].groups
      BY DEF ContextsKept
    <3>1. Holds(contexts[c])
      BY <1>1, <2>1 DEF Inv
    <3> QED
      BY <3>1 DEF Holds, HoldsIn, Held, Content, extractResolution
  <2>3. ActionKept
    BY <1>1 DEF Inv, ActionKept, Held, Content
  <2>4. FindsKept
    <3> SUFFICES ASSUME NEW g \in Callers, finds[g].open
                 PROVE  /\ finds[g].lost => Len(contexts[finds[g].context].meant) > 3 \/ Crowded(finds[g])
                        /\ ~finds[g].lost => Content(finds[g].slice) = Wanted(finds[g])
      BY DEF FindsKept
    <3>1. FindHolds(finds[g])
      BY <1>1 DEF Inv
    <3> QED
      BY <3>1 DEF FindHolds, FindIn, Crowded, Held, Content
  <2> QED
    BY <2>2, <2>3, <2>4 DEF SlicesKept
<1> QED
  BY <1>1, InvInitially, InvInductive, PTL DEF ContextsSpec

-----------------------------------------------------------------------------
(* The path of a key is read as it was written.                             *)

\* What Split makes of one more token.
Parted(parts, c, sep) ==
    IF c = sep THEN Append(parts, <<>>)
    ELSE [parts EXCEPT ![Len(parts)] = Append(@, c)]

\* At least one part.
Lists(V) == Seq(Seq(V))
PartsOf(V) == {parts \in Lists(V) : Len(parts) > 0}

\* f is the parts of each prefix of s.
Splits(f, s, sep, V) ==
    /\ f \in [0..Len(s) -> PartsOf(V)] /\ f[0] = <<<<>>>>
    /\ \A n \in 1..Len(s) : f[n] = Parted(f[n - 1], s[n], sep)

Free(s, c) == \A i \in 1..Len(s) : s[i] # c

LEMMA PartedIn ==
  ASSUME NEW V, NEW parts \in PartsOf(V), NEW c \in V, NEW sep
  PROVE  Parted(parts, c, sep) \in PartsOf(V)
<1> DEFINE W == Seq(V)
           n == Len(parts)
           last == parts[n]
           longer == Append(last, c)
<1>1. parts \in Seq(W) /\ n \in Nat /\ n > 0 /\ n \in 1..n
  BY DEF PartsOf, Lists
<1>2. last \in W
  BY <1>1
<1>3. longer \in W /\ <<>> \in W
  BY <1>2
<1> HIDE DEF W, longer
<1>4. Append(parts, <<>>) \in Seq(W) /\ Len(Append(parts, <<>>)) = n + 1
  BY <1>1, <1>3
<1>5. [parts EXCEPT ![n] = longer] \in Seq(W) /\ Len([parts EXCEPT ![n] = longer]) = n
  BY <1>1, <1>3
<1> HIDE DEF n, last
<1> QED
  BY <1>1, <1>4, <1>5 DEF Parted, PartsOf, Lists, W, longer, n, last

LEMMA SplitIs ==
  ASSUME NEW V, NEW s \in Seq(V), NEW sep
  PROVE  \E f : Splits(f, s, sep, V) /\ Split(s, sep) = f[Len(s)]
<1> DEFINE N == Len(s)
           S == PartsOf(V)
           base == <<<<>>>>
           step == [x \in S \X (1..N) |-> Parted(x[1], s[x[2]], sep)]
           Is(f) == f = [n \in 0..N |->
                           IF n = 0 THEN <<<<>>>>
                           ELSE IF s[n] = sep THEN Append(f[n - 1], <<>>)
                           ELSE [f[n - 1] EXCEPT ![Len(f[n - 1])] = Append(@, s[n])]]
<1>1. N \in Nat /\ \A n \in 1..N : s[n] \in V
  OBVIOUS
<1>2. base \in S
  <2> DEFINE W == Seq(V)
  <2>1. <<>> \in W
    OBVIOUS
  <2> HIDE DEF W
  <2>2. <<<<>>>> \in Seq(W)
    BY <2>1
  <2> QED
    BY <2>2 DEF PartsOf, Lists, W
<1>3. ASSUME NEW parts \in S, NEW n \in 1..N
      PROVE  step[<<parts, n>>] = Parted(parts, s[n], sep) /\ Parted(parts, s[n], sep) \in S
  BY <1>1, PartedIn
<1>4. step \in [S \X (1..N) -> S]
  <2>1. \A x \in S \X (1..N) : x[1] \in S /\ x[2] \in 1..N /\ x = <<x[1], x[2]>>
    OBVIOUS
  <2>2. \A x \in S \X (1..N) : step[x] \in S
    BY <1>3, <2>1
  <2>3. step = [x \in S \X (1..N) |-> step[x]]
    OBVIOUS
  <2> HIDE DEF step, S
  <2> QED
    BY <2>2, <2>3
<1> HIDE DEF step, base, S, N
<1>5. PICK f : Iteration(f, N, S, base, step)
  BY <1>1, <1>2, <1>4, Iterates
<1>6. ASSUME NEW n \in 1..N PROVE n - 1 \in 0..N /\ f[n] = Parted(f[n - 1], s[n], sep)
  <2>1. n - 1 \in 0..N
    BY <1>1
  <2>2. f[n - 1] \in S /\ f[n] = step[<<f[n - 1], n>>]
    BY <1>5, <2>1 DEF Iteration
  <2> QED
    BY <1>3, <2>1, <2>2
<1>7. f \in [0..N -> S] /\ f[0] = base
  BY <1>5 DEF Iteration
<1>8. Is(f)
  <2>1. \A n \in 0..N : n = 0 \/ n \in 1..N
    BY <1>1
  <2>2. f = [n \in 0..N |-> f[n]]
    BY <1>7
  <2> QED
    BY <1>6, <1>7, <2>1, <2>2 DEF Parted, base
<1> DEFINE h == CHOOSE g : Is(g)
<1>9. Is(h)
  BY <1>8
<1>10. Split(s, sep) = h[N]
  BY DEF Split, N
<1> HIDE DEF h
<1>11. \A n \in 0..N : h[n] = f[n]
  <2> DEFINE T == {n \in 0..N : h[n] = f[n]}
  <2>1. h[0] = base /\ \A n \in 1..N : h[n] = Parted(h[n - 1], s[n], sep)
    <3>1. 0 \in 0..N /\ \A n \in 1..N : n \in 0..N /\ n # 0
      BY <1>1
    <3> QED
      BY <1>9, <3>1 DEF Parted, base
  <2> HIDE DEF Is
  <2>2. 0 \in T
    BY <1>1, <1>7, <2>1
  <2>3. ASSUME NEW n \in 0..(N - 1), n \in T PROVE n + 1 \in T
    <3>1. n + 1 \in 1..N /\ n + 1 \in 0..N /\ (n + 1) - 1 = n
      BY <1>1
    <3> QED
      BY <1>6, <2>1, <2>3, <3>1
  <2> HIDE DEF T
  <2>4. \A n \in 0..N : n \in T
    BY <1>1, <2>2, <2>3, UpTo
  <2> QED
    BY <2>4 DEF T
<1>12. Split(s, sep) = f[N]
  <2>1. N \in 0..N
    BY <1>1
  <2> QED
    BY <1>10, <1>11, <2>1
<1> QED
  BY <1>6, <1>7, <1>12 DEF Splits, N, S, base

LEMMA SplitIn ==
  ASSUME NEW V, NEW s \in Seq(V), NEW sep
  PROVE  Split(s, sep) \in PartsOf(V)
<1>1. PICK f : Splits(f, s, sep, V) /\ Split(s, sep) = f[Len(s)]
  BY SplitIs
<1>2. Len(s) \in 0..Len(s)
  OBVIOUS
<1> QED
  BY <1>1, <1>2 DEF Splits

\* Another character goes to the last part.
LEMMA PartedLast ==
  ASSUME NEW V, NEW parts \in Lists(V), NEW last \in Seq(V), NEW c \in V, NEW sep, c # sep
  PROVE  Parted(Append(parts, last), c, sep) = Append(parts, Append(last, c))
<1> DEFINE W == Seq(V)
           n == Len(parts) + 1
           longer == Append(last, c)
           all == Append(parts, last)
           left == [all EXCEPT ![n] = longer]
           right == Append(parts, longer)
<1>1. parts \in Seq(W) /\ last \in W /\ longer \in W
  BY DEF Lists
<1> HIDE DEF W, longer
<1>2. all \in Seq(W) /\ Len(all) = n /\ all[n] = last /\ n \in Nat
  BY <1>1
<1>3. left \in Seq(W) /\ Len(left) = n /\ \A i \in 1..n : left[i] = IF i = n THEN longer ELSE parts[i]
  <2>1. \A i \in 1..n : all[i] = IF i = n THEN last ELSE parts[i]
    BY <1>1
  <2>2. all \in Seq(W) /\ Len(all) = n /\ n \in 1..n
    BY <1>1, <1>2
  <2> HIDE DEF all, n
  <2>3. left \in Seq(W) /\ Len(left) = n
    BY <1>1, <2>2
  <2>4. \A i \in 1..n : left[i] = IF i = n THEN longer ELSE all[i]
    BY <1>1, <2>2
  <2> QED
    BY <2>1, <2>3, <2>4
<1>4. right \in Seq(W) /\ Len(right) = n /\ \A i \in 1..n : right[i] = IF i = n THEN longer ELSE parts[i]
  BY <1>1
<1>5. Parted(all, c, sep) = left
  BY <1>2 DEF Parted, longer
<1>6. left = right
  <2> HIDE DEF left, right, n
  <2> QED
    BY <1>2, <1>3, <1>4
<1> QED
  BY <1>5, <1>6 DEF longer

\* One character more of a sequence.
LEMMA PrefixMore ==
  ASSUME NEW V, NEW s \in Seq(V), NEW n \in 0..(Len(s) - 1)
  PROVE  /\ SubSeq(s, 1, n) \in Seq(V) /\ s[n + 1] \in V
         /\ SubSeq(s, 1, n + 1) = Append(SubSeq(s, 1, n), s[n + 1])
<1> DEFINE left == SubSeq(s, 1, n + 1)
           before == SubSeq(s, 1, n)
           right == Append(before, s[n + 1])
<1>1. n \in Nat /\ n + 1 \in 1..Len(s) /\ s[n + 1] \in V
  OBVIOUS
<1>2. before \in Seq(V) /\ Len(before) = n /\ \A i \in 1..n : before[i] = s[i]
  BY <1>1
<1>3. left \in Seq(V) /\ Len(left) = n + 1 /\ \A i \in 1..(n + 1) : left[i] = s[i]
  BY <1>1
<1> HIDE DEF before
<1>4. /\ right \in Seq(V) /\ Len(right) = n + 1
      /\ \A i \in 1..(n + 1) : right[i] = IF i = n + 1 THEN s[n + 1] ELSE before[i]
  BY <1>1, <1>2
<1>5. \A i \in 1..(n + 1) : left[i] = right[i]
  BY <1>1, <1>2, <1>3, <1>4
<1> HIDE DEF left, right
<1>6. left = right
  BY <1>3, <1>4, <1>5
<1> QED
  BY <1>1, <1>2, <1>6 DEF left, right, before

\* Behind a separator, what has none is a part of its own.
LEMMA SplitMore ==
  ASSUME NEW V, NEW s \in Seq(V), NEW sep, NEW b \in Seq(V), Free(b, sep),
         NEW f, Splits(f, s, sep, V), NEW m \in Nat, m + Len(b) = Len(s),
         Follows(m, b, s),
         NEW parts \in Lists(V), f[m] = Append(parts, <<>>)
  PROVE  f[Len(s)] = Append(parts, b)
<1> DEFINE N == Len(b)
           Ok(i) == f[m + i] = Append(parts, SubSeq(b, 1, i))
           T == {i \in 0..N : Ok(i)}
<1>1. N \in Nat /\ Len(s) \in Nat /\ SubSeq(b, 1, 0) = <<>> /\ SubSeq(b, 1, N) = b
  OBVIOUS
<1>2. 0 \in T
  <2>1. m + 0 = m /\ 0 \in 0..N
    BY <1>1
  <2>2. Append(parts, SubSeq(b, 1, 0)) = Append(parts, <<>>)
    BY <1>1
  <2>3. Ok(0)
    BY <2>1, <2>2
  <2> HIDE DEF Ok
  <2> QED
    BY <2>1, <2>3
<1>3. ASSUME NEW i \in 0..(N - 1), Ok(i) PROVE Ok(i + 1)
  <2> DEFINE last == SubSeq(b, 1, i)
             c == b[i + 1]
  <2>1. m + (i + 1) \in 1..Len(s) /\ (m + (i + 1)) - 1 = m + i /\ i + 1 \in 1..N
    BY <1>1
  <2>2. last \in Seq(V) /\ c \in V /\ SubSeq(b, 1, i + 1) = Append(last, c)
    BY PrefixMore
  <2>3. c # sep /\ s[m + (i + 1)] = c
    BY <2>1 DEF Free, Follows
  <2> HIDE DEF last, c
  <2>4. f[m + (i + 1)] = Parted(f[m + i], c, sep)
    BY <2>1, <2>3 DEF Splits
  <2>5. f[m + i] = Append(parts, last)
    BY <1>3 DEF last
  <2>6. Parted(Append(parts, last), c, sep) = Append(parts, Append(last, c))
    <3>1. last \in Seq(V) /\ c \in V
      BY <2>2
    <3>2. c # sep
      BY <2>3
    <3> QED
      BY <3>1, <3>2, PartedLast
  <2> QED
    BY <2>2, <2>4, <2>5, <2>6
<1>4. \A i \in 0..N : i \in T
  <2>1. ASSUME NEW i \in 0..(N - 1), i \in T PROVE i + 1 \in T
    <3>1. i + 1 \in 0..N
      BY <1>1
    <3> QED
      BY <1>3, <2>1, <3>1
  <2> HIDE DEF T
  <2> QED
    BY <1>1, <1>2, <2>1, UpTo
<1>5. Ok(N)
  <2>1. N \in 0..N
    BY <1>1
  <2>2. N \in T
    BY <1>4, <2>1
  <2> HIDE DEF Ok
  <2> QED
    BY <2>2
<1> QED
  BY <1>1, <1>5

LEMMA SplitWhole ==
  ASSUME NEW V, NEW s \in Seq(V), NEW sep, Free(s, sep)
  PROVE  Split(s, sep) = <<s>>
<1>1. PICK f : Splits(f, s, sep, V) /\ Split(s, sep) = f[Len(s)]
  BY SplitIs
<1> DEFINE none == <<>>
<1>2. none \in Lists(V) /\ f[0] = Append(none, <<>>) /\ Append(none, s) = <<s>>
  BY <1>1 DEF Splits, Lists
<1>3. 0 \in Nat /\ 0 + Len(s) = Len(s) /\ Follows(0, s, s)
  BY DEF Follows
<1> HIDE DEF none
<1>4. f[Len(s)] = Append(none, s)
  <2>1. none \in Lists(V)
    BY <1>2
  <2>2. f[0] = Append(none, <<>>)
    BY <1>2
  <2>3. Splits(f, s, sep, V)
    BY <1>1
  <2> QED
    BY <1>3, <2>1, <2>2, <2>3, SplitMore
<1> QED
  BY <1>1, <1>2, <1>4

LEMMA Wider ==
  ASSUME NEW V, NEW W, V \subseteq W, NEW s \in Seq(V)
  PROVE  s \in Seq(W)
<1>1. s = [i \in 1..Len(s) |-> s[i]] /\ Len(s) \in Nat /\ \A i \in 1..Len(s) : s[i] \in W
  OBVIOUS
<1> QED
  BY <1>1

Parts(s, a, sep, b) ==
    /\ Len(s) = Len(a) + 1 + Len(b) /\ s[Len(a) + 1] = sep
    /\ \A i \in 1..Len(a) : s[i] = a[i]
    /\ \A i \in 1..Len(b) : s[Len(a) + 1 + i] = b[i]

\* Two sequences with one token between them.
LEMMA Between ==
  ASSUME NEW V, NEW a \in Seq(V), NEW sep \in V, NEW b \in Seq(V)
  PROVE  (a \o <<sep>>) \o b \in Seq(V) /\ Parts((a \o <<sep>>) \o b, a, sep, b)
  BY DEF Parts

LEMMA Pair ==
  ASSUME NEW a, NEW b
  PROVE  Append(<<a>>, b) = <<a, b>>
<1> DEFINE U == {a, b}
           one == <<a>>
           two == <<a, b>>
           all == Append(one, b)
<1>1. one \in Seq(U) /\ Len(one) = 1 /\ one[1] = a /\ a \in U /\ b \in U
  OBVIOUS
<1>2. two \in Seq(U) /\ Len(two) = 2 /\ two[1] = a /\ two[2] = b
  OBVIOUS
<1> HIDE DEF U, one, two
<1>3. all \in Seq(U)
  BY <1>1
<1>4. Len(all) = Len(one) + 1 /\ all[Len(one) + 1] = b
  <2>1. one \in Seq(U) /\ b \in U
    BY <1>1
  <2> QED
    BY <2>1
<1>5. all[1] = a
  <2>1. one \in Seq(U) /\ b \in U
    BY <1>1
  <2>2. 1 \in 1..Len(one)
    BY <1>1
  <2>3. all[1] = one[1]
    BY <2>1, <2>2
  <2> QED
    BY <1>1, <2>3
<1>6. Len(all) = 2 /\ all[2] = b
  <2>1. Len(one) + 1 = 2
    BY <1>1
  <2> HIDE DEF all
  <2> QED
    BY <1>4, <2>1
<1> HIDE DEF all
<1>7. \A i \in 1..2 : i = 1 \/ i = 2
  OBVIOUS
<1>8. \A i \in 1..2 : all[i] = two[i]
  BY <1>2, <1>5, <1>6, <1>7
<1>9. all = two
  BY <1>2, <1>3, <1>6, <1>8
<1> QED
  BY <1>9 DEF all, two, one


LEMMA SplitBehind ==
  ASSUME NEW V, NEW a \in Seq(V), NEW sep \in V, NEW b \in Seq(V), Free(b, sep)
  PROVE  Split((a \o <<sep>>) \o b, sep) = Append(Split(a, sep), b)
<1> DEFINE s == (a \o <<sep>>) \o b
           n == Len(a)
           m == n + 1
<1>1. /\ s \in Seq(V) /\ Len(s) = m + Len(b) /\ n \in Nat /\ Len(b) \in Nat
      /\ \A i \in 1..n : s[i] = a[i]
      /\ s[m] = sep
      /\ \A i \in 1..Len(b) : s[m + i] = b[i]
  OBVIOUS
<1> HIDE DEF s
<1>2. PICK f : Splits(f, s, sep, V) /\ Split(s, sep) = f[Len(s)]
  <2>1. s \in Seq(V)
    BY <1>1
  <2> QED
    BY <2>1, SplitIs
<1>3. PICK g : Splits(g, a, sep, V) /\ Split(a, sep) = g[n]
  BY SplitIs
<1>4. f[n] = g[n]
  <2> DEFINE T == {i \in 0..n : f[i] = g[i]}
  <2>1. 0 \in T
    <3>1. f[0] = g[0]
      BY <1>2, <1>3 DEF Splits
    <3> QED
      BY <1>1, <3>1
  <2>2. ASSUME NEW i \in 0..(n - 1), i \in T PROVE i + 1 \in T
    <3>1. i + 1 \in 1..Len(s) /\ i + 1 \in 1..n /\ i + 1 \in 0..n /\ (i + 1) - 1 = i
      BY <1>1
    <3>2. f[i + 1] = Parted(f[i], s[i + 1], sep) /\ g[i + 1] = Parted(g[i], a[i + 1], sep)
      BY <1>2, <1>3, <3>1 DEF Splits
    <3> QED
      BY <1>1, <2>2, <3>1, <3>2
  <2> HIDE DEF T
  <2>3. \A i \in 0..n : i \in T
    BY <1>1, <2>1, <2>2, UpTo
  <2>4. n \in T
    <3>1. n \in 0..n
      BY <1>1
    <3> QED
      BY <2>3, <3>1
  <2> QED
    BY <2>4 DEF T
<1>5. f[m] = Append(g[n], <<>>)
  <2>1. m \in 1..Len(s) /\ m - 1 = n
    BY <1>1
  <2>2. f[m] = Parted(f[n], sep, sep)
    BY <1>1, <1>2, <2>1 DEF Splits
  <2> QED
    BY <1>4, <2>2 DEF Parted
<1>6. g[n] \in Lists(V)
  <2>1. n \in 0..n
    BY <1>1
  <2> QED
    BY <1>3, <2>1 DEF Splits, PartsOf
<1> DEFINE parts == g[n]
<1> HIDE DEF parts
<1>7. parts \in Lists(V) /\ f[m] = Append(parts, <<>>)
  BY <1>5, <1>6 DEF parts
<1>8. m \in Nat /\ m + Len(b) = Len(s)
  BY <1>1
<1> HIDE DEF m, n
<1>9. f[Len(s)] = Append(parts, b)
  <2>1. parts \in Lists(V)
    BY <1>7
  <2>2. f[m] = Append(parts, <<>>)
    BY <1>7
  <2>3. s \in Seq(V)
    BY <1>1
  <2>4. Follows(m, b, s)
    BY <1>1 DEF Follows
  <2>5. m \in Nat
    BY <1>8
  <2>6. m + Len(b) = Len(s)
    BY <1>8
  <2>7. Splits(f, s, sep, V)
    BY <1>2
  <2> QED
    BY <2>1, <2>2, <2>3, <2>4, <2>5, <2>6, <2>7, SplitMore
<1> QED
  BY <1>2, <1>3, <1>9 DEF s, parts

-----------------------------------------------------------------------------
(* One level of the path.                                                   *)

LEMMA EscapeIs ==
  /\ \A c \in Reserved : Escape(c) \notin Reserved
  /\ \A c, d \in Reserved : Escape(c) = Escape(d) => c = d
<1> DEFINE q == Quote
           b == Backslash
<1>1. q = "\"" /\ b = "\\"
  BY DEF Quote, Backslash
<1>2. Escape("/") = "%2F"
  BY <1>1 DEF Escape
<1>a. Escape(",") = "%2C"
  BY <1>1 DEF Escape
<1>b. Escape("'") = "%27"
  BY <1>1 DEF Escape
<1>c. Escape("%") = "%25"
  BY <1>1 DEF Escape
<1>3. Escape(q) = "%22"
  BY <1>1 DEF Escape
<1>d. Escape(b) = "%5C"
  BY <1>1 DEF Escape
<1>e. Escape("nl") = "%0A"
  BY <1>1 DEF Escape
<1>4. Reserved = {"/", ",", "'", "%", q, b, "nl"}
  BY DEF Reserved
<1> HIDE DEF q, b
<1>5. \A c \in Reserved : Escape(c) \in {"%2F", "%2C", "%27", "%25", "%22", "%5C", "%0A"}
  BY <1>2, <1>a, <1>b, <1>c, <1>3, <1>d, <1>e, <1>4
<1>6. \A c \in Reserved : Escape(c) \notin Reserved
  BY <1>1, <1>4, <1>5
<1>7. ASSUME NEW c \in Reserved, NEW d \in Reserved, Escape(c) = Escape(d) PROVE c = d
  <2>1. CASE c = "/"
    BY <1>1, <1>2, <1>a, <1>b, <1>c, <1>3, <1>d, <1>e, <1>4, <1>7, <2>1
  <2>2. CASE c = ","
    BY <1>1, <1>2, <1>a, <1>b, <1>c, <1>3, <1>d, <1>e, <1>4, <1>7, <2>2
  <2>3. CASE c = "'"
    BY <1>1, <1>2, <1>a, <1>b, <1>c, <1>3, <1>d, <1>e, <1>4, <1>7, <2>3
  <2>4. CASE c = "%"
    BY <1>1, <1>2, <1>a, <1>b, <1>c, <1>3, <1>d, <1>e, <1>4, <1>7, <2>4
  <2>5. CASE c = q
    BY <1>1, <1>2, <1>a, <1>b, <1>c, <1>3, <1>d, <1>e, <1>4, <1>7, <2>5
  <2>6. CASE c = b
    BY <1>1, <1>2, <1>a, <1>b, <1>c, <1>3, <1>d, <1>e, <1>4, <1>7, <2>6
  <2>7. CASE c = "nl"
    BY <1>1, <1>2, <1>a, <1>b, <1>c, <1>3, <1>d, <1>e, <1>4, <1>7, <2>7
  <2> QED
    BY <1>4, <2>1, <2>2, <2>3, <2>4, <2>5, <2>6, <2>7
<1> QED
  BY <1>6, <1>7

\* What is in no text that PathEscape or Decimal writes.
Unreserved(s) == \A i \in 1..Len(s) : s[i] \notin {"/", ","}

LEMMA EscapedIs ==
  ASSUME NEW s, Characters(s)
  PROVE  \E V : /\ PathEscape(s) \in Seq(V) /\ Len(PathEscape(s)) = Len(s)
                /\ Unreserved(PathEscape(s)) /\ PathUnescape(PathEscape(s)) = s
<1> DEFINE n == Len(s)
           e == PathEscape(s)
           V == {e[i] : i \in 1..n}
<1>1. n \in Nat /\ DOMAIN s = 1..n /\ s = [i \in 1..n |-> s[i]]
  BY DEF Characters
<1>2. e = [i \in 1..n |-> IF s[i] \in Reserved THEN Escape(s[i]) ELSE s[i]]
  BY <1>1 DEF PathEscape
<1>3. \A i \in 1..n : e[i] = IF s[i] \in Reserved THEN Escape(s[i]) ELSE s[i]
  BY <1>2
<1>4. e = [i \in 1..n |-> e[i]] /\ DOMAIN e = 1..n
  BY <1>2
<1> HIDE DEF e
<1>5. e \in Seq(V) /\ Len(e) = n
  BY <1>1, <1>4
<1>6. \A i \in 1..n : e[i] \notin Reserved
  BY <1>3, EscapeIs
<1>7. Unreserved(e)
  BY <1>5, <1>6 DEF Unreserved, Reserved
<1>8. "%" \notin ToSet(e)
  BY <1>4, <1>6 DEF ToSet, Reserved
<1> DEFINE Back(t) == IF \E c \in Reserved : t = Escape(c)
                      THEN CHOOSE c \in Reserved : t = Escape(c)
                      ELSE t
<1>9. ASSUME NEW i \in 1..n PROVE Back(e[i]) = s[i]
  <2>1. CASE s[i] \in Reserved
    <3>1. e[i] = Escape(s[i])
      BY <1>3, <2>1
    <3>2. \A c \in Reserved : e[i] = Escape(c) => c = s[i]
      BY <2>1, <3>1, EscapeIs
    <3> QED
      BY <2>1, <3>1, <3>2
  <2>2. CASE s[i] \notin Reserved
    <3>1. e[i] = s[i]
      BY <1>3, <2>2
    <3>2. ~\E c \in Reserved : e[i] = Escape(c)
      BY <1>1, <3>1 DEF Characters
    <3> QED
      BY <3>1, <3>2
  <2> QED
    BY <2>1, <2>2
<1>10. PathUnescape(e) = [i \in 1..n |-> Back(e[i])]
  BY <1>4, <1>8 DEF PathUnescape
<1> HIDE DEF Back
<1>11. PathUnescape(e) = s
  BY <1>1, <1>9, <1>10
<1> QED
  BY <1>5, <1>7, <1>11 DEF e

LEMMA DecimalIs ==
  ASSUME NEW n \in Numbers
  PROVE  /\ \E V : Decimal(n) \in Seq(V)
         /\ Len(Decimal(n)) \in 1..2 /\ Unreserved(Decimal(n))
         /\ ParseInt(Decimal(n)) = n
<1>1. \A m \in Numbers : m \in Int /\ (m < 0 => -m \in DOMAIN Numeral) /\ (~(m < 0) => m \in DOMAIN Numeral)
  <2> SUFFICES ASSUME NEW m \in Numbers
               PROVE  m \in Int /\ (m < 0 => -m \in DOMAIN Numeral) /\ (~(m < 0) => m \in DOMAIN Numeral)
    OBVIOUS
  <2>1. \A k \in DOMAIN Numeral : k \in Nat
    BY NumeralAssumption
  <2>2. CASE m \in DOMAIN Numeral
    BY <2>1, <2>2
  <2>3. ASSUME NEW k \in DOMAIN Numeral, m = -k
        PROVE  m \in Int /\ (m < 0 => -m \in DOMAIN Numeral) /\ (~(m < 0) => m \in DOMAIN Numeral)
    <3>1. k \in Nat
      BY <2>1
    <3>2. -m = k /\ (~(m < 0) => m = k)
      BY <2>3, <3>1
    <3> QED
      BY <2>3, <3>1, <3>2
  <2> QED
    BY <2>2, <2>3 DEF Numbers
<1>2. ASSUME NEW m \in Numbers, Decimal(m) = Decimal(n) PROVE m = n
  <2>1. CASE m < 0 /\ n < 0
    <3>1. Numeral[-m] = Numeral[-n]
      BY <1>2, <2>1 DEF Decimal
    <3>2. -m = -n
      BY <1>1, <2>1, <3>1, NumeralAssumption
    <3> QED
      BY <1>1, <3>2
  <2>2. CASE ~(m < 0) /\ ~(n < 0)
    <3>1. Numeral[m] = Numeral[n]
      BY <1>2, <2>2 DEF Decimal
    <3> QED
      BY <1>1, <2>2, <3>1, NumeralAssumption
  <2>3. CASE (m < 0) /\ ~(n < 0)
    BY <1>2, <2>3 DEF Decimal
  <2>4. CASE ~(m < 0) /\ (n < 0)
    BY <1>2, <2>4 DEF Decimal
  <2> QED
    BY <2>1, <2>2, <2>3, <2>4
<1>3. ParseInt(Decimal(n)) = n
  <2> DEFINE s == Decimal(n)
  <2>1. \A m \in Numbers : Decimal(m) = s => m = n
    BY <1>2
  <2>2. Decimal(n) = s
    OBVIOUS
  <2> HIDE DEF s
  <2>3. ParseInt(s) = n
    BY <2>1, <2>2 DEF ParseInt
  <2> QED
    BY <2>3 DEF s
<1>4. CASE n < 0
  <2> DEFINE t == Numeral[-n]
  <2>1. t \notin {"/", ","} /\ Decimal(n) = <<"-", t>>
    BY <1>1, <1>4, NumeralAssumption DEF Decimal
  <2> HIDE DEF t
  <2> DEFINE w == <<"-", t>>
             V == {"-", t}
  <2>2. w \in Seq(V) /\ Len(w) = 2 /\ w[1] = "-" /\ w[2] = t
    OBVIOUS
  <2> HIDE DEF w, V
  <2>3. Unreserved(w)
    <3>1. \A i \in 1..2 : i = 1 \/ i = 2
      OBVIOUS
    <3>2. Len(w) = 2 /\ w[1] \notin {"/", ","} /\ w[2] \notin {"/", ","}
      BY <2>1, <2>2
    <3> QED
      BY <3>1, <3>2 DEF Unreserved
  <2>4. Decimal(n) = w
    BY <2>1 DEF w
  <2> QED
    BY <1>3, <2>2, <2>3, <2>4
<1>5. CASE ~(n < 0)
  <2> DEFINE t == Numeral[n]
  <2>1. t \notin {"/", ","} /\ Decimal(n) = <<t>>
    BY <1>1, <1>5, NumeralAssumption DEF Decimal
  <2> HIDE DEF t
  <2> DEFINE w == <<t>>
             V == {t}
  <2>2. w \in Seq(V) /\ Len(w) = 1 /\ w[1] = t
    OBVIOUS
  <2> HIDE DEF w, V
  <2>3. Unreserved(w)
    <3>1. \A i \in 1..1 : i = 1
      OBVIOUS
    <3>2. Len(w) = 1 /\ w[1] \notin {"/", ","}
      BY <2>1, <2>2
    <3> QED
      BY <3>1, <3>2 DEF Unreserved
  <2>4. Decimal(n) = w
    BY <2>1 DEF w
  <2> QED
    BY <1>3, <2>2, <2>3, <2>4
<1> QED
  BY <1>4, <1>5

\* What stands behind the comma of a level, and what is read in it.
ValueOf(l) ==
    IF l.name # <<>> THEN <<"'">> \o PathEscape(l.name) \o <<"'">> ELSE Decimal(l.int)
NameIn(v) == IF Quoted(v) THEN PathUnescape(SubSeq(v, 2, Len(v) - 1)) ELSE <<>>
NumberIn(v) == IF Quoted(v) THEN 0 ELSE ParseInt(v)
ValidValue(v) == Quoted(v) \/ \E n \in Numbers : Decimal(n) = v

LEMMA ValueRead ==
  ASSUME NEW l, IsLevel(l)
  PROVE  LET v == ValueOf(l)
         IN  /\ \E V : v \in Seq(V)
             /\ v # <<>> /\ Unreserved(v) /\ ValidValue(v)
             /\ NameIn(v) = l.name
             /\ NumberIn(v) = IF l.name = <<>> THEN l.int ELSE 0
<1> DEFINE v == ValueOf(l)
<1>1. CASE l.name # <<>>
  <2> DEFINE e == PathEscape(l.name)
             n == Len(l.name)
             w == (<<"'">> \o e) \o <<"'">>
  <2>1. PICK V : e \in Seq(V) /\ Len(e) = n /\ Unreserved(e) /\ PathUnescape(e) = l.name
    BY EscapedIs DEF IsLevel
  <2>2. n \in Nat /\ n > 0
    BY <1>1 DEF IsLevel, Characters
  <2> HIDE DEF e, n
  <2> DEFINE W == V \cup {"'"}
  <2>3. e \in Seq(W) /\ <<"'">> \in Seq(W)
    BY <2>1
  <2>4. /\ w \in Seq(W) /\ Len(w) = n + 2
        /\ w[1] = "'" /\ w[n + 2] = "'" /\ \A i \in 1..n : w[i + 1] = e[i]
    BY <2>1, <2>2, <2>3
  <2> HIDE DEF w, W
  <2>5. Quoted(w)
    BY <2>2, <2>4 DEF Quoted, Last
  <2>6. SubSeq(w, 2, Len(w) - 1) = e
    <3> DEFINE inner == SubSeq(w, 2, Len(w) - 1)
    <3>1. inner \in Seq(W) /\ Len(inner) = n /\ \A i \in 1..n : inner[i] = w[i + 1]
      BY <2>2, <2>4
    <3> HIDE DEF inner
    <3>2. \A i \in 1..n : inner[i] = e[i]
      BY <2>4, <3>1
    <3>3. inner = e
      BY <2>1, <2>3, <3>1, <3>2
    <3> QED
      BY <3>3 DEF inner
  <2>7. Unreserved(w)
    <3> SUFFICES ASSUME NEW i \in 1..(n + 2) PROVE w[i] \notin {"/", ","}
      BY <2>4 DEF Unreserved
    <3>1. CASE i = 1 \/ i = n + 2
      BY <2>4, <3>1
    <3>2. CASE i # 1 /\ i # n + 2
      <4>1. i - 1 \in 1..n /\ (i - 1) + 1 = i
        BY <2>2, <3>2
      <4>2. w[i] = e[i - 1]
        BY <2>4, <4>1
      <4> QED
        BY <2>1, <4>1, <4>2 DEF Unreserved
    <3> QED
      BY <3>1, <3>2
  <2>8. v = w
    BY <1>1 DEF ValueOf, w, e
  <2>9. w # <<>>
    BY <2>2, <2>4
  <2>10. NameIn(w) = l.name /\ NumberIn(w) = 0 /\ ValidValue(w)
    BY <2>1, <2>5, <2>6 DEF NameIn, NumberIn, ValidValue
  <2> QED
    BY <1>1, <2>4, <2>7, <2>8, <2>9, <2>10
<1>2. CASE l.name = <<>>
  <2> DEFINE w == Decimal(l.int)
  <2>1. l.int \in Numbers /\ v = w
    BY <1>2 DEF IsLevel, ValueOf
  <2>2. Len(w) \in 1..2 /\ Unreserved(w) /\ ParseInt(w) = l.int
    BY <2>1, DecimalIs
  <2>3. PICK V : w \in Seq(V)
    BY <2>1, DecimalIs
  <2>4. ValidValue(w)
    BY <2>1 DEF ValidValue
  <2> HIDE DEF w
  <2>5. ~Quoted(w) /\ w # <<>>
    <3> DEFINE m == Len(w)
    <3>1. m \in 1..2
      BY <2>2
    <3> HIDE DEF m
    <3>2. m # 0 /\ ~(m > 2)
      BY <3>1
    <3> USE DEF m
    <3>3. ~Quoted(w)
      BY <3>2 DEF Quoted
    <3>4. w # <<>>
      BY <3>2
    <3> QED
      BY <3>3, <3>4
  <2> QED
    BY <1>2, <2>1, <2>2, <2>3, <2>4, <2>5 DEF NameIn, NumberIn
<1> QED
  BY <1>1, <1>2

LEMMA LevelText ==
  ASSUME NEW K, NEW kind \in Seq(K), NEW W, NEW v \in Seq(W), v # <<>>,
         Unreserved(kind), Unreserved(v)
  PROVE  LET text == (kind \o <<",">>) \o v
         IN  /\ \E V : text \in Seq(V)
             /\ Len(text) >= 2 /\ Free(text, "/") /\ Split(text, ",") = <<kind, v>>
<1> DEFINE V == W \cup K \cup {","}
           m == Len(kind)
           n == Len(v)
           text == (kind \o <<",">>) \o v
<1>1. kind \in Seq(V) /\ v \in Seq(V) /\ "," \in V
  <2>1. K \subseteq V /\ W \subseteq V /\ "," \in V
    OBVIOUS
  <2> HIDE DEF V
  <2>2. kind \in Seq(V)
    BY <2>1, Wider
  <2>3. v \in Seq(V)
    BY <2>1, Wider
  <2> QED
    BY <2>1, <2>2, <2>3
<1> HIDE DEF V
<1>2. m \in Nat /\ n \in Nat /\ n > 0
  OBVIOUS
<1>3. /\ text \in Seq(V) /\ Len(text) = m + 1 + n
      /\ \A i \in 1..m : text[i] = kind[i]
      /\ text[m + 1] = ","
      /\ \A i \in 1..n : text[m + 1 + i] = v[i]
  <2>1. kind \in Seq(V)
    BY <1>1
  <2>2. v \in Seq(V)
    BY <1>1
  <2>3. "," \in V
    BY <1>1
  <2>4. text \in Seq(V) /\ Parts(text, kind, ",", v)
    BY <2>1, <2>2, <2>3, Between
  <2> HIDE DEF text
  <2> QED
    BY <2>4 DEF Parts
<1>4. Split(text, ",") = <<kind, v>>
  <2>1. Free(v, ",")
    BY DEF Unreserved, Free
  <2>2. Free(kind, ",")
    BY DEF Unreserved, Free
  <2>3. Split(kind, ",") = <<kind>>
    BY <2>2, SplitWhole
  <2>4. kind \in Seq(V)
    BY <1>1
  <2>5. v \in Seq(V)
    BY <1>1
  <2>6. "," \in V
    BY <1>1
  <2>7. Split(text, ",") = Append(Split(kind, ","), v)
    BY <2>1, <2>4, <2>5, <2>6, SplitBehind
  <2> HIDE DEF text
  <2>8. Append(<<kind>>, v) = <<kind, v>>
    BY Pair
  <2> QED
    BY <2>3, <2>7, <2>8
<1> HIDE DEF text
<1>5. Free(text, "/")
  <2> SUFFICES ASSUME NEW i \in 1..(m + 1 + n) PROVE text[i] # "/"
    BY <1>3 DEF Free
  <2>1. CASE i <= m
    <3>1. i \in 1..m
      BY <1>2, <2>1
    <3>2. kind[i] # "/"
      BY <3>1 DEF Unreserved
    <3> QED
      BY <1>3, <3>1, <3>2
  <2>2. CASE i = m + 1
    BY <1>3, <2>2
  <2>3. CASE i > m + 1
    <3>1. i - (m + 1) \in 1..n /\ m + 1 + (i - (m + 1)) = i
      BY <1>2, <2>3
    <3>2. text[i] = v[i - (m + 1)]
      BY <1>3, <3>1
    <3>3. v[i - (m + 1)] # "/"
      BY <3>1 DEF Unreserved
    <3> QED
      BY <3>2, <3>3
  <2> QED
    BY <1>2, <2>1, <2>2, <2>3
<1>6. Len(text) >= 2
  <2>1. Len(text) = m + 1 + n
    BY <1>3
  <2> HIDE DEF m, n
  <2> QED
    BY <1>2, <2>1
<1> QED
  BY <1>3, <1>4, <1>5, <1>6 DEF text

LEMMA LevelRead ==
  ASSUME NEW l, IsLevel(l), Unreserved(l.kind)
  PROVE  /\ \E V : MarshalLevel(l) \in Seq(V)
         /\ Len(MarshalLevel(l)) >= 2 /\ Free(MarshalLevel(l), "/")
         /\ ValidLevel(MarshalLevel(l)) /\ UnmarshalLevel(MarshalLevel(l)) = LevelAsRead(l)
<1> DEFINE v == ValueOf(l)
           kind == l.kind
           K == ToSet(kind)
           text == (kind \o <<",">>) \o v
<1>1. v # <<>> /\ Unreserved(v)
  BY ValueRead
<1>2. ValidValue(v)
  BY ValueRead
<1>3. NameIn(v) = l.name /\ NumberIn(v) = IF l.name = <<>> THEN l.int ELSE 0
  BY ValueRead
<1>4. PICK W : v \in Seq(W)
  BY ValueRead
<1>5. kind \in Seq(K)
  BY DEF IsLevel
<1>6. MarshalLevel(l) = text
  BY DEF MarshalLevel, ValueOf
<1>7. LevelAsRead(l) = [space |-> "", kind |-> kind, name |-> NameIn(v), int |-> NumberIn(v)]
  BY <1>3 DEF LevelAsRead
<1>8. Unreserved(kind)
  OBVIOUS
<1> HIDE DEF v, kind, K
<1>9. Len(text) >= 2 /\ Free(text, "/")
  BY <1>1, <1>4, <1>5, <1>8, LevelText
<1>10. \E V : text \in Seq(V)
  BY <1>1, <1>4, <1>5, <1>8, LevelText
<1>11. Split(text, ",") = <<kind, v>>
  BY <1>1, <1>4, <1>5, <1>8, LevelText
<1> HIDE DEF text
<1> DEFINE parts == Split(text, ",")
           pair == <<kind, v>>
<1>12. Len(pair) = 2 /\ pair[1] = kind /\ pair[2] = v
  OBVIOUS
<1>13. parts = pair
  BY <1>11
<1> HIDE DEF parts, pair
<1>14. Len(parts) = 2 /\ parts[1] = kind /\ parts[2] = v
  BY <1>12, <1>13
<1>15. ValidLevel(text)
  BY <1>2, <1>14 DEF ValidLevel, ValidValue, parts
<1>16. UnmarshalLevel(text) = [space |-> "", kind |-> kind, name |-> NameIn(v), int |-> NumberIn(v)]
  BY <1>14 DEF UnmarshalLevel, NameIn, NumberIn, parts
<1> QED
  BY <1>6, <1>7, <1>9, <1>10, <1>15, <1>16

-----------------------------------------------------------------------------
(* The whole path.                                                          *)

LEMMA LevelIs ==
  ASSUME NEW l, IsLevel(l)
  PROVE  (\E V : MarshalLevel(l) \in Seq(V)) /\ Len(MarshalLevel(l)) >= 2
<1> DEFINE v == ValueOf(l)
           kind == l.kind
           K == ToSet(kind)
           text == (kind \o <<",">>) \o v
<1>1. v # <<>>
  BY ValueRead
<1>2. PICK W : v \in Seq(W)
  BY ValueRead
<1>3. kind \in Seq(K)
  BY DEF IsLevel
<1>4. MarshalLevel(l) = text
  BY DEF MarshalLevel, ValueOf
<1> HIDE DEF v, kind, K
<1> DEFINE V == W \cup K \cup {","}
<1>5. K \subseteq V /\ W \subseteq V /\ "," \in V
  OBVIOUS
<1> HIDE DEF V
<1>6. kind \in Seq(V)
  BY <1>3, <1>5, Wider
<1>7. v \in Seq(V)
  BY <1>2, <1>5, Wider
<1>8. "," \in V
  BY <1>5
<1>9. text \in Seq(V) /\ Parts(text, kind, ",", v)
  BY <1>6, <1>7, <1>8, Between
<1> HIDE DEF text
<1>10. Len(text) >= 2
  <2> DEFINE m == Len(kind)
             n == Len(v)
  <2>1. m \in Nat /\ n \in Nat /\ n > 0
    BY <1>1, <1>6, <1>7
  <2>2. Len(text) = m + 1 + n
    BY <1>9 DEF Parts
  <2> HIDE DEF m, n
  <2> QED
    BY <2>1, <2>2
<1> QED
  BY <1>4, <1>9, <1>10

\* f is the path of each part of k.
Paths(f, k, V) ==
    /\ f \in [1..Len(k) -> Seq(V)] /\ f[1] = MarshalLevel(k[1])
    /\ \A n \in 2..Len(k) : f[n] = (f[n - 1] \o <<"/">>) \o MarshalLevel(k[n])

Texts(k, V) == "/" \in V /\ \A i \in 1..Len(k) : MarshalLevel(k[i]) \in Seq(V)

LEMMA KeyLength ==
  ASSUME NEW k, IsKey(k)
  PROVE  Len(k) \in Nat /\ Len(k) > 0 /\ DOMAIN k = 1..Len(k)
  BY DEF IsKey

LEMMA PathIs ==
  ASSUME NEW k, IsKey(k)
  PROVE  \E V, f : Texts(k, V) /\ Paths(f, k, V) /\ MarshalKey(k) = f[Len(k)]
<1> DEFINE N == Len(k)
           level(i) == MarshalLevel(k[i])
           V == {"/"} \cup UNION {ToSet(level(i)) : i \in 1..N}
           Is(f) == f = [n \in 1..N |-> IF n = 1 THEN MarshalLevel(k[1])
                                        ELSE (f[n - 1] \o <<"/">>) \o MarshalLevel(k[n])]
<1>1. N \in Nat /\ N > 0 /\ DOMAIN k = 1..N
  BY KeyLength
<1>2. ASSUME NEW i \in 1..N PROVE level(i) \in Seq(V)
  <2> DEFINE s == level(i)
  <2>1. PICK W : s \in Seq(W)
    BY <1>1, LevelIs DEF IsKey
  <2>2. ToSet(s) \subseteq V
    OBVIOUS
  <2> HIDE DEF s, V
  <2>3. s \in Seq(ToSet(s))
    <3>1. s = [j \in 1..Len(s) |-> s[j]] /\ Len(s) \in Nat /\ DOMAIN s = 1..Len(s)
      BY <2>1
    <3>2. \A j \in 1..Len(s) : s[j] \in ToSet(s)
      BY <3>1 DEF ToSet
    <3> QED
      BY <3>1, <3>2
  <2>4. s \in Seq(V)
    BY <2>2, <2>3, Wider
  <2> QED
    BY <2>4 DEF s
<1>3. "/" \in V
  OBVIOUS
<1> HIDE DEF V
<1> DEFINE S == Seq(V)
           M == N - 1
           step == [x \in S \X (1..M) |-> (x[1] \o <<"/">>) \o level(x[2] + 1)]
<1>4. M \in Nat /\ 1 \in 1..N /\ \A j \in 1..M : j + 1 \in 1..N /\ j + 1 \in 2..N
  BY <1>1
<1>5. ASSUME NEW s \in S, NEW j \in 1..M
      PROVE  /\ step[<<s, j>>] = (s \o <<"/">>) \o level(j + 1)
             /\ (s \o <<"/">>) \o level(j + 1) \in S
  <2>1. level(j + 1) \in Seq(V)
    BY <1>2, <1>4
  <2> DEFINE b == level(j + 1)
  <2> HIDE DEF b
  <2>2. b \in Seq(V) /\ s \in Seq(V)
    BY <2>1 DEF b
  <2>3. (s \o <<"/">>) \o b \in Seq(V)
    BY <1>3, <2>2, Between
  <2> QED
    BY <2>3 DEF b
<1>6. step \in [S \X (1..M) -> S]
  <2>1. \A x \in S \X (1..M) : x[1] \in S /\ x[2] \in 1..M /\ x = <<x[1], x[2]>>
    OBVIOUS
  <2>2. \A x \in S \X (1..M) : step[x] \in S
    BY <1>5, <2>1
  <2>3. step = [x \in S \X (1..M) |-> step[x]]
    OBVIOUS
  <2> HIDE DEF step, S
  <2> QED
    BY <2>2, <2>3
<1> DEFINE base == level(1)
<1>7. base \in S
  BY <1>2, <1>4
<1> HIDE DEF step, base, S, M
<1>8. PICK g : Iteration(g, M, S, base, step)
  BY <1>4, <1>6, <1>7, Iterates
<1> DEFINE f == [n \in 1..N |-> g[n - 1]]
<1>9. ASSUME NEW n \in 1..N PROVE n - 1 \in 0..M /\ f[n] = g[n - 1] /\ f[n] \in S
  <2>1. n - 1 \in 0..M
    BY <1>1 DEF M
  <2> QED
    BY <1>8, <2>1 DEF Iteration
<1>10. f[1] = base
  <2>1. f[1] = g[1 - 1] /\ 1 - 1 = 0
    BY <1>4, <1>9
  <2> QED
    BY <1>8, <2>1 DEF Iteration
<1>11. ASSUME NEW n \in 2..N PROVE f[n] = (f[n - 1] \o <<"/">>) \o level(n)
  <2> DEFINE j == n - 1
  <2>1. j \in 1..M /\ j \in 1..N /\ n \in 1..N /\ j + 1 = n
    BY <1>1 DEF M
  <2> HIDE DEF j
  <2>2. f[n] = g[j] /\ f[j] = g[j - 1] /\ f[j] \in S
    BY <1>9, <2>1 DEF j
  <2>3. g[j] = step[<<g[j - 1], j>>]
    BY <1>8, <2>1 DEF Iteration
  <2>4. step[<<g[j - 1], j>>] = (g[j - 1] \o <<"/">>) \o level(j + 1)
    BY <1>5, <2>1, <2>2
  <2>5. f[n] = (f[j] \o <<"/">>) \o level(n)
    BY <2>1, <2>2, <2>3, <2>4
  <2> QED
    BY <2>5 DEF j
<1>12. f \in [1..N -> S]
  <2>1. f = [n \in 1..N |-> f[n]]
    OBVIOUS
  <2> HIDE DEF f
  <2> QED
    BY <1>9, <2>1
<1> HIDE DEF f
<1>13. Is(f)
  <2>1. \A n \in 1..N : n = 1 \/ n \in 2..N
    BY <1>1
  <2>2. f = [n \in 1..N |-> f[n]]
    BY <1>12
  <2> QED
    BY <1>10, <1>11, <2>1, <2>2 DEF base
<1> DEFINE h == CHOOSE p : Is(p)
<1>14. Is(h)
  BY <1>13
<1>15. MarshalKey(k) = h[N]
  BY DEF MarshalKey
<1> HIDE DEF h
<1>16. \A n \in 0..M : h[n + 1] = f[n + 1]
  <2> DEFINE T == {n \in 0..M : h[n + 1] = f[n + 1]}
  <2>1. h[1] = base /\ \A n \in 2..N : h[n] = (h[n - 1] \o <<"/">>) \o level(n)
    <3>1. 1 \in 1..N /\ \A n \in 2..N : n \in 1..N /\ n # 1
      BY <1>1
    <3> QED
      BY <1>14, <3>1 DEF base
  <2> HIDE DEF Is
  <2>2. 0 \in T
    <3>1. 0 \in 0..M /\ 0 + 1 = 1
      BY <1>4
    <3> QED
      BY <1>10, <2>1, <3>1
  <2>3. ASSUME NEW n \in 0..(M - 1), n \in T PROVE n + 1 \in T
    <3>1. n + 1 \in 0..M /\ (n + 1) + 1 \in 2..N /\ ((n + 1) + 1) - 1 = n + 1
      BY <1>1, <1>4 DEF M
    <3>2. h[n + 1] = f[n + 1]
      BY <2>3
    <3> DEFINE m == (n + 1) + 1
    <3>3. m \in 2..N /\ m - 1 = n + 1
      BY <3>1
    <3> HIDE DEF m
    <3>4. h[m] = f[m]
      BY <1>11, <2>1, <3>2, <3>3
    <3> QED
      BY <3>1, <3>4 DEF m
  <2> HIDE DEF T
  <2>4. \A n \in 0..M : n \in T
    BY <1>4, <2>2, <2>3, UpTo
  <2> QED
    BY <2>4 DEF T
<1>17. MarshalKey(k) = f[N]
  <2>1. M \in 0..M /\ M + 1 = N
    BY <1>1, <1>4 DEF M
  <2> QED
    BY <1>15, <1>16, <2>1
<1>18. Paths(f, k, V)
  <2> HIDE DEF level
  <2>1. f \in [1..Len(k) -> Seq(V)]
    BY <1>12 DEF S
  <2>2. f[1] = MarshalLevel(k[1])
    BY <1>10 DEF base, level
  <2>3. \A n \in 2..Len(k) : f[n] = (f[n - 1] \o <<"/">>) \o MarshalLevel(k[n])
    BY <1>11 DEF level
  <2> QED
    BY <2>1, <2>2, <2>3 DEF Paths
<1>19. Texts(k, V)
  BY <1>2, <1>3 DEF Texts
<1> QED
  BY <1>17, <1>18, <1>19

\* No kind holds what parts the path.
LEMMA PlainUnreserved ==
  ASSUME NEW k, IsKey(k), PlainKinds(k), NEW i \in 1..Len(k)
  PROVE  Unreserved(k[i].kind)
<1> DEFINE s == k[i].kind
<1>1. i \in DOMAIN k /\ IsLevel(k[i])
  BY KeyLength DEF IsKey
<1>2. s \in Seq(ToSet(s)) /\ {"/", ","} \cap ToSet(s) = {}
  BY <1>1 DEF IsLevel, PlainKinds
<1> HIDE DEF s
<1>3. \A j \in 1..Len(s) : s[j] \in ToSet(s)
  <2> DEFINE U == ToSet(s)
  <2>1. s \in Seq(U)
    BY <1>2
  <2> HIDE DEF U
  <2>2. DOMAIN s = 1..Len(s)
    BY <2>1
  <2> QED
    BY <2>2 DEF ToSet
<1> QED
  BY <1>2, <1>3 DEF Unreserved, s

LEMMA AppendMore ==
  ASSUME NEW S, NEW N \in Nat, NEW g \in [1..N -> S], NEW n \in 1..N, n + 1 \in 1..N
  PROVE  Append([i \in 1..n |-> g[i]], g[n + 1]) = [i \in 1..(n + 1) |-> g[i]]
<1> DEFINE a == [i \in 1..n |-> g[i]]
           left == Append(a, g[n + 1])
           right == [i \in 1..(n + 1) |-> g[i]]
<1>1. n \in Nat /\ (\A i \in 1..n : g[i] \in S) /\ g[n + 1] \in S
  OBVIOUS
<1>2. a \in Seq(S) /\ Len(a) = n /\ \A i \in 1..n : a[i] = g[i]
  BY <1>1
<1>3. right \in Seq(S) /\ Len(right) = n + 1 /\ \A i \in 1..(n + 1) : right[i] = g[i]
  <2>1. \A i \in 1..(n + 1) : g[i] \in S
    OBVIOUS
  <2> QED
    BY <1>1, <2>1
<1> HIDE DEF a, right
<1>4. /\ left \in Seq(S) /\ Len(left) = n + 1
      /\ \A i \in 1..(n + 1) : left[i] = IF i = n + 1 THEN g[n + 1] ELSE a[i]
  BY <1>1, <1>2
<1>5. \A i \in 1..(n + 1) : left[i] = right[i]
  BY <1>1, <1>2, <1>3, <1>4
<1> HIDE DEF left
<1>6. left = right
  BY <1>3, <1>4, <1>5
<1> QED
  BY <1>6 DEF left, right, a

LEMMA PathSplits ==
  ASSUME NEW k, IsKey(k), PlainKinds(k)
  PROVE  Split(MarshalKey(k), "/") = [i \in 1..Len(k) |-> MarshalLevel(k[i])]
<1> DEFINE N == Len(k)
           g == [i \in 1..N |-> MarshalLevel(k[i])]
           Before(n) == [i \in 1..n |-> g[i]]
<1>1. PICK V, f : Texts(k, V) /\ Paths(f, k, V) /\ MarshalKey(k) = f[N]
  BY PathIs
<1>2. N \in Nat /\ N > 0
  BY KeyLength
<1>3. ASSUME NEW i \in 1..N PROVE g[i] = MarshalLevel(k[i]) /\ g[i] \in Seq(V) /\ Free(g[i], "/")
  <2>1. IsLevel(k[i]) /\ Unreserved(k[i].kind)
    BY PlainUnreserved, KeyLength DEF IsKey
  <2> QED
    BY <1>1, <2>1, LevelRead DEF Texts
<1>4. g \in [1..N -> Seq(V)]
  <2>1. g = [i \in 1..N |-> g[i]]
    OBVIOUS
  <2> HIDE DEF g
  <2> QED
    BY <1>3, <2>1
<1>5. 1 \in 1..N
  BY <1>2
<1>6. f[1] = g[1] /\ f[1] \in Seq(V)
  BY <1>1, <1>3, <1>5 DEF Paths
<1> HIDE DEF g
<1> DEFINE Ok(n) == Split(f[n], "/") = Before(n)
<1>7. Ok(1)
  <2>1. Split(f[1], "/") = <<g[1]>>
    BY <1>3, <1>5, <1>6, SplitWhole
  <2>2. Before(1) = <<g[1]>>
    <3> DEFINE a == Before(1)
               b == <<g[1]>>
               U == {g[1]}
    <3>1. \A i \in 1..1 : i = 1
      OBVIOUS
    <3>2. a \in Seq(U) /\ Len(a) = 1 /\ a[1] = g[1]
      BY <3>1
    <3>3. b \in Seq(U) /\ Len(b) = 1 /\ b[1] = g[1]
      OBVIOUS
    <3> HIDE DEF a, b, U
    <3>4. a = b
      BY <3>1, <3>2, <3>3
    <3> QED
      BY <3>4 DEF a, b
  <2> QED
    BY <2>1, <2>2
<1>8. ASSUME NEW n \in 1..N, n + 1 \in 1..N, Ok(n) PROVE Ok(n + 1)
  <2> DEFINE m == n + 1
             a == f[n]
             b == g[m]
  <2>1. m \in 2..N /\ m - 1 = n /\ m \in 1..N
    BY <1>2, <1>8
  <2>2. a \in Seq(V) /\ "/" \in V
    BY <1>1 DEF Paths, Texts
  <2>3. b \in Seq(V)
    BY <1>3, <2>1
  <2>4. Free(b, "/")
    BY <1>3, <2>1
  <2>5. f[m] = (a \o <<"/">>) \o b
    <3>1. b = MarshalLevel(k[m])
      BY <1>3, <2>1
    <3> HIDE DEF m, b
    <3>2. f[m] = (f[m - 1] \o <<"/">>) \o MarshalLevel(k[m])
      BY <1>1, <2>1 DEF Paths
    <3> QED
      BY <2>1, <3>1, <3>2
  <2>6. Before(m) = Append(Before(n), b)
    BY <1>2, <1>4, <1>8, AppendMore
  <2>7. Split(a, "/") = Before(n)
    BY <1>8
  <2> HIDE DEF a, b, m, Before
  <2>8. a \in Seq(V)
    BY <2>2
  <2>9. "/" \in V
    BY <2>2
  <2>10. Split((a \o <<"/">>) \o b, "/") = Append(Split(a, "/"), b)
    BY <2>3, <2>4, <2>8, <2>9, SplitBehind
  <2>11. Split(f[m], "/") = Before(m)
    BY <2>5, <2>6, <2>7, <2>10
  <2> QED
    BY <2>11 DEF m
<1>9. Ok(N)
  <2> DEFINE M == N - 1
             T == {j \in 0..M : Ok(j + 1)}
  <2>1. M \in Nat /\ M \in 0..M /\ M + 1 = N /\ 0 \in 0..M /\ 0 + 1 = 1
    BY <1>2
  <2> HIDE DEF Ok
  <2>2. 0 \in T
    BY <1>7, <2>1
  <2>3. ASSUME NEW j \in 0..(M - 1), j \in T PROVE j + 1 \in T
    <3>1. j + 1 \in 1..N /\ (j + 1) + 1 \in 1..N /\ j + 1 \in 0..M
      BY <1>2
    <3>2. Ok(j + 1)
      BY <2>3
    <3>3. Ok((j + 1) + 1)
      BY <1>8, <3>1, <3>2
    <3> QED
      BY <3>1, <3>3
  <2> HIDE DEF T, M
  <2>4. \A j \in 0..M : j \in T
    BY <2>1, <2>2, <2>3, UpTo
  <2>5. M \in T
    BY <2>1, <2>4
  <2> QED
    BY <2>1, <2>5 DEF T
<1>10. Before(N) = [i \in 1..N |-> MarshalLevel(k[i])]
  BY <1>3
<1> QED
  BY <1>1, <1>9, <1>10

\* A path is no NULL, and is a text.
LEMMA PathLong ==
  ASSUME NEW k, IsKey(k)
  PROVE  (\E V : MarshalKey(k) \in Seq(V)) /\ Len(MarshalKey(k)) >= 2
<1> DEFINE N == Len(k)
<1>1. PICK V, f : Texts(k, V) /\ Paths(f, k, V) /\ MarshalKey(k) = f[N]
  BY PathIs
<1>2. N \in Nat /\ N > 0 /\ DOMAIN k = 1..N
  BY KeyLength
<1>3. N \in 1..N /\ f[N] \in Seq(V)
  BY <1>1, <1>2 DEF Paths
<1>4. IsLevel(k[N])
  BY <1>2, <1>3 DEF IsKey
<1> DEFINE last == MarshalLevel(k[N])
<1>5. Len(last) >= 2
  BY <1>4, LevelIs
<1>6. last \in Seq(V) /\ "/" \in V
  BY <1>1, <1>3 DEF Texts
<1> HIDE DEF last
<1>7. CASE N = 1
  BY <1>1, <1>3, <1>5, <1>7 DEF Paths, last
<1>8. CASE N # 1
  <2> DEFINE a == f[N - 1]
             s == (a \o <<"/">>) \o last
  <2>1. N \in 2..N /\ N - 1 \in 1..N
    BY <1>2, <1>8
  <2>2. f[N] = s /\ a \in Seq(V)
    BY <1>1, <2>1 DEF Paths, last
  <2> HIDE DEF a
  <2>3. a \in Seq(V)
    BY <2>2
  <2>4. last \in Seq(V)
    BY <1>6
  <2>5. "/" \in V
    BY <1>6
  <2>6. Parts(s, a, "/", last)
    BY <2>3, <2>4, <2>5, Between
  <2> HIDE DEF s
  <2>7. Len(s) >= 2
    <3> DEFINE m == Len(a)
               n == Len(last)
    <3>1. m \in Nat /\ n \in Nat /\ n >= 2
      BY <1>5, <2>3, <2>4
    <3>2. Len(s) = m + 1 + n
      BY <2>6 DEF Parts
    <3> HIDE DEF m, n
    <3> QED
      BY <3>1, <3>2
  <2> QED
    BY <1>1, <1>3, <2>2, <2>7
<1> QED
  BY <1>7, <1>8

LEMMA ColumnIs ==
  ASSUME NEW k, IsKey(k)
  PROVE  /\ Incomplete(k) => KeyValue(k) = <<"null">>
         /\ ~Incomplete(k) => KeyValue(k) = MarshalKey(k) /\ KeyValue(k) # <<"null">>
         /\ KeyValue(k) # <<>>
<1> DEFINE path == MarshalKey(k)
           null == <<"null">>
<1>1. Len(path) >= 2
  BY PathLong
<1> HIDE DEF path
<1>2. Len(null) = 1 /\ null # <<>>
  OBVIOUS
<1> HIDE DEF null
<1>3. path # null
  BY <1>1, <1>2
<1>4. path # <<>>
  BY <1>1
<1> QED
  BY <1>2, <1>3, <1>4 DEF KeyValue, path, null

\* What unmarshal goes through.
LevelsOf(paths) == IF Len(paths) > 1 /\ Head(paths) = <<>> THEN Tail(paths) ELSE paths

LEMMA KeyRead ==
  ASSUME NEW k, IsKey(k), PlainKinds(k)
  PROVE  UnmarshalKey(MarshalKey(k)) = [i \in 1..Len(k) |-> LevelAsRead(k[i])]
<1> DEFINE N == Len(k)
           paths == [i \in 1..N |-> MarshalLevel(k[i])]
           levels == LevelsOf(paths)
<1>1. Split(MarshalKey(k), "/") = paths
  BY PathSplits
<1>2. N \in Nat /\ N > 0 /\ DOMAIN k = 1..N
  BY KeyLength
<1>3. ASSUME NEW i \in 1..N
      PROVE  /\ paths[i] = MarshalLevel(k[i]) /\ ValidLevel(paths[i])
             /\ UnmarshalLevel(paths[i]) = LevelAsRead(k[i])
  <2>1. IsLevel(k[i]) /\ Unreserved(k[i].kind)
    BY <1>2, PlainUnreserved DEF IsKey
  <2> QED
    BY <2>1, LevelRead
<1>4. Head(paths) # <<>>
  <2>1. 1 \in 1..N
    BY <1>2
  <2>2. Head(paths) = MarshalLevel(k[1])
    BY <1>2, <2>1
  <2>3. Len(MarshalLevel(k[1])) >= 2
    BY <1>2, <2>1, LevelIs DEF IsKey
  <2> DEFINE s == MarshalLevel(k[1])
  <2> HIDE DEF s
  <2>4. s # <<>>
    BY <2>3 DEF s
  <2> QED
    BY <2>2, <2>4 DEF s
<1>5. DOMAIN paths = 1..N
  OBVIOUS
<1> HIDE DEF paths
<1>6. levels = paths
  BY <1>4 DEF LevelsOf
<1>7. UnmarshalKey(MarshalKey(k)) =
         IF \A i \in DOMAIN levels : ValidLevel(levels[i])
         THEN [i \in DOMAIN levels |-> UnmarshalLevel(levels[i])]
         ELSE Failed
  BY <1>1 DEF UnmarshalKey, LevelsOf
<1> HIDE DEF levels
<1> QED
  BY <1>3, <1>5, <1>6, <1>7

LEMMA ScanBack ==
  ASSUME NEW k, IsKey(k), PlainKinds(k)
  PROVE  ScanKey(KeyValue(k)) = KeyAsRead(k)
<1>1. DOMAIN k = 1..Len(k)
  BY KeyLength
<1>2. CASE Incomplete(k)
  BY <1>2, ColumnIs DEF ScanKey, KeyAsRead
<1>3. CASE ~Incomplete(k)
  BY <1>1, <1>3, ColumnIs, KeyRead DEF ScanKey, KeyAsRead
<1> QED
  BY <1>2, <1>3

-----------------------------------------------------------------------------
(* Whatever text is read, what comes out is a key.                          *)

LEMMA NameRead ==
  ASSUME NEW V, NEW t \in Seq(V)
  PROVE  Characters(PathUnescape(t))
<1> DEFINE n == Len(t)
           r == PathUnescape(t)
           Back(x) == IF \E c \in Reserved : x = Escape(c)
                      THEN CHOOSE c \in Reserved : x = Escape(c)
                      ELSE x
<1>1. n \in Nat /\ DOMAIN t = 1..n
  OBVIOUS
<1>2. CASE "%" \in ToSet(t)
  <2> DEFINE none == <<>>
  <2>1. r = none
    BY <1>2 DEF PathUnescape
  <2>2. none \in Seq(ToSet(none)) /\ DOMAIN none = {}
    OBVIOUS
  <2> HIDE DEF none
  <2>3. Characters(none)
    BY <2>2 DEF Characters
  <2> QED
    BY <2>1, <2>3
<1>3. CASE "%" \notin ToSet(t)
  <2>1. r = [i \in 1..n |-> Back(t[i])]
    BY <1>1, <1>3 DEF PathUnescape
  <2>2. \A x : \A c \in Reserved : Back(x) # Escape(c)
    <3> SUFFICES ASSUME NEW x, NEW d \in Reserved PROVE Back(x) # Escape(d)
      OBVIOUS
    <3>1. CASE \E c \in Reserved : x = Escape(c)
      <4>1. Back(x) \in Reserved
        BY <3>1
      <4> HIDE DEF Back
      <4> QED
        BY <4>1, EscapeIs
    <3>2. CASE ~\E c \in Reserved : x = Escape(c)
      BY <3>2
    <3> QED
      BY <3>1, <3>2
  <2> HIDE DEF r, Back
  <2>3. DOMAIN r = 1..n /\ \A i \in 1..n : r[i] = Back(t[i])
    BY <2>1
  <2>4. r \in Seq(ToSet(r))
    <3>1. \A i \in 1..n : r[i] \in ToSet(r)
      BY <2>3 DEF ToSet
    <3>2. r = [i \in 1..n |-> r[i]]
      BY <2>1
    <3> QED
      BY <1>1, <3>1, <3>2
  <2>5. Characters(r)
    BY <2>2, <2>3, <2>4 DEF Characters
  <2> QED
    BY <2>5 DEF r
<1> QED
  BY <1>2, <1>3

LEMMA ZeroNumber == 0 \in Numbers
  BY NumeralAssumption DEF Numbers

LEMMA InItself ==
  ASSUME NEW V, NEW s \in Seq(V)
  PROVE  s \in Seq(ToSet(s))
<1>1. s = [j \in 1..Len(s) |-> s[j]] /\ Len(s) \in Nat /\ DOMAIN s = 1..Len(s)
  OBVIOUS
<1>2. \A j \in 1..Len(s) : s[j] \in ToSet(s)
  BY <1>1 DEF ToSet
<1> QED
  BY <1>1, <1>2

LEMMA ReadIsLevel ==
  ASSUME NEW V, NEW s \in Seq(V), ValidLevel(s)
  PROVE  IsLevel(UnmarshalLevel(s))
<1> DEFINE parts == Split(s, ",")
           kind == parts[1]
           v == parts[2]
           quoted == Quoted(v)
           name == IF quoted THEN PathUnescape(SubSeq(v, 2, Len(v) - 1)) ELSE <<>>
           int == IF quoted THEN 0 ELSE ParseInt(v)
           l == UnmarshalLevel(s)
<1>1. parts \in PartsOf(V)
  BY SplitIn
<1>2. Len(parts) = 2 /\ (quoted \/ \E n \in Numbers : Decimal(n) = v)
  BY DEF ValidLevel
<1>3. l = [space |-> "", kind |-> kind, name |-> name, int |-> int]
  BY DEF UnmarshalLevel
<1> HIDE DEF parts, l
<1>4. kind \in Seq(V) /\ v \in Seq(V)
  <2> DEFINE W == Seq(V)
  <2>1. parts \in Seq(W)
    BY <1>1 DEF PartsOf, Lists
  <2>2. 1 \in 1..Len(parts) /\ 2 \in 1..Len(parts)
    BY <1>2
  <2> HIDE DEF W
  <2>3. kind \in W /\ v \in W
    BY <2>1, <2>2
  <2> QED
    BY <2>3 DEF W
<1>5. kind \in Seq(ToSet(kind))
  BY <1>4, InItself
<1> HIDE DEF kind, v
<1>6. Characters(name)
  <2>1. CASE quoted
    <3> DEFINE t == SubSeq(v, 2, Len(v) - 1)
    <3>1. t \in Seq(V)
      BY <1>4, <2>1 DEF Quoted
    <3> HIDE DEF t
    <3>2. Characters(PathUnescape(t))
      BY <3>1, NameRead
    <3> QED
      BY <2>1, <3>2 DEF t
  <2>2. CASE ~quoted
    <3> DEFINE none == <<>>
    <3>1. none \in Seq(ToSet(none)) /\ DOMAIN none = {}
      OBVIOUS
    <3> HIDE DEF none
    <3>2. Characters(none)
      BY <3>1 DEF Characters
    <3> QED
      BY <2>2, <3>2 DEF none
  <2> QED
    BY <2>1, <2>2
<1>7. int \in Numbers
  <2>1. CASE quoted
    BY <2>1, ZeroNumber
  <2>2. CASE ~quoted
    <3>1. \E n \in Numbers : Decimal(n) = v
      BY <1>2, <2>2
    <3>2. ParseInt(v) \in Numbers
      BY <3>1 DEF ParseInt
    <3> QED
      BY <2>2, <3>2
  <2> QED
    BY <2>1, <2>2
<1> HIDE DEF name, int
<1>8. l.space = "" /\ l.kind = kind /\ l.name = name /\ l.int = int
  BY <1>3
<1>9. IsLevel(l)
  BY <1>3, <1>5, <1>6, <1>7, <1>8 DEF IsLevel
<1> QED
  BY <1>9 DEF l

LEMMA ReadIsKey ==
  ASSUME NEW V, NEW s \in Seq(V), UnmarshalKey(s) # Failed
  PROVE  IsKey(UnmarshalKey(s))
<1> DEFINE paths == Split(s, "/")
           levels == LevelsOf(paths)
           n == Len(levels)
           k == UnmarshalKey(s)
           W == Seq(V)
<1>1. paths \in Seq(W) /\ Len(paths) > 0
  BY SplitIn DEF PartsOf, Lists
<1>2. k = IF \A i \in DOMAIN levels : ValidLevel(levels[i])
          THEN [i \in DOMAIN levels |-> UnmarshalLevel(levels[i])]
          ELSE Failed
  BY DEF UnmarshalKey, LevelsOf
<1> HIDE DEF paths, W
<1>3. levels \in Seq(W) /\ n > 0
  <2>1. CASE Len(paths) > 1 /\ Head(paths) = <<>>
    <3> DEFINE tail == Tail(paths)
    <3>1. tail \in Seq(W) /\ Len(tail) = Len(paths) - 1
      BY <1>1, <2>1
    <3>2. levels = tail
      BY <2>1 DEF LevelsOf
    <3> HIDE DEF tail, levels
    <3>3. Len(tail) > 0
      BY <1>1, <2>1, <3>1
    <3> QED
      BY <3>1, <3>2, <3>3
  <2>2. CASE ~(Len(paths) > 1 /\ Head(paths) = <<>>)
    <3>1. levels = paths
      BY <2>2 DEF LevelsOf
    <3> QED
      BY <1>1, <3>1
  <2> QED
    BY <2>1, <2>2
<1> HIDE DEF levels, k
<1>4. DOMAIN levels = 1..n /\ n \in Nat /\ \A i \in 1..n : levels[i] \in W
  BY <1>3
<1>5. (\A i \in 1..n : ValidLevel(levels[i])) /\ k = [i \in 1..n |-> UnmarshalLevel(levels[i])]
  BY <1>2, <1>4 DEF k
<1>6. ASSUME NEW i \in 1..n PROVE IsLevel(k[i])
  <2>1. levels[i] \in Seq(V) /\ ValidLevel(levels[i])
    BY <1>4, <1>5 DEF W
  <2>2. IsLevel(UnmarshalLevel(levels[i]))
    BY <2>1, ReadIsLevel
  <2> QED
    BY <1>5, <2>2
<1> HIDE DEF n
<1>7. DOMAIN k = 1..n
  BY <1>5
<1>8. k \in Seq(ToSet(k)) /\ k # <<>>
  <2>1. \A i \in 1..n : k[i] \in ToSet(k)
    BY <1>7 DEF ToSet
  <2>2. k = [i \in 1..n |-> k[i]]
    BY <1>5
  <2>3. k \in Seq(ToSet(k))
    BY <1>4, <2>1, <2>2
  <2>4. 1 \in DOMAIN k
    BY <1>3, <1>4, <1>7 DEF n
  <2> QED
    BY <2>3, <2>4
<1>9. IsKey(k)
  BY <1>6, <1>7, <1>8 DEF IsKey
<1> QED
  BY <1>9 DEF k

LEMMA ZeroKeyIs == IsKey(ZeroKey)
<1> DEFINE none == <<>>
           l == [space |-> "", kind |-> <<>>, name |-> <<>>, int |-> 0]
           k == <<l>>
<1>1. none \in Seq(ToSet(none)) /\ DOMAIN none = {}
  OBVIOUS
<1>2. l = [space |-> "", kind |-> none, name |-> none, int |-> 0]
  OBVIOUS
<1> HIDE DEF none, l
<1>3. Characters(none)
  BY <1>1 DEF Characters
<1>4. l.space = "" /\ l.kind = none /\ l.name = none /\ l.int = 0
  BY <1>2
<1>5. IsLevel(l)
  BY <1>1, <1>2, <1>3, <1>4, ZeroNumber DEF IsLevel
<1>6. k \in Seq({l}) /\ k # <<>> /\ DOMAIN k = {1} /\ k[1] = l
  OBVIOUS
<1> HIDE DEF k
<1>7. k \in Seq(ToSet(k))
  BY <1>6, InItself
<1>8. IsKey(k)
  BY <1>5, <1>6, <1>7 DEF IsKey
<1> QED
  BY <1>8 DEF ZeroKey, k, l

LEMMA ScanIsKey ==
  ASSUME NEW k, IsKey(k)
  PROVE  ScanKey(KeyValue(k)) = Failed \/ IsKey(ScanKey(KeyValue(k)))
<1>1. CASE Incomplete(k)
  BY <1>1, ColumnIs, ZeroKeyIs DEF ScanKey
<1>2. CASE ~Incomplete(k)
  <2> DEFINE text == MarshalKey(k)
  <2>1. PICK V : text \in Seq(V)
    BY PathLong
  <2> HIDE DEF text
  <2>2. UnmarshalKey(text) = Failed \/ IsKey(UnmarshalKey(text))
    BY <2>1, ReadIsKey
  <2> QED
    BY <1>2, <2>2, ColumnIs DEF ScanKey, text
<1> QED
  BY <1>1, <1>2

-----------------------------------------------------------------------------
(* The column of a key.                                                     *)

\* What is held and what was written are keys; the row holds what was written
\* last; what is held after a read is what is in the row.
KeyInv ==
    /\ IsKey(keyWritten) /\ (key = Failed \/ IsKey(key))
    /\ keyColumn = <<>> \/ keyColumn = KeyValue(keyWritten)
    /\ keyRead \in BOOLEAN
    /\ keyRead => keyColumn # <<>> /\ key = ScanKey(keyColumn)

LEMMA KeyInvInit == KeyInit => KeyInv
  BY DEF KeyInit, HoldsKey, KeyInv

LEMMA KeyInvNext == KeyInv /\ [KeyNext]_keyVars => KeyInv'
<1> SUFFICES ASSUME KeyInv, [KeyNext]_keyVars PROVE KeyInv'
  OBVIOUS
<1>1. CASE WriteKey
  BY <1>1 DEF KeyInv, WriteKey
<1>2. CASE ReadKey
  <2>1. keyColumn = KeyValue(keyWritten) /\ IsKey(keyWritten)
    BY <1>2 DEF KeyInv, ReadKey
  <2>2. key' = Failed \/ IsKey(key')
    BY <1>2, <2>1, ScanIsKey DEF ReadKey
  <2> QED
    BY <1>2, <2>2 DEF KeyInv, ReadKey
<1>3. CASE UNCHANGED keyVars
  BY <1>3 DEF KeyInv, keyVars
<1> QED
  BY <1>1, <1>2, <1>3 DEF KeyNext

LEMMA KeyInvAlways == KeySpec => []KeyInv
  BY KeyInvInit, KeyInvNext, PTL DEF KeySpec

LEMMA InvReadBack == KeyInv => KeyReadBack
<1> SUFFICES ASSUME KeyInv, keyRead, PlainKinds(keyWritten) PROVE key = KeyAsRead(keyWritten)
  BY DEF KeyReadBack
<1>1. IsKey(keyWritten) /\ keyColumn = KeyValue(keyWritten) /\ key = ScanKey(keyColumn)
  BY DEF KeyInv
<1> QED
  BY <1>1, ScanBack

\* Whatever key a record has, of however many ancestors and with whatever
\* names, and however often it is written and read, Scan gives back what
\* Value wrote (types/key.go).
THEOREM KeyComesBack == KeySpec => []KeyReadBack
  BY KeyInvAlways, InvReadBack, PTL

-----------------------------------------------------------------------------
(* What a server stores.                                                    *)

\* What the columns of numbers and moments hold.
Measures(col, s) ==
    /\ col.sql \in Whole => \E n \in Int : s = <<"int", n>>
    /\ col.sql \in Real => \E n \in Int : s = <<"float", n>>
    /\ col.sql = "DATE" => s[1] = "date" /\ s[2] \in Int
    /\ col.sql = "DATETIME" => s[1] = "time"
Fit(col, s) == s = Null \/ Measures(col, s)

\* A column stores what fits it, or refuses.
LEMMA StoredFits ==
  ASSUME NEW col, NEW arg
  PROVE  Stored(col, arg) = Refused \/ Fit(col, Stored(col, arg))
<1>1. CASE arg = Null
  BY <1>1 DEF Stored, Fit, Null
<1>2. CASE arg # Null /\ col.sql \in Whole
  <2>1. CASE arg[1] = "int" /\ arg[2] \in Low(col)..High(col)
    <3>1. Stored(col, arg) = <<"int", arg[2]>>
      BY <1>2, <2>1 DEF Stored, Whole, Real, Null
    <3>2. arg[2] \in Int
      BY <2>1
    <3> QED
      BY <1>2, <3>1, <3>2 DEF Fit, Measures, Whole, Real
  <2>2. CASE ~(arg[1] = "int" /\ arg[2] \in Low(col)..High(col))
    BY <1>2, <2>2 DEF Stored, Whole, Real
  <2> QED
    BY <2>1, <2>2
<1>3. CASE arg # Null /\ col.sql \in Real
  <2>1. CASE arg[1] = "float" /\ arg[2] \in Halves(col)
    <3>1. Stored(col, arg) = <<"float", arg[2]>>
      BY <1>3, <2>1 DEF Stored, Whole, Real
    <3>2. arg[2] \in Int
      BY <2>1 DEF Halves
    <3> QED
      BY <1>3, <3>1, <3>2 DEF Fit, Measures, Whole, Real
  <2>2. CASE ~(arg[1] = "float" /\ arg[2] \in Halves(col))
    BY <1>3, <2>2 DEF Stored, Whole, Real
  <2> QED
    BY <2>1, <2>2
<1>4. CASE arg # Null /\ col.sql = "DATE"
  <2>1. Stored(col, arg) = IF arg[1] = "date" /\ arg[2] \in Nat \ {0} THEN arg ELSE Refused
    BY <1>4 DEF Stored, Whole, Real
  <2> QED
    BY <1>4, <2>1 DEF Fit, Measures, Whole, Real
<1>5. CASE arg # Null /\ col.sql = "DATETIME"
  <2>1. Stored(col, arg) = IF arg[1] = "time" /\ arg[2] > 0
                           THEN <<"time", Rounded(arg[2], col.size)>> ELSE Refused
    BY <1>5 DEF Stored, Whole, Real
  <2> QED
    BY <1>5, <2>1 DEF Fit, Measures, Whole, Real
<1>6. CASE col.sql \notin Whole \union Real \union {"DATE", "DATETIME"}
  BY <1>6 DEF Fit, Measures
<1> QED
  BY <1>1, <1>2, <1>3, <1>4, <1>5, <1>6

-----------------------------------------------------------------------------
\* A name is that of one column.
NamesDiffer == \A m, n \in DOMAIN table : table[m].name = table[n].name => m = n

RowFits(row) == \A n \in DOMAIN table : Fit(table[n], row[table[n].name])
RowsFit(stored) ==
    /\ \E S : stored \in Seq(S)
    /\ \A i \in DOMAIN stored : RowFits(stored[i])

\* The column that has a name is the one of that name.
LEMMA ColumnOfIs ==
  ASSUME NamesDiffer, NEW n \in DOMAIN table
  PROVE  table[n].name \in Names /\ ColumnOf(table[n].name) = table[n]
<1>1. (CHOOSE m \in DOMAIN table : table[m].name = table[n].name) = n
  BY DEF NamesDiffer
<1> QED
  BY <1>1 DEF Names, ColumnOf

\* So does a column that is given nothing,
LEMMA DefaultFits ==
  ASSUME NEW col
  PROVE  Default(col) = Refused \/ Fit(col, Default(col))
<1>1. CASE col.nullable
  BY <1>1 DEF Default, Fit
<1>2. CASE ~col.nullable
  BY <1>2, StoredFits DEF Default, StoredNow
<1> QED
  BY <1>1, <1>2

\* one that is given an argument or counts,
LEMMA ColumnValueFits ==
  ASSUME NEW col, NEW args, NEW stored
  PROVE  \/ ColumnValue(col, args, stored) = Refused
         \/ Fit(col, ColumnValue(col, args, stored))
  BY StoredFits, DefaultFits DEF ColumnValue

\* and one that is computed from another.
LEMMA GeneratedFits ==
  ASSUME NamesDiffer, NEW row, Refused \notin Range(WithGenerated(row)),
         \A n \in DOMAIN table : table[n].from = <<>>
           => row[table[n].name] = Refused \/ Fit(table[n], row[table[n].name])
  PROVE  RowFits(WithGenerated(row))
<1> SUFFICES ASSUME NEW n \in DOMAIN table
             PROVE  Fit(table[n], WithGenerated(row)[table[n].name])
  BY DEF RowFits
<1> DEFINE name == table[n].name
           new == WithGenerated(row)
<1>1. name \in Names /\ ColumnOf(name) = table[n]
  BY ColumnOfIs
<1> HIDE DEF name
<1>2. new[name] = IF table[n].from = <<>> THEN row[name] ELSE GeneratedValue(table[n], row)
  BY <1>1 DEF WithGenerated
<1>3. new[name] # Refused
  <2>1. name \in DOMAIN new
    BY <1>1 DEF WithGenerated
  <2> HIDE DEF new
  <2>2. Refused \notin Range(new)
    BY DEF new
  <2> QED
    BY <2>1, <2>2 DEF Range
<1>4. CASE table[n].from = <<>>
  BY <1>2, <1>3, <1>4 DEF name
<1>5. CASE table[n].from # <<>>
  <2>1. GeneratedValue(table[n], row) = Refused \/ Fit(table[n], GeneratedValue(table[n], row))
    BY StoredFits DEF GeneratedValue
  <2> QED
    BY <1>2, <1>3, <1>5, <2>1 DEF name
<1> QED
  BY <1>4, <1>5

\* So a new row and an updated one fit, or are refused.
LEMMA NewRowFits ==
  ASSUME NamesDiffer, NEW args, NEW stored, Refused \notin Range(NewRow(args, stored))
  PROVE  RowFits(NewRow(args, stored))
<1> DEFINE plain == [name \in {n \in Names : ColumnOf(n).from = <<>>} |->
                       ColumnValue(ColumnOf(name), args, stored)]
<1>1. NewRow(args, stored) = WithGenerated(plain)
  BY DEF NewRow, Completed
<1>2. ASSUME NEW n \in DOMAIN table, table[n].from = <<>>
      PROVE  plain[table[n].name] = Refused \/ Fit(table[n], plain[table[n].name])
  <2>1. table[n].name \in Names /\ ColumnOf(table[n].name) = table[n]
    BY ColumnOfIs
  <2>2. plain[table[n].name] = ColumnValue(table[n], args, stored)
    BY <1>2, <2>1
  <2> QED
    BY <2>2, ColumnValueFits
<1> HIDE DEF plain
<1> QED
  BY <1>1, <1>2, GeneratedFits

LEMMA UpdatedRowFits ==
  ASSUME NamesDiffer, NEW old, NEW new, NEW updates, RowFits(old), RowFits(new),
         Refused \notin Range(UpdatedRow(old, new, updates))
  PROVE  RowFits(UpdatedRow(old, new, updates))
<1> DEFINE row == [name \in Names |-> IF name \in updates THEN new[name] ELSE old[name]]
           touched == [name \in Names |->
                         IF ColumnOf(name).onUpdate /\ name \notin updates /\ row # old
                         THEN StoredNow(ColumnOf(name)) ELSE row[name]]
<1>1. UpdatedRow(old, new, updates) = WithGenerated(touched)
  BY DEF UpdatedRow
<1>2. ASSUME NEW n \in DOMAIN table
      PROVE  touched[table[n].name] = Refused \/ Fit(table[n], touched[table[n].name])
  <2>1. table[n].name \in Names /\ ColumnOf(table[n].name) = table[n]
    BY ColumnOfIs
  <2>2. Fit(table[n], row[table[n].name])
    BY <2>1 DEF RowFits
  <2> HIDE DEF row
  <2>3. touched[table[n].name] \in {StoredNow(table[n]), row[table[n].name]}
    BY <2>1
  <2>4. StoredNow(table[n]) = Refused \/ Fit(table[n], StoredNow(table[n]))
    BY StoredFits DEF StoredNow
  <2> HIDE DEF touched
  <2> QED
    BY <2>2, <2>3, <2>4
<1> HIDE DEF touched
<1> QED
  BY <1>1, <1>2, GeneratedFits

\* The rows fit when one is appended or replaced.
LEMMA AppendedFits ==
  ASSUME NEW stored, RowsFit(stored), NEW new, RowFits(new)
  PROVE  RowsFit(Append(stored, new))
<1>1. PICK S : stored \in Seq(S)
  BY DEF RowsFit
<1>2. Append(stored, new) \in Seq(S \union {new})
  BY <1>1
<1>3. \A i \in DOMAIN Append(stored, new) :
        \/ i \in DOMAIN stored /\ Append(stored, new)[i] = stored[i]
        \/ Append(stored, new)[i] = new
  BY <1>1
<1> QED
  BY <1>2, <1>3 DEF RowsFit

LEMMA ReplacedFits ==
  ASSUME NEW stored, RowsFit(stored), NEW at, NEW new, RowFits(new),
         NEW result, result = [stored EXCEPT ![at] = new]
  PROVE  RowsFit(result)
<1>1. PICK S : stored \in Seq(S)
  BY DEF RowsFit
<1>2. result \in Seq(S \union {new})
  <2>1. Len(stored) \in Nat /\ stored \in [1..Len(stored) -> S]
    BY <1>1
  <2>2. result \in [1..Len(stored) -> S \union {new}]
    BY <2>1
  <2> QED
    BY <2>1, <2>2
<1>3. \A i \in DOMAIN result : i \in DOMAIN stored /\ result[i] \in {stored[i], new}
  BY <1>1
<1> QED
  BY <1>2, <1>3 DEF RowsFit

\* A record of an INSERT, in any mode.
LEMMA AddedFits ==
  ASSUME NamesDiffer, NEW stored, RowsFit(stored), NEW args, NEW mode, NEW updates,
         AddRow(stored, args, mode, updates) # Refused
  PROVE  RowsFit(AddRow(stored, args, mode, updates))
<1> DEFINE new == NewRow(args, stored)
           same == WithKey(stored, new[Key])
           updated == UpdatedRow(stored[same], new, updates)
<1>1. Refused \notin Range(new) /\ AddRow(stored, args, mode, updates) = PutRow(stored, new, mode, updates)
  BY DEF AddRow, PutRow
<1>2. RowFits(new)
  BY <1>1, NewRowFits
<1>3. CASE same = 0
  <2>1. AddRow(stored, args, mode, updates) = Append(stored, new)
    BY <1>1, <1>3 DEF PutRow
  <2> HIDE DEF new
  <2> QED
    BY <1>2, <2>1, AppendedFits
<1>4. CASE same # 0 /\ mode = "ignore"
  BY <1>1, <1>4 DEF PutRow
<1>5. CASE same # 0 /\ mode = "duplicate"
  <2>1. AddRow(stored, args, mode, updates) = ReplaceRow(stored, same, updated)
    BY <1>1, <1>5 DEF PutRow
  <2>2. AddRow(stored, args, mode, updates) = [stored EXCEPT ![same] = updated]
        /\ Refused \notin Range(updated)
    BY <2>1 DEF ReplaceRow
  <2>3. CASE same \in DOMAIN stored
    <3>1. RowFits(stored[same])
      BY <2>3 DEF RowsFit
    <3>2. RowFits(updated)
      BY <1>2, <2>2, <3>1, UpdatedRowFits
    <3> HIDE DEF updated, same, new
    <3> QED
      BY <2>2, <3>2, ReplacedFits
  <2>4. CASE same \notin DOMAIN stored
    <3> HIDE DEF updated, same, new
    <3>1. [stored EXCEPT ![same] = updated] = stored
      <4>1. PICK S : stored \in Seq(S)
        BY DEF RowsFit
      <4>2. stored = [i \in DOMAIN stored |-> stored[i]]
        BY <4>1
      <4> QED
        BY <2>4, <4>2
    <3> QED
      BY <2>2, <3>1
  <2> QED
    BY <2>3, <2>4
<1>6. CASE same # 0 /\ mode \notin {"ignore", "duplicate"}
  BY <1>1, <1>6 DEF PutRow
<1> QED
  BY <1>3, <1>4, <1>5, <1>6

\* The rows after n of the records.
After(f, n, fields, args, mode, updates) ==
    /\ f[0] = rows
    /\ \A i \in 1..n : f[i] = IF f[i - 1] = Refused THEN Refused
                              ELSE AddRow(f[i - 1], ByPath(fields, args[i]), mode, updates)

\* Executed is a recursive function: its values, record by record, exist for
\* any number of records.
LEMMA AfterEach ==
  ASSUME NEW fields, NEW args, NEW mode, NEW updates, NEW N \in Nat
  PROVE  \E f : f = [i \in 0..N |-> f[i]] /\ After(f, N, fields, args, mode, updates)
<1> DEFINE Is(f, n) == f = [i \in 0..n |-> f[i]] /\ After(f, n, fields, args, mode, updates)
           Step(x, i) == IF x = Refused THEN Refused ELSE AddRow(x, ByPath(fields, args[i]), mode, updates)
           T == {n \in 0..N : \E f : Is(f, n)}
<1>1. 0 \in T
  <2> DEFINE f == [i \in 0..0 |-> rows]
  <2>1. f = [i \in 0..0 |-> f[i]] /\ f[0] = rows /\ (1..0) = {}
    OBVIOUS
  <2> HIDE DEF f
  <2>2. Is(f, 0)
    BY <2>1 DEF After
  <2> HIDE DEF Is
  <2> QED
    BY <2>2
<1>2. ASSUME NEW n \in 0..(N - 1), n \in T PROVE n + 1 \in T
  <2>1. PICK f : Is(f, n)
    BY <1>2
  <2> DEFINE g == [i \in 0..(n + 1) |-> IF i = n + 1 THEN Step(f[n], n + 1) ELSE f[i]]
  <2>2. g = [i \in 0..(n + 1) |-> g[i]] /\ g[n + 1] = Step(f[n], n + 1) /\ \A i \in 0..n : g[i] = f[i]
    BY SMT
  <2> HIDE DEF g, Step
  <2>3. ASSUME NEW i \in 1..(n + 1) PROVE g[i] = Step(g[i - 1], i)
    <3>1. i - 1 \in 0..n /\ (i = n + 1 \/ (i \in 1..n /\ i \in 0..n))
      OBVIOUS
    <3>2. g[i - 1] = f[i - 1]
      BY <2>2, <3>1
    <3>3. CASE i = n + 1
      <4>1. i - 1 = n
        BY <3>3
      <4> QED
        BY <2>2, <3>2, <3>3, <4>1
    <3>4. CASE i \in 1..n /\ i \in 0..n
      BY <2>1, <2>2, <3>2, <3>4 DEF After, Step
    <3> QED
      BY <3>1, <3>3, <3>4
  <2>4. g[0] = rows
    <3>1. 0 \in 0..n
      OBVIOUS
    <3> QED
      BY <2>1, <2>2, <3>1 DEF After
  <2>5. After(g, n + 1, fields, args, mode, updates)
    BY <2>3, <2>4 DEF After, Step
  <2>6. Is(g, n + 1) /\ n + 1 \in 0..N
    BY <2>2, <2>5
  <2> HIDE DEF Is
  <2> QED
    BY <2>6
<1>3. N \in T
  <2>1. N \in 0..N
    OBVIOUS
  <2> HIDE DEF T
  <2> QED
    BY <1>1, <1>2, <2>1, UpTo
<1>4. PICK f : Is(f, N)
  BY <1>3
<1> QED
  BY <1>4

\* The whole INSERT.
LEMMA ExecutedFits ==
  ASSUME NamesDiffer, RowsFit(rows), NEW fields, NEW args, Len(args) \in Nat, NEW mode, NEW updates,
         Executed(fields, args, mode, updates) # Refused
  PROVE  RowsFit(Executed(fields, args, mode, updates))
<1> DEFINE N == Len(args)
           Is(f) == f = [n \in 0..N |->
                           IF n = 0 THEN rows
                           ELSE IF f[n - 1] = Refused THEN Refused
                           ELSE AddRow(f[n - 1], ByPath(fields, args[n]), mode, updates)]
           h == CHOOSE f : Is(f)
<1>1. Executed(fields, args, mode, updates) = h[N]
  BY DEF Executed
<1> HIDE DEF N
<1>2. \E f : Is(f)
  <2>1. N \in Nat
    BY DEF N
  <2>2. PICK f : f = [i \in 0..N |-> f[i]] /\ After(f, N, fields, args, mode, updates)
    BY <2>1, AfterEach
  <2>3. ASSUME NEW n \in 0..N
        PROVE  f[n] = IF n = 0 THEN rows
                      ELSE IF f[n - 1] = Refused THEN Refused
                      ELSE AddRow(f[n - 1], ByPath(fields, args[n]), mode, updates)
    <3>1. n = 0 \/ n \in 1..N
      BY <2>1
    <3> QED
      BY <2>2, <3>1 DEF After
  <2>4. Is(f)
    BY <2>2, <2>3
  <2> QED
    BY <2>4
<1>3. Is(h)
  BY <1>2
<1> HIDE DEF h
<1> DEFINE T == {n \in 0..N : h[n] = Refused \/ RowsFit(h[n])}
<1>4. 0 \in T /\ N \in 0..N /\ N \in Nat
  BY <1>3 DEF N
<1>5. ASSUME NEW n \in 0..(N - 1), n \in T PROVE n + 1 \in T
  <2>1. n + 1 \in 0..N /\ n + 1 # 0 /\ (n + 1) - 1 = n
    BY <1>4
  <2>2. h[n + 1] = IF h[n] = Refused THEN Refused
                   ELSE AddRow(h[n], ByPath(fields, args[n + 1]), mode, updates)
    BY <1>3, <2>1
  <2> HIDE DEF Is
  <2>3. h[n + 1] = Refused \/ RowsFit(h[n + 1])
    BY <1>5, <2>2, AddedFits
  <2> QED
    BY <2>1, <2>3
<1> HIDE DEF Is
<1>6. N \in T
  <2> HIDE DEF T
  <2> QED
    BY <1>4, <1>5, UpTo
<1> QED
  BY <1>1, <1>6

-----------------------------------------------------------------------------
\* The decoder of each kind whose readings of numbers agree.
LEMMA KindIs ==
  ASSUME NEW it, NEW of
  PROVE  /\ of \in Signed => DecodeKind(of, it) = DecodeInt(of, it)
         /\ of \in Unsigned => DecodeKind(of, it) = DecodeUint(of, it)
         /\ of = "float64" => DecodeKind(of, it) = DecodeFloat(it)
         /\ of = "bool" => DecodeKind(of, it) = DecodeBool(it)
         /\ of = "string" => DecodeKind(of, it) = DecodeString(it)
         /\ of = "language" => DecodeKind(of, it) = DecodeLanguage(it)
         /\ of \in {"point", "line"} => DecodeKind(of, it) = DecodeSpatial(of, it)
         /\ of = "any" => DecodeKind(of, it) = Refused
  BY DEF DecodeKind, Signed, Unsigned

LEMMA DecodeIs ==
  ASSUME NEW type, NEW it
  PROVE  /\ type.of = "uuid" => Decode(type, it) = DecodeUUID(type, it)
         /\ type.of # "uuid" /\ it # Nil => Decode(type, it) = DecodeKind(type.of, it)
  BY DEF Decode

\* How a float is printed, and that a whole one is a float64.
LEMMA PrintedIs ==
  ASSUME NEW n \in Int
  PROVE  /\ Large(n) => Printed(<<"float", n>>) = <<"exp", n>>
         /\ ~Large(n) /\ n % 2 # 0 => Printed(<<"float", n>>) = <<"float", n>>
         /\ ~Large(n) /\ n % 2 = 0 => /\ Printed(<<"float", n>>) = <<"int", n \div 2>>
                                     /\ n = 2 * (n \div 2)
                                     /\ Double(n \div 2) = n \div 2
<1>1. Large(n) => Printed(<<"float", n>>) = <<"exp", n>>
  BY DEF Printed
<1>2. ~Large(n) => Printed(<<"float", n>>) = FormatFloat(n)
  BY DEF Printed
<1>3. ASSUME ~Large(n), n % 2 = 0
      PROVE  n = 2 * (n \div 2) /\ Double(n \div 2) = n \div 2
  <2>1. n = 2 * (n \div 2) /\ n \div 2 \in Int
    BY <1>3
  <2>2. -Exponent < n /\ n < Exponent
    BY <1>3, ExponentAssumption DEF Large
  <2>3. n \div 2 \in -Precise..Precise
    BY <2>1, <2>2, ExponentAssumption
  <2> QED
    BY <2>1, <2>3 DEF Double
<1>4. FormatFloat(n) = IF n % 2 = 0 THEN <<"int", n \div 2>> ELSE <<"float", n>>
  BY DEF FormatFloat
<1> QED
  BY <1>1, <1>2, <1>3, <1>4

\* Where a whole float that has 64 bits goes.
LEMMA ConvertedIs ==
  ASSUME NEW n \in Int, n % 2 = 0, NEW of, ~Huge(<<"float", n>>, of)
  PROVE  /\ of \in Signed => DecodeInt(of, <<"float64", n>>) = Fitting(of, n \div 2)
         /\ of \in Unsigned /\ n >= 0 => DecodeUint(of, <<"float64", n>>) = Fitting(of, n \div 2)
<1>1. Truncated(n) = n \div 2
  BY DEF Truncated
<1>2. ASSUME of \in Signed PROVE DecodeInt(of, <<"float64", n>>) = Fitting(of, n \div 2)
  <2>1. n \div 2 \in Smallest("int64")..MaxInt64
    BY <1>1, <1>2 DEF Huge, Signed, Unsigned
  <2>2. Smallest("int64") <= n \div 2 /\ n \div 2 <= MaxInt64
    BY <2>1
  <2>3. Smallest("int64") \in Int /\ MaxInt64 \in Int
    BY BitsAssumption
  <2>4. ~(n \div 2 < Smallest("int64")) /\ ~(n \div 2 > MaxInt64)
    BY <2>2, <2>3
  <2>5. ToInt64(n) = n \div 2
    BY <1>1, <2>4 DEF ToInt64
  <2> QED
    BY <2>5 DEF DecodeInt
<1>3. ASSUME of \in Unsigned, n >= 0 PROVE DecodeUint(of, <<"float64", n>>) = Fitting(of, n \div 2)
  <2>1. n \div 2 \in 0..Largest("uint64")
    BY <1>1, <1>3 DEF Huge
  <2>2. Largest("uint64") \in Int
    BY BitsAssumption DEF Largest, Unsigned
  <2>3. ~(n \div 2 > Largest("uint64"))
    BY <2>1, <2>2
  <2>4. ToUint64(n) = n \div 2
    BY <2>3 DEF ToUint64
  <2>5. (IF n > 0 THEN ToUint64(n) ELSE 0) = n \div 2
    BY <1>3, <2>4
  <2> QED
    BY <2>5 DEF DecodeUint
<1> QED
  BY <1>2, <1>3

\* Where the numbers of a column can be read alike.
Alike == Signed \union Unsigned
         \union {"float64", "bool", "string", "language", "point", "line", "any"}

\* The other kinds are in Narrowing with every number.
LEMMA NumbersElsewhere ==
  ASSUME NEW s, s[1] \in {"int", "float"}, NEW of, ~Narrowing(s, of)
  PROVE  of \in Alike
  BY DEF Narrowing, Alike

\* An integer, as text and as an int64.
LEMMA WholeAgrees ==
  ASSUME NEW n \in Int, n <= MaxInt64, NEW of, ~Narrowing(<<"int", n>>, of)
  PROVE  DecodeKind(of, <<"bytes", <<"int", n>>>>) = DecodeKind(of, <<"int64", n>>)
<1> DEFINE text == <<"bytes", <<"int", n>>>>
           binary == <<"int64", n>>
<1>1. of \in Alike
  BY NumbersElsewhere
<1>2. CASE of \in Signed
  BY <1>2, KindIs DEF DecodeInt
<1>3. CASE of \in Unsigned
  <2>1. n >= 0
    BY <1>3 DEF Narrowing, Unsigned, Signed
  <2>2. n % 2^Bits["uint64"] = n
    BY <2>1, BitsAssumption
  <2>3. DecodeUint(of, text) = Fitting(of, n)
    BY <2>1 DEF DecodeUint
  <2>4. DecodeUint(of, binary) = Fitting(of, n)
    BY <2>2 DEF DecodeUint
  <2> QED
    BY <1>3, <2>3, <2>4, KindIs
<1>4. CASE of = "float64"
  BY <1>4, KindIs DEF DecodeFloat, ParseFloat
<1>5. CASE of = "bool"
  <2>1. n = 0 \/ n = 1
    BY <1>5 DEF Narrowing, Unsigned, Signed
  <2>2. DecodeBool(binary) = <<"bool", n = 1>>
    BY DEF DecodeBool
  <2>3. DecodeBool(text) = <<"bool", n = 1>>
    BY <2>1 DEF DecodeBool
  <2> QED
    BY <1>5, <2>2, <2>3, KindIs
<1>6. CASE of = "string"
  BY <1>6, KindIs DEF DecodeString
<1>7. CASE of = "language"
  BY <1>7, KindIs DEF DecodeLanguage, Nil, Chars
<1>8. CASE of \in {"point", "line"}
  BY <1>8, KindIs DEF DecodeSpatial, Nil
<1>9. CASE of = "any"
  BY <1>9, KindIs
<1> QED
  BY <1>1, <1>2, <1>3, <1>4, <1>5, <1>6, <1>7, <1>8, <1>9 DEF Alike

\* A float, as text and as a float64.
LEMMA RealAgrees ==
  ASSUME NEW n \in Int, NEW of, ~Narrowing(<<"float", n>>, of), ~Exponential(<<"float", n>>, of)
  PROVE  DecodeKind(of, <<"bytes", Printed(<<"float", n>>)>>) = DecodeKind(of, <<"float64", n>>)
<1> DEFINE text == <<"bytes", Printed(<<"float", n>>)>>
           binary == <<"float64", n>>
<1>1. of \in Alike
  BY NumbersElsewhere
<1>2. of \in Signed \union Unsigned \union {"string"} => ~Large(n)
  BY DEF Exponential
<1>3. /\ ~Large(n) /\ n % 2 = 0 => text = <<"bytes", <<"int", n \div 2>>>>
      /\ ~Large(n) /\ n % 2 # 0 => text = <<"bytes", <<"float", n>>>>
      /\ Large(n) => text = <<"bytes", <<"exp", n>>>>
  BY PrintedIs
<1>a. n = 2 * (n \div 2) \/ n % 2 # 0
  OBVIOUS
<1>b. Printed(<<"float", n>>)[1] \in {"float", "int", "exp"}
  BY PrintedIs
<1>4. CASE of \in Signed
  <2>1. n % 2 = 0 /\ ~Huge(<<"float", n>>, of)
    BY <1>4 DEF Narrowing, Signed, Unsigned
  <2>2. DecodeInt(of, binary) = Fitting(of, n \div 2)
    BY <1>4, <2>1, ConvertedIs
  <2>3. text = <<"bytes", <<"int", n \div 2>>>>
    BY <1>2, <1>3, <1>4, <2>1
  <2>4. DecodeInt(of, text) = IF n \div 2 <= MaxInt64 THEN Fitting(of, n \div 2) ELSE Refused
    BY <2>3 DEF DecodeInt
  <2>5. n \div 2 > MaxInt64 => Fitting(of, n \div 2) = Refused
    BY <1>4, BitsAssumption DEF Fitting
  <2>6. DecodeInt(of, text) = DecodeInt(of, binary)
    BY <2>2, <2>4, <2>5, BitsAssumption
  <2> QED
    BY <1>4, <2>6, KindIs
<1>5. CASE of \in Unsigned
  <2>1. n % 2 = 0 /\ n >= 0 /\ ~Huge(<<"float", n>>, of)
    BY <1>5 DEF Narrowing, Signed, Unsigned
  <2>2. DecodeUint(of, binary) = Fitting(of, n \div 2)
    BY <1>5, <2>1, ConvertedIs
  <2>3. text = <<"bytes", <<"int", n \div 2>>>>
    BY <1>2, <1>3, <1>5, <2>1
  <2>4. DecodeUint(of, text) = Fitting(of, n \div 2)
    BY <2>1, <2>3 DEF DecodeUint
  <2> QED
    BY <1>5, <2>2, <2>4, KindIs
<1>6. CASE of = "float64"
  <2>1. DecodeFloat(binary) = <<"float", n>>
    BY DEF DecodeFloat
  <2>2. DecodeFloat(text) = ParseFloat(Printed(<<"float", n>>))
    BY DEF DecodeFloat
  <2>3. ParseFloat(<<"exp", n>>) = <<"float", n>> /\ ParseFloat(<<"float", n>>) = <<"float", n>>
    BY DEF ParseFloat
  <2>4. ParseFloat(<<"int", n \div 2>>) = <<"float", 2 * Double(n \div 2)>>
    BY DEF ParseFloat
  <2>5. ParseFloat(Printed(<<"float", n>>)) = <<"float", n>>
    BY <2>3, <2>4, PrintedIs
  <2> QED
    BY <1>6, <2>1, <2>2, <2>5, KindIs
<1>7. CASE of = "bool"
  BY <1>7 DEF Narrowing, Signed, Unsigned
<1>8. CASE of = "string"
  <2>1. ~Large(n)
    BY <1>2, <1>8
  <2>2. Printed(<<"float", n>>) = FormatFloat(n)
    BY <2>1 DEF Printed
  <2>3. DecodeString(text) = <<"string", FormatFloat(n)>>
    BY <2>2 DEF DecodeString
  <2>4. DecodeString(binary) = <<"string", FormatFloat(n)>>
    BY DEF DecodeString
  <2> QED
    BY <1>8, <2>3, <2>4, KindIs
<1>9. CASE of = "language"
  <2>2. DecodeLanguage(text) = Refused
    BY <1>b DEF DecodeLanguage, Nil, Chars
  <2>3. DecodeLanguage(binary) = Refused
    BY DEF DecodeLanguage, Nil
  <2> QED
    BY <1>9, <2>2, <2>3, KindIs
<1>10. CASE of \in {"point", "line"}
  <2>2. DecodeSpatial(of, text) = Refused
    BY <1>10, <1>b DEF DecodeSpatial, Nil
  <2>3. DecodeSpatial(of, binary) = Refused
    BY DEF DecodeSpatial, Nil
  <2> QED
    BY <1>10, <2>2, <2>3, KindIs
<1>11. CASE of = "any"
  BY <1>11, KindIs
<1> QED
  BY <1>1, <1>4, <1>5, <1>6, <1>7, <1>8, <1>9, <1>10, <1>11 DEF Alike

\* One value: what a protocol gives of it is read alike.
LEMMA ValueAgrees ==
  ASSUME NEW col, NEW s, Fit(col, s), NEW type, ~Narrowing(s, type.of), ~Exponential(s, type.of)
  PROVE  Decode(type, Given(col, s, "text")) = Decode(type, Given(col, s, "binary"))
<1>1. CASE s = Null
  BY <1>1 DEF Given
<1>2. CASE s # Null /\ col.sql \in Whole
  <2>1. PICK n \in Int : s = <<"int", n>>
    BY <1>2 DEF Fit, Measures
  <2>2. Given(col, s, "text") = <<"bytes", s>>
    BY <1>2, <2>1 DEF Given, Printed, Whole
  <2>3. n > MaxInt64 => Given(col, s, "binary") = <<"bytes", s>>
    <3> SUFFICES ASSUME n > MaxInt64 PROVE Given(col, s, "binary") = <<"bytes", s>>
      OBVIOUS
    <3>1. ~(n <= MaxInt64)
      <4>1. MaxInt64 \in Nat
        BY BitsAssumption
      <4> QED
        BY <4>1
    <3>2. col.sql \notin Real
      BY <1>2 DEF Whole, Real
    <3> QED
      BY <1>2, <2>1, <3>1, <3>2 DEF Given, Printed
  <2>4. n <= MaxInt64 => Given(col, s, "binary") = <<"int64", n>>
    BY <1>2, <2>1 DEF Given, Whole, Real
  <2>5. CASE n <= MaxInt64
    <3>1. type.of # "uuid"
      BY <2>1, NumbersElsewhere DEF Alike, Signed, Unsigned
    <3>2. Decode(type, <<"bytes", s>>) = DecodeKind(type.of, <<"bytes", s>>)
      BY <3>1, DecodeIs DEF Nil
    <3>3. Decode(type, <<"int64", n>>) = DecodeKind(type.of, <<"int64", n>>)
      BY <3>1, DecodeIs DEF Nil
    <3> QED
      BY <2>1, <2>2, <2>4, <2>5, <3>2, <3>3, WholeAgrees
  <2> QED
    BY <2>2, <2>3, <2>5, BitsAssumption
<1>3. CASE s # Null /\ col.sql \in Real
  <2>1. PICK n \in Int : s = <<"float", n>>
    BY <1>3 DEF Fit, Measures
  <2>2. Given(col, s, "text") = <<"bytes", Printed(s)>>
    BY <1>3, <2>1 DEF Given, Real
  <2>3. Given(col, s, "binary") = <<"float64", n>>
    BY <1>3, <2>1 DEF Given, Real, Whole
  <2>4. type.of # "uuid"
    BY <2>1, NumbersElsewhere DEF Alike, Signed, Unsigned
  <2>5. Decode(type, <<"bytes", Printed(s)>>) = DecodeKind(type.of, <<"bytes", Printed(s)>>)
    BY <2>4, DecodeIs DEF Nil
  <2>6. Decode(type, <<"float64", n>>) = DecodeKind(type.of, <<"float64", n>>)
    BY <2>4, DecodeIs DEF Nil
  <2> QED
    BY <2>1, <2>2, <2>3, <2>5, <2>6, RealAgrees
<1>4. CASE s # Null /\ col.sql \notin Whole /\ col.sql \notin Real
  BY <1>4 DEF Given
<1> QED
  BY <1>1, <1>2, <1>3, <1>4

-----------------------------------------------------------------------------
\* What values say, case by case.
LEMMA SaysIs ==
  ASSUME NEW x
  PROVE  /\ Says(<<"int", x>>) = <<"number", 2 * x>>
         /\ Says(<<"float", x>>) = <<"number", x>>
         /\ Says(<<"bool", TRUE>>) = <<"number", 2>>
         /\ Says(<<"bool", FALSE>>) = <<"number", 0>>
         /\ Says(<<"date", x>>) = <<"moment", x * Day>>
         /\ Says(<<"time", x>>) = <<"moment", x>>
  BY DEF Says, InHalves

LEMMA SaysOfText ==
  ASSUME NEW text, IsNumber(text)
  PROVE  /\ Says(<<"string", text>>) = <<"number", InHalves(text)>>
         /\ Says(<<"raw", text>>) = <<"number", InHalves(text)>>
  BY DEF Says

LEMMA SaysOfKey ==
  ASSUME NEW x, NEW n
  PROVE  Says(<<"key", OneLevel(x, n)>>) = <<"number", IF IsNumber(x) THEN InHalves(x) ELSE 2 * n>>
<1> DEFINE levels == OneLevel(x, n)
<1>1. Len(levels) = 1 /\ levels[1].name = x /\ levels[1].id = n
  BY DEF OneLevel
<1> HIDE DEF levels
<1>2. Says(<<"key", levels>>)
        = <<"number", IF IsNumber(levels[1].name) THEN InHalves(levels[1].name) ELSE 2 * levels[1].id>>
  BY <1>1 DEF Says
<1> QED
  BY <1>1, <1>2 DEF levels

\* What is read of the text of a number says that number, but where the text
\* is more than a float64 can say, or is taken for base64.
LEMMA KindKeeps ==
  ASSUME NEW s, NEW n, s \in {<<"int", n>>, <<"float", n>>, <<"exp", n>>}, NEW of
  PROVE  \/ DecodeKind(of, <<"bytes", s>>) = Refused
         \/ Says(DecodeKind(of, <<"bytes", s>>)) = <<"number", InHalves(s)>>
         \/ of = "float64" /\ s[1] = "int" /\ Double(s[2]) # s[2]
         \/ of = "bytes" /\ s \in Mistaken.bytes
<1> DEFINE it == <<"bytes", s>>
           v == DecodeKind(of, it)
           number == IF s[1] = "int" THEN 2 * s[2] ELSE s[2]
           said == <<"number", number>>
           misread == \/ of = "float64" /\ s[1] = "int" /\ Double(s[2]) # s[2]
                      \/ of = "bytes" /\ s \in Mistaken.bytes
<1>a. it[1] = "bytes" /\ it[2] = s /\ it # Nil /\ s # Chars(<<>>) /\ s[1] \in {"int", "float", "exp"} /\ Len(it) = 2
  BY DEF Nil, Chars
<1>b. InHalves(s) = number /\ IsNumber(s)
  BY DEF InHalves, IsNumber
<1>c. it # <<"bytes", Chars(<<>>)>> /\ it # <<"bytes", ZeroOf("location")>>
  <2>1. ZeroOf("location") = <<"location", "">>
    BY DEF ZeroOf, Slices
  <2>2. s # ZeroOf("location")
    <3>1. ZeroOf("location")[1] = "location"
      BY DEF ZeroOf, Slices
    <3> QED
      BY <1>a, <3>1
  <2> QED
    BY <1>a, <2>2
<1>d. s[1] = "int" => s = <<"int", s[2]>>
  OBVIOUS
<1>f. Says(<<"string", s>>) = said /\ Says(<<"raw", s>>) = said
  BY <1>b, SaysOfText
<1>e. SUFFICES v = Refused \/ Says(v) = said \/ misread
  BY <1>b
<1> HIDE DEF it
<1>1. CASE of \in Signed
  <2>1. v \in {Refused, <<"int", s[2]>>} /\ (v # Refused => s[1] = "int")
    BY <1>1, <1>a, KindIs DEF DecodeInt, Fitting
  <2> QED
    BY <2>1, SaysIs
<1>2. CASE of \in Unsigned
  <2>1. v \in {Refused, <<"int", s[2]>>} /\ (v # Refused => s[1] = "int")
    BY <1>2, <1>a, KindIs DEF DecodeUint, Fitting
  <2> QED
    BY <2>1, SaysIs
<1>3. CASE of = "float64"
  <2>1. v = ParseFloat(s)
    BY <1>3, <1>a, KindIs DEF DecodeFloat
  <2>2. CASE s[1] = "int"
    <3>1. v = <<"float", 2 * Double(s[2])>>
      BY <2>1, <2>2 DEF ParseFloat
    <3> QED
      BY <1>3, <2>2, <3>1, SaysIs
  <2>3. CASE s[1] # "int"
    <3>1. v = <<"float", s[2]>>
      BY <1>a, <2>1, <2>3 DEF ParseFloat
    <3> QED
      BY <2>3, <3>1, SaysIs
  <2> QED
    BY <2>2, <2>3
<1>4. CASE of = "bool"
  <2>1. v = IF s \in {<<"int", 0>>, <<"int", 1>>} THEN <<"bool", s[2] = 1>> ELSE Refused
    BY <1>4, <1>a, KindIs DEF DecodeBool
  <2>2. CASE s = <<"int", 0>>
    <3>1. s[2] # 1 /\ number = 0
      BY <2>2
    <3> HIDE DEF v, number
    <3>2. v = <<"bool", FALSE>>
      BY <2>1, <2>2, <3>1
    <3> QED
      BY <3>1, <3>2, SaysIs
  <2>3. CASE s = <<"int", 1>>
    <3>1. s[2] = 1 /\ number = 2
      BY <2>3
    <3> HIDE DEF v, number
    <3>2. v = <<"bool", TRUE>>
      BY <2>1, <2>3, <3>1
    <3> QED
      BY <3>1, <3>2, SaysIs
  <2> QED
    BY <2>1, <2>2, <2>3
<1>5. CASE of \in {"string", "raw"}
  <2>1. CASE of = "string"
    <3>1. v = <<"string", s>>
      BY <1>a, <2>1, KindIs DEF DecodeString
    <3> HIDE DEF v, said
    <3> QED
      BY <1>f, <3>1
  <2>2. CASE of = "raw"
    <3>1. v = DecodeJSONRaw(it)
      BY <2>2 DEF DecodeKind, Signed, Unsigned
    <3>2. v = <<"raw", s>>
      BY <1>a, <3>1 DEF DecodeJSONRaw
    <3> HIDE DEF v, said
    <3> QED
      BY <1>f, <3>2
  <2> QED
    BY <1>5, <2>1, <2>2
<1>6. CASE of = "key"
  <2>1. v = DecodeDatastoreKey(it)
    BY <1>6 DEF DecodeKind, Signed, Unsigned
  <2>2. v = IF s[1] = "int" /\ s[2] <= MaxInt64 THEN <<"key", OneLevel(Chars(<<>>), s[2])>>
            ELSE <<"key", OneLevel(s, 0)>>
    BY <1>a, <2>1 DEF DecodeDatastoreKey
  <2>3. Says(<<"key", OneLevel(Chars(<<>>), s[2])>>) = <<"number", 2 * s[2]>>
    <3>1. ~IsNumber(Chars(<<>>))
      BY DEF IsNumber, Chars
    <3> QED
      BY <3>1, SaysOfKey
  <2>4. Says(<<"key", OneLevel(s, 0)>>) = said
    BY <1>b, SaysOfKey
  <2> QED
    BY <2>2, <2>3, <2>4
<1>7. CASE of \in {"bytes", "time", "date", "clock", "currency", "language", "location", "point", "line", "any"}
  <2>1. of \notin Signed \union Unsigned
    BY <1>7 DEF Signed, Unsigned
  <2>2. CASE of = "bytes"
    <3>1. v = DecodeByte(it)
      BY <2>1, <2>2 DEF DecodeKind
    <3>2. s \in Mistaken.bytes \/ DecodeByte(it) = Refused
      BY <1>a DEF DecodeByte
    <3> QED
      BY <2>2, <3>1, <3>2
  <2>3. CASE of = "time"
    BY <1>a, <2>1, <2>3 DEF DecodeKind, DecodeDateTime
  <2>4. CASE of = "date"
    BY <1>a, <2>1, <2>4 DEF DecodeKind, DecodeDate
  <2>5. CASE of = "clock"
    BY <1>a, <2>1, <2>5 DEF DecodeKind, DecodeTime
  <2>6. CASE of = "currency"
    BY <1>a, <2>1, <2>6 DEF DecodeKind, DecodeCurrency
  <2>7. CASE of = "language"
    BY <1>a, <1>c, <2>1, <2>7 DEF DecodeKind, DecodeLanguage
  <2>8. CASE of = "location"
    BY <1>a, <1>c, <2>1, <2>8 DEF DecodeKind, DecodeTimeLocation
  <2>9. CASE of \in {"point", "line"}
    BY <1>a, <2>9, KindIs DEF DecodeSpatial
  <2>10. CASE of = "any"
    BY <2>10, KindIs
  <2> QED
    BY <1>7, <2>2, <2>3, <2>4, <2>5, <2>6, <2>7, <2>8, <2>9, <2>10
<1>8. CASE of \notin Signed \union Unsigned
              \union {"float64", "bool", "string", "raw", "key", "bytes", "time", "date", "clock", "currency",
                      "language", "location", "point", "line", "any"}
  BY <1>8, <1>a DEF DecodeKind, DecodeDocument
<1> QED
  BY <1>1, <1>2, <1>3, <1>4, <1>5, <1>6, <1>7, <1>8

-----------------------------------------------------------------------------
LEMMA SaysOfMoment ==
  ASSUME NEW s, s[1] \in {"date", "time"}
  PROVE  Says(s) = <<"moment", IF s[1] = "date" THEN s[2] * Day ELSE s[2]>>
  BY DEF Says

\* A whole number of days.
LEMMA WholeDays ==
  ASSUME NEW n \in Int
  PROVE  (n * Day) \div Day = n
<1>1. Day \in Nat /\ Day > 0
  BY DayAssumption
<1>2. n * Day \in Int
  BY <1>1
<1>3. \A k \in Int : k > n => k * Day >= n * Day + Day
  BY <1>1
<1>4. \A k \in Int : k < n => k * Day + Day <= n * Day
  BY <1>1
<1> QED
  BY <1>1, <1>2, <1>3, <1>4

\* What the driver gives of a moment, and of a number by the text protocol.
LEMMA GivenMoment ==
  ASSUME NEW col, NEW s, s # Null, NEW protocol,
         \/ col.sql = "DATE" /\ s[1] = "date"
         \/ col.sql = "DATETIME" /\ s[1] = "time"
  PROVE  /\ Given(col, s, protocol)[1] = "time"
         /\ Given(col, s, protocol)[2] = IF s[1] = "date" THEN s[2] * Day ELSE s[2]
<1>1. CASE col.sql = "DATE" /\ s[1] = "date"
  <2>1. Given(col, s, protocol) = <<"time", s[2] * Day>>
    BY <1>1 DEF Given, Whole, Real
  <2> QED
    BY <1>1, <2>1
<1>2. CASE col.sql = "DATETIME" /\ s[1] = "time"
  <2>1. Given(col, s, protocol) = s
    BY <1>2 DEF Given, Whole, Real
  <2> QED
    BY <1>2, <2>1
<1> QED
  BY <1>1, <1>2

LEMMA GivenText ==
  ASSUME NEW col, NEW s, s # Null, s[1] \in {"int", "float"}
  PROVE  Given(col, s, "text") = <<"bytes", Printed(s)>>
  BY DEF Given

\* What is read of a moment, whatever the protocol.
LEMMA MomentKeeps ==
  ASSUME NEW col, NEW s, Fit(col, s), s # Null, col.sql \in {"DATE", "DATETIME"},
         NEW type, NEW protocol, Decode(type, Given(col, s, protocol)) # Refused
  PROVE  Keeps(s, type.of, Decode(type, Given(col, s, protocol)), protocol)
<1> DEFINE it == Given(col, s, protocol)
           v == Decode(type, it)
           ticks == IF s[1] = "date" THEN s[2] * Day ELSE s[2]
<1>1. SUFFICES Keeps(s, type.of, v, protocol)
  OBVIOUS
<1>2. \/ col.sql = "DATE" /\ s[1] = "date" /\ s[2] \in Int
      \/ col.sql = "DATETIME" /\ s[1] = "time"
  BY DEF Fit, Measures
<1>3. it[1] = "time" /\ it[2] = ticks
  BY <1>2, GivenMoment
<1> HIDE DEF it
<1>4. CASE type.of \notin {"date", "time"}
  BY <1>2, <1>4 DEF Keeps
<1>5. CASE type.of = "time"
  <2>1. v = DecodeKind("time", it)
    <3>1. it # Nil
      BY <1>3 DEF Nil
    <3> QED
      BY <1>5, <3>1, DecodeIs
  <2>2. v = it
    BY <1>3, <2>1 DEF DecodeKind, DecodeDateTime, Signed, Unsigned
  <2>3. Says(v) = <<"moment", ticks>>
    BY <1>3, <2>2, SaysOfMoment
  <2> QED
    BY <1>2, <2>3, SaysOfMoment DEF Keeps
<1>6. CASE type.of = "date"
  <2>1. v = DecodeKind("date", it)
    <3>1. it # Nil
      BY <1>3 DEF Nil
    <3> QED
      BY <1>6, <3>1, DecodeIs
  <2>2. v = <<"date", ticks \div Day>>
    BY <1>3, <2>1 DEF DecodeKind, DecodeDate, Signed, Unsigned
  <2>3. CASE s[1] = "date"
    <3>1. v = <<"date", s[2]>>
      BY <1>2, <2>2, <2>3, WholeDays
    <3>2. Says(v) = Says(s)
      BY <2>3, <3>1, SaysOfMoment
    <3> QED
      BY <3>2 DEF Keeps
  <2>4. CASE s[1] = "time"
    BY <2>2, <2>4 DEF Keeps
  <2> QED
    BY <1>2, <2>3, <2>4
<1> QED
  BY <1>4, <1>5, <1>6

\* What is read of a number, from its text.
LEMMA NumberKeeps ==
  ASSUME NEW col, NEW s, Fit(col, s), s # Null, col.sql \in Whole \union Real,
         NEW type, Decode(type, Given(col, s, "text")) # Refused
  PROVE  Says(Decode(type, Given(col, s, "text"))) = Says(s) \/ Misread(s, type.of)
<1> DEFINE it == Given(col, s, "text")
           v == Decode(type, it)
           text == Printed(s)
<1>1. PICK n \in Int : s = <<"int", n>> \/ s = <<"float", n>>
  BY DEF Fit, Measures
<1>2. it = <<"bytes", text>>
  BY <1>1, GivenText
<1>a. s = <<"int", n>> => text = s
  BY DEF Printed
<1>3. \E k : text \in {<<"int", k>>, <<"float", k>>, <<"exp", k>>}
  BY <1>1, <1>a, PrintedIs
<1>4. Says(s) = <<"number", InHalves(text)>>
  <2>1. CASE s = <<"int", n>>
    <3>1. InHalves(text) = 2 * n
      BY <1>a, <2>1 DEF InHalves
    <3>2. Says(s) = <<"number", 2 * n>>
      BY <2>1, SaysIs
    <3> QED
      BY <3>1, <3>2
  <2>2. CASE s = <<"float", n>>
    <3>1. Says(s) = <<"number", n>>
      BY <2>2, SaysIs
    <3>2. /\ InHalves(<<"exp", n>>) = n /\ InHalves(<<"float", n>>) = n
          /\ InHalves(<<"int", n \div 2>>) = 2 * (n \div 2)
      BY DEF InHalves
    <3>3. InHalves(text) = n
      BY <2>2, <3>2, PrintedIs
    <3> QED
      BY <3>1, <3>3
  <2> QED
    BY <1>1, <2>1, <2>2
<1>5. text[1] \in {"int", "float", "exp"}
  BY <1>3
<1>b. it # Nil
  BY <1>2 DEF Nil
<1>c. text[1] = "int" /\ Double(text[2]) # text[2] => s[1] = "int" /\ Double(s[2]) # s[2]
  BY <1>1, <1>a, PrintedIs
<1> SUFFICES v # Refused => Says(v) = Says(s) \/ Misread(s, type.of)
  OBVIOUS
<1>6. CASE type.of = "uuid"
  <2>1. v = DecodeUUID(type, it)
    BY <1>6, DecodeIs
  <2>2. DecodeUUID(type, it) = Refused \/ text \in Mistaken.uuid
    BY <1>2, <1>5, <1>b DEF DecodeUUID
  <2> QED
    BY <1>6, <2>1, <2>2 DEF Misread
<1>7. CASE type.of # "uuid"
  <2>1. v = DecodeKind(type.of, <<"bytes", text>>)
    BY <1>2, <1>7, <1>b, DecodeIs
  <2>2. \/ v = Refused \/ Says(v) = <<"number", InHalves(text)>>
        \/ type.of = "float64" /\ text[1] = "int" /\ Double(text[2]) # text[2]
        \/ type.of = "bytes" /\ text \in Mistaken.bytes
    <3> HIDE DEF v, text
    <3> QED
      BY <1>3, <2>1, KindKeeps
  <2> HIDE DEF v
  <2> QED
    BY <1>4, <1>c, <2>2 DEF Misread
<1> QED
  BY <1>6, <1>7

\* What the binary protocol hands over of a float whose text has an exponent.
LEMMA ExponentKeeps ==
  ASSUME NEW n \in Int, NEW of,
         Exponential(<<"float", n>>, of), ~Narrowing(<<"float", n>>, of),
         DecodeKind(of, <<"float64", n>>) # Refused
  PROVE  Says(DecodeKind(of, <<"float64", n>>)) = <<"number", n>>
<1> DEFINE it == <<"float64", n>>
           v == DecodeKind(of, it)
<1> SUFFICES v # Refused => Says(v) = <<"number", n>>
  OBVIOUS
<1>1. of \in Signed \union Unsigned \union {"string"}
  BY DEF Exponential
<1>a. n % 2 = 0 => n = 2 * (n \div 2)
  OBVIOUS
<1>2. Fitting(of, n \div 2) \in {Refused, <<"int", n \div 2>>}
  BY DEF Fitting
<1>3. Says(<<"int", n \div 2>>) = <<"number", 2 * (n \div 2)>>
  BY SaysIs
<1>4. CASE of \in Signed
  <2>1. n % 2 = 0 /\ ~Huge(<<"float", n>>, of)
    BY <1>4 DEF Narrowing, Signed, Unsigned
  <2>2. v = Fitting(of, n \div 2)
    BY <1>4, <2>1, ConvertedIs, KindIs
  <2> HIDE DEF v
  <2> QED
    BY <1>2, <1>3, <1>a, <2>1, <2>2
<1>5. CASE of \in Unsigned
  <2>1. n % 2 = 0 /\ n >= 0 /\ ~Huge(<<"float", n>>, of)
    BY <1>5 DEF Narrowing, Signed, Unsigned
  <2>2. v = Fitting(of, n \div 2)
    BY <1>5, <2>1, ConvertedIs, KindIs
  <2> HIDE DEF v
  <2> QED
    BY <1>2, <1>3, <1>a, <2>1, <2>2
<1>6. CASE of = "string"
  <2>1. v = <<"string", FormatFloat(n)>>
    BY <1>6, KindIs DEF DecodeString
  <2>2. FormatFloat(n) = <<"float", n>> \/ (FormatFloat(n) = <<"int", n \div 2>> /\ n % 2 = 0)
    BY DEF FormatFloat
  <2>3. IsNumber(FormatFloat(n)) /\ InHalves(FormatFloat(n)) = n
    BY <1>a, <2>2 DEF IsNumber, InHalves
  <2> HIDE DEF v
  <2> QED
    BY <2>1, <2>3, SaysOfText
<1> QED
  BY <1>1, <1>4, <1>5, <1>6

\* What is read of a number or a moment, whatever the protocol.
LEMMA DecodersKeep ==
  ASSUME NEW col, NEW s, Fit(col, s), s # Null,
         col.sql \in Whole \union Real \union {"DATE", "DATETIME"},
         NEW type, NEW protocol \in {"text", "binary"}
  PROVE  \/ Decode(type, Given(col, s, protocol)) = Refused
         \/ Keeps(s, type.of, Decode(type, Given(col, s, protocol)), protocol)
<1> SUFFICES ASSUME Decode(type, Given(col, s, protocol)) # Refused
             PROVE  Keeps(s, type.of, Decode(type, Given(col, s, protocol)), protocol)
  OBVIOUS
<1>1. CASE col.sql \in {"DATE", "DATETIME"}
  BY <1>1, MomentKeeps
<1>2. CASE col.sql \in Whole \union Real /\ protocol = "text"
  BY <1>2, NumberKeeps DEF Keeps
<1>3. CASE col.sql \in Whole \union Real /\ protocol = "binary"
  <2>1. CASE Narrowing(s, type.of)
    BY <1>3, <2>1 DEF Keeps
  <2>2. CASE ~Narrowing(s, type.of) /\ ~Exponential(s, type.of)
    <3>1. Decode(type, Given(col, s, "text")) = Decode(type, Given(col, s, "binary"))
      BY <2>2, ValueAgrees
    <3> QED
      BY <1>3, <3>1, NumberKeeps DEF Keeps
  <2>3. CASE ~Narrowing(s, type.of) /\ Exponential(s, type.of)
    <3>1. PICK n \in Int : s = <<"float", n>> /\ col.sql \in Real
      BY <1>3, <2>3 DEF Exponential, Fit, Measures
    <3>2. Given(col, s, "binary") = <<"float64", n>>
      BY <3>1 DEF Given, Real, Whole
    <3>3. type.of # "uuid"
      BY <2>3 DEF Exponential, Signed, Unsigned
    <3>4. Decode(type, <<"float64", n>>) = DecodeKind(type.of, <<"float64", n>>)
      BY <3>3, DecodeIs DEF Nil
    <3>5. DecodeKind(type.of, <<"float64", n>>) # Refused
      BY <1>3, <3>2, <3>4
    <3>6. Exponential(<<"float", n>>, type.of) /\ ~Narrowing(<<"float", n>>, type.of)
      BY <2>3, <3>1
    <3>7. Says(DecodeKind(type.of, <<"float64", n>>)) = <<"number", n>>
      BY <3>5, <3>6, ExponentKeeps
    <3>8. Says(s) = <<"number", n>>
      BY <3>1, SaysIs
    <3> QED
      BY <1>3, <3>2, <3>4, <3>7, <3>8 DEF Keeps
  <2> QED
    BY <2>1, <2>2, <2>3
<1> QED
  BY <1>1, <1>2, <1>3

\* A record is read alike.
LEMMA RowAgrees ==
  ASSUME NEW row, RowFits(row),
         \A n \in SharedAt : LET of == FieldOf(table[n]).type.of
                             IN  /\ ~Narrowing(row[table[n].name], of)
                                 /\ ~Exponential(row[table[n].name], of)
  PROVE  Decoded(row, "text") = Decoded(row, "binary")
<1>1. ASSUME NEW n \in SharedAt
      PROVE  Decode(FieldOf(table[n]).type, Given(table[n], row[table[n].name], "text"))
               = Decode(FieldOf(table[n]).type, Given(table[n], row[table[n].name], "binary"))
  BY ValueAgrees DEF SharedAt, RowFits
<1>2. Reads(row, "text") = Reads(row, "binary")
  BY <1>1 DEF Reads
<1> QED
  BY <1>2 DEF Decoded

-----------------------------------------------------------------------------
\* The columns have names of their own, the rows hold what the columns store,
\* and what was found is the rows as they are.
EntitiesInv ==
    /\ \E p \in Programs : writer = p.writer
    /\ table = <<>> => rows = <<>> /\ call.protocol = "none"
    /\ NamesDiffer
    /\ RowsFit(rows)
    /\ "protocol" \in DOMAIN call /\ call.protocol \in {"none", "text", "binary"}
    /\ call.protocol # "none" => got = [i \in DOMAIN rows |-> Decoded(rows[i], call.protocol)]

\* The invariant holds of each step of the program.
LEMMA EntitiesInvInit == Init => EntitiesInv
<1> SUFFICES ASSUME Init PROVE EntitiesInv
  OBVIOUS
<1>1. table = <<>> /\ rows = <<>> /\ "protocol" \in DOMAIN call /\ call.protocol = "none"
  BY DEF Init, NoCall
<1>2. \E p \in Programs : writer = p.writer
  BY DEF Init
<1>3. NamesDiffer
  BY <1>1 DEF NamesDiffer
<1>4. RowsFit(rows)
  <2>1. rows \in Seq({}) /\ DOMAIN rows = {}
    BY <1>1
  <2> QED
    BY <2>1 DEF RowsFit
<1> QED
  BY <1>1, <1>2, <1>3, <1>4 DEF EntitiesInv

\* Nothing that was read changes while the table and the rows stay.
LEMMA SameRows ==
  ASSUME EntitiesInv, UNCHANGED <<writer, table, rows>>
  PROVE  NamesDiffer' /\ RowsFit(rows)' /\ (\E p \in Programs : writer' = p.writer)
  BY DEF EntitiesInv, NamesDiffer, RowsFit, RowFits

LEMMA MigrateKeeps == EntitiesInv /\ Migrate => EntitiesInv'
<1> SUFFICES ASSUME EntitiesInv, Migrate PROVE EntitiesInv'
  OBVIOUS
<1>1. /\ rows' = rows /\ rows = <<>> /\ writer' = writer
      /\ "protocol" \in DOMAIN call' /\ call'.protocol = "none"
  BY DEF EntitiesInv, Migrate
<1>2. NamesDiffer'
  <2>1. CASE table' = table
    BY <2>1 DEF EntitiesInv, NamesDiffer
  <2>2. CASE table' # table
    <3>1. /\ table' = Created(CreateColumns(writer), Key)
          /\ table' # Refused
      BY <2>2 DEF Migrate
    <3>2. \A m, n \in DOMAIN table' :
             m # n => LowerPath(table'[m].name) # LowerPath(table'[n].name)
      BY <3>1 DEF Created
    <3> QED
      BY <3>2 DEF NamesDiffer
  <2> QED
    BY <2>1, <2>2
<1>3. RowsFit(rows)'
  <2>1. rows' \in Seq({}) /\ DOMAIN rows' = {}
    BY <1>1
  <2> QED
    BY <2>1 DEF RowsFit
<1> QED
  BY <1>1, <1>2, <1>3 DEF EntitiesInv

LEMMA InsertKeeps == EntitiesInv /\ Insert => EntitiesInv'
<1> SUFFICES ASSUME EntitiesInv, Insert PROVE EntitiesInv'
  OBVIOUS
<1>1. /\ UNCHANGED <<writer, table>> /\ table # <<>>
      /\ "protocol" \in DOMAIN call' /\ call'.protocol = "none"
  BY DEF Insert
<1> DEFINE Runs(c, fields, args, updates) ==
             /\ args = Arguments(fields, c.batch)
             /\ \/ rows' = rows
                \/ rows' = Executed(fields, args, c.mode, updates) /\ rows' # Refused
<1>2. PICK c \in Calls[writer] : \E fields, args, updates : Runs(c, fields, args, updates)
  BY DEF Insert
<1>a. PICK fields, args, updates : Runs(c, fields, args, updates)
  BY <1>2
<1>3. Len(args) \in Nat
  <2>1. PICK p \in Programs : writer = p.writer
    BY DEF EntitiesInv
  <2>2. c.batch \in Seq(Range(c.batch))
    BY <1>2, <2>1, CallsAssumption
  <2>3. DOMAIN args = 1..Len(c.batch) /\ Len(c.batch) \in Nat
    BY <1>a, <2>2 DEF Arguments
  <2>4. args = [i \in DOMAIN args |-> args[i]]
    BY <1>a DEF Arguments
  <2>5. args \in Seq(Range(args))
    BY <2>3, <2>4 DEF Range
  <2> QED
    BY <2>5
<1>4. RowsFit(rows')
  BY <1>a, <1>3, ExecutedFits DEF EntitiesInv
<1>5. NamesDiffer' /\ RowsFit(rows)'
  BY <1>1, <1>4 DEF EntitiesInv, NamesDiffer, RowsFit, RowFits
<1> QED
  BY <1>1, <1>5 DEF EntitiesInv

LEMMA FindKeeps == EntitiesInv /\ Find => EntitiesInv'
<1> SUFFICES ASSUME EntitiesInv, Find PROVE EntitiesInv'
  OBVIOUS
<1>1. UNCHANGED <<writer, reader, table, rows>> /\ table # <<>>
  BY DEF Find
<1>2. PICK protocol \in {"text", "binary"} :
         /\ got' = [i \in DOMAIN rows |-> Decoded(rows[i], protocol)]
         /\ call' = [call EXCEPT !.protocol = protocol]
  BY DEF Find
<1>3. call'.protocol = protocol /\ "protocol" \in DOMAIN call'
  BY <1>2 DEF EntitiesInv
<1>4. ASSUME NEW i \in DOMAIN rows PROVE Decoded(rows[i], call.protocol)' = Decoded(rows[i], protocol)
  BY <1>1, <1>3 DEF Decoded, DecodedInto, Reads, SharedAt, FieldOf, SetField, Type
<1>5. got' = [i \in DOMAIN rows' |-> Decoded(rows[i], call.protocol)']
  BY <1>1, <1>2, <1>4
<1> QED
  BY <1>1, <1>2, <1>3, <1>5, SameRows DEF EntitiesInv

LEMMA EntitiesInvNext == EntitiesInv /\ [Next]_vars => EntitiesInv'
<1>1. ASSUME EntitiesInv, UNCHANGED vars PROVE EntitiesInv'
  <2>1. UNCHANGED <<writer, reader, table, rows, call, got>>
    BY <1>1 DEF vars
  <2>2. ASSUME NEW i \in DOMAIN rows
        PROVE  Decoded(rows[i], call.protocol)' = Decoded(rows[i], call.protocol)
    BY <2>1 DEF Decoded, DecodedInto, Reads, SharedAt, FieldOf, SetField, Type
  <2>3. call.protocol # "none" => got' = [i \in DOMAIN rows' |-> Decoded(rows[i], call.protocol)']
    BY <1>1, <2>1, <2>2 DEF EntitiesInv
  <2> QED
    BY <1>1, <2>1, <2>3, SameRows DEF EntitiesInv
<1> QED
  BY <1>1, MigrateKeeps, InsertKeeps, FindKeeps DEF Next

LEMMA EntitiesInvAlways == Spec => []EntitiesInv
  BY EntitiesInvInit, EntitiesInvNext, PTL DEF Spec

\* What is found is what is decoded, and that is alike in both protocols.
LEMMA InvAgrees == EntitiesInv => ProtocolsAgree
<1> SUFFICES ASSUME EntitiesInv, call.protocol # "none", NEW i \in DOMAIN rows,
                    \A n \in SharedAt : LET of == FieldOf(table[n]).type.of
                                        IN  /\ ~Narrowing(rows[i][table[n].name], of)
                                            /\ ~Exponential(rows[i][table[n].name], of)
             PROVE  got[i] = Decoded(rows[i], IF call.protocol = "text" THEN "binary" ELSE "text")
  BY DEF ProtocolsAgree
<1>1. got[i] = Decoded(rows[i], call.protocol) /\ call.protocol \in {"text", "binary"}
  BY DEF EntitiesInv
<1>2. RowFits(rows[i])
  BY DEF EntitiesInv, RowsFit
<1>3. Decoded(rows[i], "text") = Decoded(rows[i], "binary")
  BY <1>2, RowAgrees
<1> QED
  BY <1>1, <1>3

\* A query with arguments and one without give the same records (Result.Decode
\* and the decoders of sql/codec): for any structs, any records that were
\* inserted by any calls, and any struct they are read into, unless a number
\* meets a decoder that Narrowing names, or a float that is printed with an
\* exponent an integer or a string.
THEOREM SameInBothProtocols == Spec => []ProtocolsAgree
  BY EntitiesInvAlways, InvAgrees, PTL

\* NoSilentChange of the decoders: a number or a moment that was stored is
\* read as what it says, by whatever decoder and protocol, or is an error.
NumberOrMoment(col) == col.sql \in Whole \union Real \union {"DATE", "DATETIME"}
ValuesKept ==
    \A i \in DOMAIN rows, n \in SharedAt, protocol \in {"text", "binary"} :
       LET s == rows[i][table[n].name]
           v == Reads(rows[i], protocol)[n]
       IN  s # Null /\ NumberOrMoment(table[n])
             => v = Refused \/ Keeps(s, FieldOf(table[n]).type.of, v, protocol)

\* Whatever is in the table and whatever struct it is read into, no decoder
\* makes another number or another moment of it, but those that Keeps names:
\* by the binary protocol the numbers of Narrowing, floats beyond 64 bits among
\* them; whole numbers that a float64 does not have; texts of numbers that are
\* base64 or a UUID; moments read as anything else.
THEOREM NoDecoderChanges == Spec => []ValuesKept
<1>1. EntitiesInv => ValuesKept
  <2> SUFFICES ASSUME EntitiesInv,
                      NEW i \in DOMAIN rows, NEW n \in SharedAt, NEW protocol \in {"text", "binary"},
                      rows[i][table[n].name] # Null, NumberOrMoment(table[n])
               PROVE  LET v == Reads(rows[i], protocol)[n]
                      IN  v = Refused \/ Keeps(rows[i][table[n].name], FieldOf(table[n]).type.of, v, protocol)
    BY DEF ValuesKept
  <2>1. Fit(table[n], rows[i][table[n].name])
    BY DEF EntitiesInv, RowsFit, RowFits, SharedAt
  <2>2. Reads(rows[i], protocol)[n]
          = Decode(FieldOf(table[n]).type, Given(table[n], rows[i][table[n].name], protocol))
    BY DEF Reads
  <2> QED
    BY <2>1, <2>2, DecodersKeep DEF NumberOrMoment
<1> QED
  BY <1>1, EntitiesInvAlways, PTL
=============================================================================
