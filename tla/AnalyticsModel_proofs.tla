------------------------- MODULE AnalyticsModel_proofs -------------------------
(***************************************************************************)
(* Proofs about AnalyticsModel, for any skills, blueprint, mocks and       *)
(* bounds.  What the recursive functions compute is shown by induction over*)
(* sets of numbers: the library's induction theorems take an operator, but *)
(* that < is well-founded and what follows from it is first-order.         *)
(***************************************************************************)
EXTENDS AnalyticsModel, FiniteSetTheorems, WellFoundedInduction, TLAPS

-----------------------------------------------------------------------------
(* Induction and recursion. *)

\* As a set of pairs, in which the library says that < is well-founded.
LEMMA LessThan == OpToRel(<, Nat) = {p \in Nat \X Nat : p[1] < p[2]}
BY DEF OpToRel

\* Every set of numbers that is not empty has a least one.
LEMMA LeastNat ==
    ASSUME NEW S \in SUBSET Nat, S # {}
    PROVE  \E m \in S : \A n \in S : m <= n
<1>1. PICK m \in S : \A n \in S : ~(<<n, m>> \in OpToRel(<, Nat))
  BY NatLessThanWellFounded, WFMin
<1>2. ASSUME NEW n \in S PROVE ~(n < m)
  BY <1>1, LessThan
<1> QED
  BY <1>2

\* Induction, for a set that has 0 and the successors of its members.
LEMMA SetInduction ==
    ASSUME NEW S, 0 \in S, \A n \in Nat : n \in S => n + 1 \in S
    PROVE  Nat \subseteq S
<1> SUFFICES ASSUME Nat \ S # {} PROVE FALSE
  OBVIOUS
<1>1. PICK m \in Nat \ S : \A n \in Nat \ S : m <= n
  BY LeastNat
<1>2. m - 1 \in Nat /\ m - 1 \in S
  BY <1>1
<1> QED
  BY <1>1, <1>2

\* The same, up to a number.
LEMMA UptoInduction ==
    ASSUME NEW k \in Nat, NEW S, 0 \in S, \A n \in 1..k : n - 1 \in S => n \in S
    PROVE  \A n \in 0..k : n \in S
<1> DEFINE T == {n \in Nat : n <= k => n \in S}
<1>1. 0 \in T
  OBVIOUS
<1>2. ASSUME NEW n \in Nat, n \in T PROVE n + 1 \in T
  <2> SUFFICES ASSUME n + 1 <= k PROVE n + 1 \in S
    OBVIOUS
  <2>1. n + 1 \in 1..k /\ (n + 1) - 1 = n /\ n \in S
    BY <1>2
  <2> QED
    BY <2>1
<1> HIDE DEF T
<1>3. Nat \subseteq T
  BY <1>1, <1>2, SetInduction
<1> QED
  BY <1>3 DEF T

\* f is given up to k by its first value and a step from each to the next.
Given(f, k, V, base, step) ==
  /\ f \in [0..k -> V] /\ f[0] = base
  /\ \A n \in 1..k : f[n] = step[<<n, f[n - 1]>>]

LEMMA GivenOnce ==
    ASSUME NEW V, NEW base, NEW step, NEW k \in Nat, NEW l \in Nat, k <= l,
           NEW g, Given(g, k, V, base, step), NEW h, Given(h, l, V, base, step)
    PROVE  \A n \in 0..k : g[n] = h[n]
<1> DEFINE S == {n \in 0..k : g[n] = h[n]}
<1>1. 0 \in S
  BY DEF Given
<1>2. ASSUME NEW n \in 1..k, n - 1 \in S PROVE n \in S
  <2>1. n \in 1..l /\ n \in 0..k /\ g[n - 1] = h[n - 1]
    BY <1>2
  <2>2. g[n] = step[<<n, g[n - 1]>>] /\ h[n] = step[<<n, h[n - 1]>>]
    BY <2>1 DEF Given
  <2> QED
    BY <2>1, <2>2
<1> HIDE DEF S
<1>3. \A n \in 0..k : n \in S
  BY <1>1, <1>2, UptoInduction
<1> QED
  BY <1>3 DEF S

LEMMA GivenUpto ==
    ASSUME NEW V, NEW base \in V, NEW step \in [Nat \X V -> V]
    PROVE  \A k \in Nat : \E f : Given(f, k, V, base, step)
<1> DEFINE S == {k \in Nat : \E f : Given(f, k, V, base, step)}
<1>1. 0 \in S
  <2>1. Given([n \in 0..0 |-> base], 0, V, base, step)
    BY DEF Given
  <2> QED
    BY <2>1
<1>2. ASSUME NEW k \in Nat, k \in S PROVE k + 1 \in S
  <2>1. PICK g : Given(g, k, V, base, step)
    BY <1>2
  <2> DEFINE next == step[<<k + 1, g[k]>>]
             h == [n \in 0..(k + 1) |-> IF n = k + 1 THEN next ELSE g[n]]
  <2>2. g[k] \in V
    BY <2>1 DEF Given
  <2>3. next \in V
    BY <2>2
  <2> HIDE DEF next
  <2>4. h \in [0..(k + 1) -> V]
    BY <2>1, <2>3 DEF Given
  <2>5. h[k + 1] = next /\ \A n \in 0..k : h[n] = g[n]
    OBVIOUS
  <2> HIDE DEF h
  <2>6. h[0] = base
    BY <2>1, <2>5 DEF Given
  <2>7. ASSUME NEW n \in 1..(k + 1) PROVE h[n] = step[<<n, h[n - 1]>>]
    <3>1. CASE n = k + 1
      BY <2>5, <3>1 DEF next
    <3>2. CASE n # k + 1
      <4>1. n \in 1..k /\ n \in 0..k /\ n - 1 \in 0..k
        BY <3>2
      <4> QED
        BY <2>1, <2>5, <4>1 DEF Given
    <3> QED
      BY <3>1, <3>2
  <2>8. Given(h, k + 1, V, base, step)
    BY <2>4, <2>6, <2>7 DEF Given
  <2> QED
    BY <2>8
<1> HIDE DEF S
<1>3. Nat \subseteq S
  BY <1>1, <1>2, SetInduction
<1> QED
  BY <1>3 DEF S

Recursive(f, V, base, step) ==
  /\ f \in [Nat -> V] /\ f[0] = base
  /\ \A n \in Nat \ {0} : f[n] = step[<<n, f[n - 1]>>]

\* There is a function that each of its values is a step from the one before.
LEMMA Recursion ==
    ASSUME NEW V, NEW base \in V, NEW step \in [Nat \X V -> V]
    PROVE  \E f : Recursive(f, V, base, step)
<1> DEFINE G(k) == CHOOSE f : Given(f, k, V, base, step)
           f == [n \in Nat |-> G(n)[n]]
<1>1. ASSUME NEW k \in Nat PROVE Given(G(k), k, V, base, step)
  BY GivenUpto, Zenon
<1>2. ASSUME NEW n \in Nat \ {0} PROVE f[n] = step[<<n, f[n - 1]>>]
  <2>1. G(n)[n - 1] = G(n - 1)[n - 1]
    <3>1. /\ n - 1 \in Nat /\ n - 1 <= n /\ n - 1 \in 0..(n - 1)
          /\ Given(G(n), n, V, base, step) /\ Given(G(n - 1), n - 1, V, base, step)
      BY <1>1
    <3> HIDE DEF G
    <3> QED
      BY <3>1, GivenOnce
  <2>2. n - 1 \in Nat /\ n \in 1..n /\ Given(G(n), n, V, base, step)
    BY <1>1
  <2> HIDE DEF G
  <2> QED
    BY <2>1, <2>2 DEF Given
<1>3. f \in [Nat -> V] /\ f[0] = base
  <2> HIDE DEF G
  <2>1. ASSUME NEW n \in Nat PROVE G(n)[n] \in V
    BY <1>1 DEF Given
  <2>2. G(0)[0] = base
    BY <1>1 DEF Given
  <2> QED
    BY <2>1, <2>2
<1> QED
  <2> HIDE DEF f
  <2>1. Recursive(f, V, base, step)
    BY <1>2, <1>3 DEF Recursive
  <2> QED
    BY <2>1

-----------------------------------------------------------------------------
(* Sums. *)

\* A sum is the last of the partial sums.
PartialSums(sum, n, seq) ==
  /\ sum \in [0..n -> Int] /\ sum[0] = 0
  /\ \A i \in 1..n : sum[i] = sum[i - 1] + seq[i]

LEMMA SumIs ==
    ASSUME NEW n \in Nat, NEW seq \in [1..n -> Int]
    PROVE  \E sum : PartialSums(sum, n, seq) /\ Sum(seq) = sum[n]
<1> DEFINE step == [p \in Nat \X Int |-> IF p[1] \in 1..n THEN p[2] + seq[p[1]] ELSE 0]
           sums(f) == [i \in 0..n |-> IF i = 0 THEN 0 ELSE f[i - 1] + seq[i]]
           f == CHOOSE g : g = sums(g)
<1>1. step \in [Nat \X Int -> Int]
  OBVIOUS
<1>2. \A i \in 1..n, x \in Int : step[<<i, x>>] = x + seq[i]
  OBVIOUS
<1> HIDE DEF step
<1>3. PICK g : Given(g, n, Int, 0, step)
  <2>1. 0 \in Int
    OBVIOUS
  <2>2. \A k \in Nat : \E g : Given(g, k, Int, 0, step)
    BY <1>1, <2>1, GivenUpto, Zenon
  <2> QED
    BY <2>2
<1>4. PartialSums(g, n, seq)
  <2>1. /\ g \in [0..n -> Int] /\ g[0] = 0
        /\ \A i \in 1..n : g[i] = step[<<i, g[i - 1]>>]
    BY <1>3 DEF Given
  <2>2. ASSUME NEW i \in 1..n PROVE g[i] = g[i - 1] + seq[i]
    <3>1. g[i - 1] \in Int
      BY <2>1
    <3> QED
      BY <1>2, <2>1, <3>1
  <2> QED
    BY <2>1, <2>2 DEF PartialSums
<1>5. g = sums(g)
  <2>1. g = [i \in 0..n |-> g[i]]
    BY <1>4 DEF PartialSums
  <2>2. \A i \in 0..n : g[i] = IF i = 0 THEN 0 ELSE g[i - 1] + seq[i]
    BY <1>4 DEF PartialSums
  <2> QED
    BY <2>1, <2>2, Zenon
<1>6. f = sums(f)
  <2> HIDE DEF sums
  <2> QED
    BY <1>5
<1>7. Len(seq) = n
  OBVIOUS
<1>8. Sum(seq) = f[n]
  BY <1>7 DEF Sum
<1> HIDE DEF f
<1>9. f[0] = 0 /\ \A i \in 1..n : f[i] = f[i - 1] + seq[i]
  BY <1>6
<1> DEFINE S == {i \in 0..n : f[i] = g[i]}
<1>10. 0 \in S
  BY <1>4, <1>9 DEF PartialSums
<1>11. ASSUME NEW i \in 1..n, i - 1 \in S PROVE i \in S
  BY <1>4, <1>9, <1>11 DEF PartialSums
<1> HIDE DEF S
<1>12. \A i \in 0..n : i \in S
  BY <1>10, <1>11, UptoInduction
<1>13. f[n] = g[n]
  BY <1>12 DEF S
<1> QED
  BY <1>4, <1>8, <1>13

\* A sum does not fall if no term does, and grows with a common factor.
LEMMA SumScaled ==
    ASSUME NEW n \in Nat, NEW seq \in [1..n -> Int], NEW other \in [1..n -> Int],
           NEW c \in Int, \A i \in 1..n : other[i] = c * seq[i]
    PROVE  Sum(other) = c * Sum(seq)
<1>1. PICK f : PartialSums(f, n, seq) /\ Sum(seq) = f[n]
  BY SumIs
<1>2. PICK g : PartialSums(g, n, other) /\ Sum(other) = g[n]
  BY SumIs
<1> DEFINE S == {i \in 0..n : g[i] = c * f[i]}
<1>3. 0 \in S
  BY <1>1, <1>2 DEF PartialSums
<1>4. ASSUME NEW i \in 1..n, i - 1 \in S PROVE i \in S
  <2>1. /\ g[i] = g[i - 1] + other[i] /\ f[i] = f[i - 1] + seq[i]
        /\ f[i - 1] \in Int /\ seq[i] \in Int /\ other[i] = c * seq[i]
    BY <1>1, <1>2 DEF PartialSums
  <2>2. \A x, y \in Int : c * (x + y) = c * x + c * y
    OBVIOUS
  <2> QED
    BY <1>4, <2>1, <2>2
<1> HIDE DEF S
<1>5. \A i \in 0..n : i \in S
  BY <1>3, <1>4, UptoInduction
<1> QED
  BY <1>1, <1>2, <1>5 DEF S

LEMMA SumMonotone ==
    ASSUME NEW n \in Nat, NEW seq \in [1..n -> Int], NEW other \in [1..n -> Int],
           \A i \in 1..n : seq[i] <= other[i]
    PROVE  Sum(seq) \in Int /\ Sum(other) \in Int /\ Sum(seq) <= Sum(other)
<1>1. PICK f : PartialSums(f, n, seq) /\ Sum(seq) = f[n]
  BY SumIs
<1>2. PICK g : PartialSums(g, n, other) /\ Sum(other) = g[n]
  BY SumIs
<1> DEFINE S == {i \in 0..n : f[i] <= g[i]}
<1>3. 0 \in S
  BY <1>1, <1>2 DEF PartialSums
<1>4. ASSUME NEW i \in 1..n, i - 1 \in S PROVE i \in S
  <2>1. /\ g[i] = g[i - 1] + other[i] /\ f[i] = f[i - 1] + seq[i]
        /\ f[i - 1] \in Int /\ g[i - 1] \in Int /\ seq[i] <= other[i]
    BY <1>1, <1>2 DEF PartialSums
  <2>2. f[i - 1] <= g[i - 1]
    BY <1>4
  <2> QED
    BY <2>1, <2>2
<1> HIDE DEF S
<1>5. \A i \in 0..n : i \in S
  BY <1>3, <1>4, UptoInduction
<1>6. n \in 0..n
  OBVIOUS
<1> QED
  BY <1>1, <1>2, <1>5, <1>6 DEF S, PartialSums

LEMMA SumNat ==
    ASSUME NEW n \in Nat, NEW seq \in [1..n -> Nat]
    PROVE  Sum(seq) \in Nat
<1> DEFINE none == [i \in 1..n |-> 0]
<1>1. none \in [1..n -> Int] /\ seq \in [1..n -> Int] /\ \A i \in 1..n : none[i] <= seq[i]
  OBVIOUS
<1>2. \A i \in 1..n : none[i] = 0 * seq[i]
  OBVIOUS
<1> HIDE DEF none
<1>3. Sum(none) = 0 * Sum(seq)
  <2>1. 0 \in Int
    OBVIOUS
  <2> QED
    BY <1>1, <1>2, <2>1, SumScaled, Zenon
<1>4. Sum(seq) \in Int /\ Sum(none) <= Sum(seq)
  BY <1>1, SumMonotone
<1> QED
  BY <1>3, <1>4

-----------------------------------------------------------------------------
(* Lists. *)

\* at names m members of a set of numbers, all of them, in order.
Enumerates(at, m, S) ==
  /\ m \in Nat /\ at \in [1..m -> S]
  /\ \A i, j \in 1..m : i < j => at[i] < at[j]
  /\ \A x \in S : \E i \in 1..m : at[i] = x

LEMMA EnumeratesNext ==
    ASSUME NEW n \in Nat, NEW S \in SUBSET (1..n), NEW at, NEW m, Enumerates(at, m, S)
    PROVE  Enumerates([i \in 1..(m + 1) |-> IF i = m + 1 THEN n + 1 ELSE at[i]],
                      m + 1, S \cup {n + 1})
<1> DEFINE next == [i \in 1..(m + 1) |-> IF i = m + 1 THEN n + 1 ELSE at[i]]
<1>1. /\ m \in Nat /\ m + 1 \in Nat /\ \A i \in 1..m : at[i] \in S
      /\ next[m + 1] = n + 1 /\ \A i \in 1..m : next[i] = at[i]
      /\ \A i \in 1..(m + 1) : i = m + 1 \/ i \in 1..m
  BY DEF Enumerates
<1>2. next \in [1..(m + 1) -> S \cup {n + 1}]
  BY <1>1
<1> HIDE DEF next
<1>3. ASSUME NEW i \in 1..(m + 1), NEW j \in 1..(m + 1), i < j PROVE next[i] < next[j]
  <2>0. i \in 1..m
    BY <1>1, <1>3
  <2>1. i \in 1..m /\ next[i] = at[i] /\ at[i] \in 1..n
    BY <1>1, <2>0
  <2>2. CASE j = m + 1
    BY <1>1, <2>1, <2>2
  <2>3. CASE j \in 1..m
    BY <1>1, <1>3, <2>1, <2>3 DEF Enumerates
  <2> QED
    BY <1>1, <2>2, <2>3
<1>4. ASSUME NEW x \in S \cup {n + 1} PROVE \E i \in 1..(m + 1) : next[i] = x
  <2>1. CASE x = n + 1
    BY <1>1, <2>1
  <2>2. CASE x \in S
    <3>1. PICK i \in 1..m : at[i] = x
      BY <2>2 DEF Enumerates
    <3> QED
      BY <1>1, <3>1
  <2> QED
    BY <2>1, <2>2
<1>5. Enumerates(next, m + 1, S \cup {n + 1})
  BY <1>1, <1>2, <1>3, <1>4 DEF Enumerates
<1> QED
  BY <1>5 DEF next

LEMMA EnumeratesNone == Enumerates(<<>>, 0, {})
BY DEF Enumerates

\* The members of a sequence that are at m places.
Picked(seq, at, m) == [k \in 1..m |-> seq[at[k]]]

\* What is kept is what is at the places, in their order.
LEMMA KeepIs ==
    ASSUME NEW T, NEW seq \in Seq(T), NEW places
    PROVE  \E m, at : /\ Enumerates(at, m, places \cap (1..Len(seq)))
                      /\ Keep(seq, places) = Picked(seq, at, m)
<1> DEFINE n == Len(seq)
           step == [p \in Nat \X Seq(T) |->
                      IF p[1] \in 1..n /\ p[1] \in places THEN Append(p[2], seq[p[1]])
                      ELSE p[2]]
           kepts(f) == [i \in 0..n |->
                          IF i = 0 THEN <<>>
                          ELSE IF i \in places THEN Append(f[i - 1], seq[i]) ELSE f[i - 1]]
           f == CHOOSE g : g = kepts(g)
<1>0. n \in Nat /\ \A i \in 1..n : seq[i] \in T
  OBVIOUS
<1>1. Keep(seq, places) = f[n]
  BY DEF Keep
<1> HIDE DEF n
<1>2. step \in [Nat \X Seq(T) -> Seq(T)] /\ <<>> \in Seq(T)
  BY <1>0
<1>3. \A i \in 1..n, s \in Seq(T) :
        step[<<i, s>>] = IF i \in places THEN Append(s, seq[i]) ELSE s
  OBVIOUS
<1> HIDE DEF step
<1>4. \E g : g = kepts(g)
  <2>1. PICK g : Given(g, n, Seq(T), <<>>, step)
    BY <1>0, <1>2, GivenUpto
  <2>2. /\ g \in [0..n -> Seq(T)] /\ g[0] = <<>>
        /\ \A i \in 1..n : g[i] = step[<<i, g[i - 1]>>]
    BY <2>1 DEF Given
  <2>3. ASSUME NEW i \in 1..n
        PROVE  g[i] = IF i \in places THEN Append(g[i - 1], seq[i]) ELSE g[i - 1]
    <3>1. g[i - 1] \in Seq(T)
      BY <1>0, <2>2
    <3> QED
      BY <1>3, <2>2, <3>1
  <2>4. g = [i \in 0..n |-> g[i]]
    BY <2>2
  <2>5. \A i \in 0..n :
          g[i] = IF i = 0 THEN <<>>
                 ELSE IF i \in places THEN Append(g[i - 1], seq[i]) ELSE g[i - 1]
    <3>1. \A i \in 0..n : i = 0 \/ i \in 1..n
      BY <1>0
    <3>2. \A i \in 1..n : i # 0
      BY <1>0
    <3> QED
      BY <2>2, <2>3, <3>1, <3>2, Zenon
  <2>6. g = kepts(g)
    BY <2>4, <2>5, Zenon
  <2> QED
    BY <2>6
<1>5. f = kepts(f)
  <2> HIDE DEF kepts
  <2> QED
    BY <1>4
<1> HIDE DEF f
<1>6. f[0] = <<>>
  BY <1>0, <1>5
<1>7. ASSUME NEW i \in 1..n
      PROVE  f[i] = IF i \in places THEN Append(f[i - 1], seq[i]) ELSE f[i - 1]
  <2>1. i \in 0..n /\ i # 0
    BY <1>0
  <2> QED
    BY <1>5, <2>1, Zenon
<1> DEFINE Held(i) == \E m, at : /\ Enumerates(at, m, places \cap (1..i))
                                 /\ f[i] = [k \in 1..m |-> seq[at[k]]]
           S == {i \in 0..n : Held(i)}
<1>8. 0 \in S
  <2>1. places \cap (1..0) = {}
    OBVIOUS
  <2>2. f[0] = [k \in 1..0 |-> seq[<<>>[k]]]
    BY <1>6
  <2>3. Held(0)
    BY <2>1, <2>2, EnumeratesNone
  <2>4. 0 \in 0..n
    BY <1>0
  <2> HIDE DEF Held
  <2> QED
    BY <2>3, <2>4
<1>9. ASSUME NEW i \in 1..n, i - 1 \in S PROVE i \in S
  <2>1. PICK m, at : /\ Enumerates(at, m, places \cap (1..(i - 1)))
                     /\ f[i - 1] = [k \in 1..m |-> seq[at[k]]]
    BY <1>9
  <2>2. i - 1 \in Nat /\ (i - 1) + 1 = i /\ m \in Nat /\ i \in 0..n
    BY <1>0, <2>1 DEF Enumerates
  <2>3. CASE i \notin places
    <3>1. places \cap (1..i) = places \cap (1..(i - 1))
      BY <2>3
    <3>2. f[i] = f[i - 1]
      BY <1>7, <2>3
    <3>3. /\ Enumerates(at, m, places \cap (1..i))
          /\ f[i] = [k \in 1..m |-> seq[at[k]]]
      BY <2>1, <3>1, <3>2, Zenon
    <3>4. Held(i)
      BY <3>3
    <3> HIDE DEF Held
    <3> QED
      BY <2>2, <3>4
  <2>4. CASE i \in places
    <3> DEFINE next == [k \in 1..(m + 1) |-> IF k = m + 1 THEN (i - 1) + 1 ELSE at[k]]
    <3>1. places \cap (1..i) = (places \cap (1..(i - 1))) \cup {(i - 1) + 1}
      BY <2>2, <2>4
    <3>2. Enumerates(next, m + 1, places \cap (1..i))
      <4>1. places \cap (1..(i - 1)) \in SUBSET (1..(i - 1))
        OBVIOUS
      <4>2. Enumerates(next, m + 1, (places \cap (1..(i - 1))) \cup {(i - 1) + 1})
        BY <2>1, <2>2, <4>1, EnumeratesNext
      <4> QED
        BY <3>1, <4>2
    <3>3. f[i - 1] \in Seq(T) /\ Len(f[i - 1]) = m
      <4>1. \A k \in 1..m : at[k] \in 1..n
        <5>1. at \in [1..m -> places \cap (1..(i - 1))]
          BY <2>1 DEF Enumerates
        <5>2. 1..(i - 1) \subseteq 1..n
          BY <1>0
        <5> QED
          BY <5>1, <5>2
      <4>2. [k \in 1..m |-> seq[at[k]]] \in [1..m -> T]
        BY <1>0, <4>1
      <4> QED
        BY <2>1, <2>2, <4>2
    <3>4. f[i] = Append(f[i - 1], seq[i])
      BY <1>7, <2>4
    <3>5. f[i] = [k \in 1..(m + 1) |-> IF k = m + 1 THEN seq[i] ELSE f[i - 1][k]]
      BY <1>0, <3>3, <3>4
    <3>6. \A k \in 1..(m + 1) :
            (IF k = m + 1 THEN seq[i] ELSE f[i - 1][k]) = seq[next[k]]
      BY <2>1, <2>2
    <3> HIDE DEF next
    <3>7. f[i] = [k \in 1..(m + 1) |-> seq[next[k]]]
      BY <3>5, <3>6
    <3>8. Held(i)
      BY <3>2, <3>7
    <3> HIDE DEF Held
    <3> QED
      BY <2>2, <3>8
  <2> QED
    BY <2>3, <2>4
<1> HIDE DEF S
<1>10. \A i \in 0..n : i \in S
  BY <1>0, <1>8, <1>9, UptoInduction
<1>11. Held(n)
  <2>1. n \in 0..n
    BY <1>0
  <2> HIDE DEF Held
  <2> QED
    BY <1>10, <2>1 DEF S
<1>12. PICK m, at : /\ Enumerates(at, m, places \cap (1..n))
                    /\ f[n] = [k \in 1..m |-> seq[at[k]]]
  BY <1>11
<1>13. Keep(seq, places) = Picked(seq, at, m)
  BY <1>1, <1>12 DEF Picked
<1> QED
  BY <1>12, <1>13 DEF n

Members(seq) == {seq[i] : i \in DOMAIN seq}

LEMMA KeepMembers ==
    ASSUME NEW T, NEW seq \in Seq(T), NEW places
    PROVE  /\ Keep(seq, places) \in Seq(T)
           /\ Members(Keep(seq, places)) = {seq[i] : i \in places \cap (1..Len(seq))}
<1>1. PICK m, at : /\ Enumerates(at, m, places \cap (1..Len(seq)))
                   /\ Keep(seq, places) = Picked(seq, at, m)
  BY KeepIs
<1> DEFINE kept == Keep(seq, places)
           P == places \cap (1..Len(seq))
<1>2. /\ m \in Nat /\ at \in [1..m -> P] /\ \A x \in P : \E i \in 1..m : at[i] = x
      /\ kept = [k \in 1..m |-> seq[at[k]]]
  BY <1>1 DEF Enumerates, Picked
<1> HIDE DEF kept
<1>3. \A k \in 1..m : at[k] \in P /\ at[k] \in 1..Len(seq) /\ seq[at[k]] \in T
  BY <1>2
<1>4. kept \in Seq(T) /\ DOMAIN kept = 1..m
  BY <1>2, <1>3
<1> HIDE DEF P
<1>5. Members(kept) = {seq[i] : i \in P}
  <2>1. ASSUME NEW x \in Members(kept) PROVE x \in {seq[i] : i \in P}
    <3>1. PICK k \in 1..m : x = kept[k]
      BY <1>4 DEF Members
    <3> QED
      BY <1>2, <1>3, <3>1
  <2>2. ASSUME NEW i \in P PROVE seq[i] \in Members(kept)
    <3>1. PICK k \in 1..m : at[k] = i
      BY <1>2
    <3>2. kept[k] = seq[i]
      BY <1>2, <3>1
    <3> QED
      BY <1>4, <3>2 DEF Members
  <2> QED
    BY <2>1, <2>2
<1> QED
  BY <1>4, <1>5 DEF kept, P

\* Each member of the list is kept once, where it first is.
FirstPlaces(at, m, seq) ==
  /\ m \in Nat /\ at \in [1..m -> 1..Len(seq)]
  /\ \A i, j \in 1..m : i < j => at[i] < at[j]
  /\ \A i, j \in 1..m : i # j => seq[at[i]] # seq[at[j]]
  /\ \A i \in 1..Len(seq) : \E k \in 1..m : seq[at[k]] = seq[i] /\ at[k] <= i

LEMMA DistinctIs ==
    ASSUME NEW T, NEW seq \in Seq(T)
    PROVE  \E m, at : /\ FirstPlaces(at, m, seq)
                      /\ Distinct(seq) = Picked(seq, at, m)
<1> DEFINE news == {i \in DOMAIN seq : \A j \in 1..(i - 1) : seq[j] # seq[i]}
<1>1. PICK m, at : /\ Enumerates(at, m, news \cap (1..Len(seq)))
                   /\ Keep(seq, news) = Picked(seq, at, m)
  <2> HIDE DEF news
  <2> QED
    BY KeepIs
<1>2. DOMAIN seq = 1..Len(seq) /\ Len(seq) \in Nat
  OBVIOUS
<1>3. news \cap (1..Len(seq)) = news
  BY <1>2
<1>4. /\ m \in Nat /\ at \in [1..m -> news]
      /\ \A i, j \in 1..m : i < j => at[i] < at[j]
      /\ \A x \in news : \E i \in 1..m : at[i] = x
  BY <1>1, <1>3 DEF Enumerates
<1>5. \A k \in 1..m : /\ at[k] \in 1..Len(seq)
                      /\ \A j \in 1..(at[k] - 1) : seq[j] # seq[at[k]]
  BY <1>2, <1>4
<1>6. ASSUME NEW i \in 1..m, NEW j \in 1..m, i < j PROVE seq[at[i]] # seq[at[j]]
  <2>1. at[i] < at[j] /\ at[i] \in 1..Len(seq) /\ at[j] \in 1..Len(seq)
    BY <1>4, <1>5, <1>6
  <2>2. at[i] \in 1..(at[j] - 1)
    BY <1>2, <2>1
  <2> QED
    BY <1>5, <2>2
<1>7. ASSUME NEW i \in 1..m, NEW j \in 1..m, i # j PROVE seq[at[i]] # seq[at[j]]
  <2>1. CASE i < j
    BY <1>6, <2>1
  <2>2. CASE j < i
    BY <1>6, <2>2
  <2> QED
    BY <1>7, <2>1, <2>2
<1>8. ASSUME NEW i \in 1..Len(seq)
      PROVE  \E k \in 1..m : seq[at[k]] = seq[i] /\ at[k] <= i
  <2> DEFINE same == {j \in 1..Len(seq) : seq[j] = seq[i]}
  <2>1. i \in same /\ same \in SUBSET Nat
    OBVIOUS
  <2>2. PICK j \in same : \A l \in same : j <= l
    BY <2>1, LeastNat
  <2>3. j \in news
    <3>1. ASSUME NEW l \in 1..(j - 1) PROVE seq[l] # seq[j]
      <4>1. l \in 1..Len(seq) /\ ~(j <= l)
        BY <1>2
      <4> QED
        BY <2>2, <4>1
    <3> QED
      BY <1>2, <3>1
  <2>4. PICK k \in 1..m : at[k] = j
    BY <1>4, <2>3
  <2> QED
    BY <2>1, <2>2, <2>4
<1>9. at \in [1..m -> 1..Len(seq)]
  BY <1>4, <1>5
<1>10. FirstPlaces(at, m, seq)
  BY <1>4, <1>7, <1>8, <1>9 DEF FirstPlaces
<1>11. Distinct(seq) = Keep(seq, news)
  BY DEF Distinct
<1> HIDE DEF news
<1> QED
  BY <1>1, <1>10, <1>11

LEMMA FirstIs ==
    ASSUME NEW T, NEW seq \in Seq(T), NEW n \in Nat
    PROVE  /\ First(n, seq) \in Seq(T) /\ Len(First(n, seq)) = Least(n, Len(seq))
           /\ Least(n, Len(seq)) \in Nat /\ Least(n, Len(seq)) <= Len(seq)
           /\ Least(n, Len(seq)) <= n
           /\ \A i \in 1..Least(n, Len(seq)) : First(n, seq)[i] = seq[i]
<1>1. Least(n, Len(seq)) \in 0..Len(seq) /\ Least(n, Len(seq)) <= n
  BY DEF Least
<1> QED
  BY <1>1 DEF First

-----------------------------------------------------------------------------
(* Sorting: nothing is lost and nothing is made up. *)

LEMMA InsertIs ==
    ASSUME NEW E, NEW seq \in Seq(E), NEW e \in E
    PROVE  /\ Insert(seq, e) \in Seq(E) /\ Len(Insert(seq, e)) = Len(seq) + 1
           /\ Members(Insert(seq, e)) = Members(seq) \cup {e}
<1> DEFINE places == {i \in DOMAIN seq : ~Before(e, seq[i])}
           place == Cardinality(places)
           front == SubSeq(seq, 1, place)
           back == SubSeq(seq, place + 1, Len(seq))
<1>1. Insert(seq, e) = front \o <<e>> \o back
  BY DEF Insert
<1>2. place \in 0..Len(seq)
  <2>1. /\ places \in SUBSET (1..Len(seq)) /\ IsFiniteSet(1..Len(seq))
        /\ Cardinality(1..Len(seq)) = Len(seq)
    <3>1. Len(seq) \in Nat /\ 1 \in Int /\ Len(seq) \in Int
      OBVIOUS
    <3>2. /\ IsFiniteSet(1..Len(seq))
          /\ Cardinality(1..Len(seq)) = IF 1 > Len(seq) THEN 0 ELSE Len(seq) - 1 + 1
      BY <3>1, FS_Interval
    <3> QED
      BY <3>1, <3>2
  <2>2. IsFiniteSet(places) /\ Cardinality(places) <= Cardinality(1..Len(seq))
    BY <2>1, FS_Subset
  <2>3. Cardinality(places) \in Nat
    BY <2>2, FS_CardinalityType
  <2> QED
    BY <2>1, <2>2, <2>3
<1> HIDE DEF place
<1>3. /\ front \in Seq(E) /\ Len(front) = place /\ \A i \in 1..place : front[i] = seq[i]
      /\ back \in Seq(E) /\ Len(back) = Len(seq) - place
      /\ \A i \in 1..(Len(seq) - place) : back[i] = seq[place + i]
  BY <1>2
<1> HIDE DEF front, back
<1> DEFINE new == front \o <<e>> \o back
<1>4. new \in Seq(E) /\ Len(new) = Len(seq) + 1
  BY <1>2, <1>3
<1>5. /\ \A i \in 1..place : new[i] = seq[i]
      /\ new[place + 1] = e
      /\ \A i \in (place + 1)..Len(seq) : new[i + 1] = seq[i]
  <2>1. \A i \in 1..place : new[i] = front[i]
    BY <1>2, <1>3
  <2>2. new[place + 1] = e
    BY <1>2, <1>3
  <2>3. ASSUME NEW i \in (place + 1)..Len(seq) PROVE new[i + 1] = seq[i]
    <3>1. i - place \in 1..(Len(seq) - place) /\ place + (i - place) = i
      BY <1>2
    <3>2. /\ front \o <<e>> \in Seq(E) /\ Len(front \o <<e>>) = place + 1
          /\ place + 1 < i + 1 /\ i + 1 \in 1..(Len(seq) + 1)
      <4>1. front \o <<e>> \in Seq(E) /\ Len(front \o <<e>>) = place + 1
        <5>1. front \in Seq(E) /\ <<e>> \in Seq(E) /\ Len(<<e>>) = 1 /\ Len(front) = place
          BY <1>3
        <5> QED
          BY <5>1
      <4>2. place + 1 < i + 1 /\ i + 1 \in 1..(Len(seq) + 1)
        BY <1>2
      <4> QED
        BY <4>1, <4>2
    <3>3. new[i + 1] = back[(i + 1) - (place + 1)]
      BY <1>2, <1>3, <3>2
    <3>4. (i + 1) - (place + 1) = i - place
      BY <1>2
    <3> QED
      BY <1>3, <3>1, <3>3, <3>4
  <2> QED
    BY <1>3, <2>1, <2>2, <2>3
<1> HIDE DEF new
<1>6. ASSUME NEW i \in 1..(Len(seq) + 1)
      PROVE  new[i] = e \/ \E j \in 1..Len(seq) : new[i] = seq[j]
  <2>1. CASE i \in 1..place
    BY <1>2, <1>5, <2>1
  <2>2. CASE i = place + 1
    BY <1>5, <2>2
  <2>3. CASE i - 1 \in (place + 1)..Len(seq)
    <3>1. (i - 1) + 1 = i /\ i - 1 \in 1..Len(seq)
      BY <1>2, <2>3
    <3> QED
      BY <1>5, <2>3, <3>1
  <2> QED
    BY <1>2, <2>1, <2>2, <2>3
<1>7. ASSUME NEW j \in 1..Len(seq)
      PROVE  \E i \in 1..(Len(seq) + 1) : new[i] = seq[j]
  <2>1. CASE j \in 1..place
    BY <1>2, <1>5, <2>1
  <2>2. CASE j \in (place + 1)..Len(seq)
    <3>1. j + 1 \in 1..(Len(seq) + 1)
      BY <1>2
    <3> QED
      BY <1>5, <2>2, <3>1
  <2> QED
    BY <1>2, <2>1, <2>2
<1>8. place + 1 \in 1..(Len(seq) + 1)
  BY <1>2
<1>9. DOMAIN new = 1..(Len(seq) + 1) /\ DOMAIN seq = 1..Len(seq)
  BY <1>4
<1>10. Members(new) = Members(seq) \cup {e}
  <2>1. Members(new) \subseteq Members(seq) \cup {e}
    BY <1>6, <1>9 DEF Members
  <2>2. Members(seq) \subseteq Members(new)
    BY <1>7, <1>9 DEF Members
  <2>3. e \in Members(new)
    BY <1>5, <1>8, <1>9 DEF Members
  <2> QED
    BY <2>1, <2>2, <2>3
<1> QED
  BY <1>1, <1>4, <1>10 DEF new

Items(list, n) == [i \in 1..n |-> list[i].item]

LEMMA SortedIs ==
    ASSUME NEW n \in Nat, NEW E, NEW entries \in [1..n -> E]
    PROVE  \E list \in [1..n -> E] :
             /\ Members(list) = Members(entries)
             /\ Sorted(entries) = Items(list, n)
<1> DEFINE step == [p \in Nat \X Seq(E) |->
                      IF p[1] \in 1..n THEN Insert(p[2], entries[p[1]]) ELSE p[2]]
           lists(f) == [i \in 0..n |-> IF i = 0 THEN <<>> ELSE Insert(f[i - 1], entries[i])]
           f == CHOOSE g : g = lists(g)
<1>1. Len(entries) = n /\ DOMAIN entries = 1..n
  OBVIOUS
<1>2. Sorted(entries) = [i \in 1..n |-> f[n][i].item]
  BY <1>1 DEF Sorted
<1>3. step \in [Nat \X Seq(E) -> Seq(E)] /\ <<>> \in Seq(E)
  <2>1. ASSUME NEW p \in Nat \X Seq(E), p[1] \in 1..n
        PROVE  Insert(p[2], entries[p[1]]) \in Seq(E)
    <3>1. p[2] \in Seq(E) /\ entries[p[1]] \in E
      BY <2>1
    <3> QED
      BY <3>1, InsertIs
  <2> QED
    BY <2>1
<1>4. \A i \in 1..n, s \in Seq(E) : step[<<i, s>>] = Insert(s, entries[i])
  OBVIOUS
<1> HIDE DEF step
<1>5. \E g : g = lists(g)
  <2>1. PICK g : Given(g, n, Seq(E), <<>>, step)
    BY <1>3, GivenUpto
  <2>2. /\ g \in [0..n -> Seq(E)] /\ g[0] = <<>>
        /\ \A i \in 1..n : g[i] = step[<<i, g[i - 1]>>]
    BY <2>1 DEF Given
  <2>3. ASSUME NEW i \in 1..n PROVE g[i] = Insert(g[i - 1], entries[i])
    <3>1. g[i - 1] \in Seq(E)
      BY <2>2
    <3> QED
      BY <1>4, <2>2, <3>1
  <2>4. g = [i \in 0..n |-> g[i]]
    BY <2>2
  <2>5. \A i \in 0..n : g[i] = IF i = 0 THEN <<>> ELSE Insert(g[i - 1], entries[i])
    <3>1. /\ \A i \in 0..n : i = 0 \/ i \in 1..n
          /\ \A i \in 1..n : i # 0
      OBVIOUS
    <3> QED
      BY <2>2, <2>3, <3>1, Zenon
  <2>6. g = lists(g)
    BY <2>4, <2>5, Zenon
  <2> QED
    BY <2>6
<1>6. f = lists(f)
  <2> HIDE DEF lists
  <2> QED
    BY <1>5
<1> HIDE DEF f
<1>7. f[0] = <<>> /\ \A i \in 1..n : f[i] = Insert(f[i - 1], entries[i])
  <2>1. 0 \in 0..n /\ \A i \in 1..n : i \in 0..n /\ i # 0
    OBVIOUS
  <2> QED
    BY <1>6, <2>1, Zenon
<1> DEFINE Upto(i) == {entries[j] : j \in 1..i}
           S == {i \in 0..n : /\ f[i] \in Seq(E) /\ Len(f[i]) = i
                              /\ Members(f[i]) = Upto(i)}
<1>8. 0 \in S
  <2>1. Members(<<>>) = {} /\ Upto(0) = {} /\ Len(<<>>) = 0 /\ <<>> \in Seq(E)
    BY DEF Members
  <2>2. 0 \in 0..n
    OBVIOUS
  <2> HIDE DEF Upto
  <2> QED
    BY <1>7, <2>1, <2>2
<1>9. ASSUME NEW i \in 1..n, i - 1 \in S PROVE i \in S
  <2>1. /\ f[i - 1] \in Seq(E) /\ Len(f[i - 1]) = i - 1 /\ Members(f[i - 1]) = Upto(i - 1)
        /\ entries[i] \in E /\ f[i] = Insert(f[i - 1], entries[i])
    BY <1>7, <1>9
  <2> HIDE DEF Upto
  <2>2. /\ f[i] \in Seq(E) /\ Len(f[i]) = (i - 1) + 1
        /\ Members(f[i]) = Upto(i - 1) \cup {entries[i]}
    <3> DEFINE e == entries[i]
               old == f[i - 1]
    <3>1. e \in E /\ old \in Seq(E)
      BY <2>1
    <3> HIDE DEF e, old
    <3>2. /\ Insert(old, e) \in Seq(E) /\ Len(Insert(old, e)) = Len(old) + 1
          /\ Members(Insert(old, e)) = Members(old) \cup {e}
      BY <3>1, InsertIs
    <3> QED
      BY <2>1, <3>2 DEF e, old
  <2>3. Upto(i) = Upto(i - 1) \cup {entries[i]}
    <3>1. 1..i = 1..(i - 1) \cup {i}
      OBVIOUS
    <3> QED
      BY <3>1 DEF Upto
  <2>4. i \in 0..n /\ (i - 1) + 1 = i
    OBVIOUS
  <2> QED
    BY <2>2, <2>3, <2>4
<1> HIDE DEF S
<1>10. \A i \in 0..n : i \in S
  BY <1>8, <1>9, UptoInduction
<1>11. f[n] \in Seq(E) /\ Len(f[n]) = n /\ Members(f[n]) = Upto(n)
  <2>1. n \in 0..n
    OBVIOUS
  <2> QED
    BY <1>10, <2>1 DEF S
<1>12. f[n] \in [1..n -> E]
  BY <1>11
<1>13. Upto(n) = Members(entries)
  BY <1>1 DEF Members
<1>14. Sorted(entries) = Items(f[n], n)
  BY <1>2 DEF Items
<1> QED
  BY <1>11, <1>12, <1>13, <1>14

-----------------------------------------------------------------------------
(* Products, quotients and averages. *)

LEMMA TimesMonotone ==
    ASSUME NEW a \in Int, NEW b \in Int, a <= b, NEW c \in Nat
    PROVE  a * c <= b * c /\ c * a <= c * b
BY Z3

LEMMA TimesNat ==
    ASSUME NEW a \in Nat, NEW b \in Nat
    PROVE  a * b \in Nat
BY Z3

LEMMA Quotient ==
    ASSUME NEW a \in Int, NEW b \in Nat \ {0}
    PROVE  /\ a \div b \in Int /\ a % b \in 0..(b - 1)
           /\ a = b * (a \div b) + (a % b)
BY Z3

LEMMA QuotientUnique ==
    ASSUME NEW b \in Nat \ {0}, NEW q \in Int, NEW r \in 0..(b - 1),
           NEW p \in Int, NEW s \in 0..(b - 1), b * q + r <= b * p + s
    PROVE  q <= p
<1> SUFFICES ASSUME p + 1 <= q PROVE FALSE
  OBVIOUS
<1>1. b * (p + 1) <= b * q
  BY TimesMonotone
<1>2. b * (p + 1) = b * p + b /\ b * p \in Int /\ b * q \in Int
  BY Z3
<1> QED
  BY <1>1, <1>2

LEMMA QuotientMonotone ==
    ASSUME NEW a \in Int, NEW b \in Int, a <= b, NEW c \in Nat \ {0}
    PROVE  a \div c <= b \div c
<1>1. /\ a \div c \in Int /\ a % c \in 0..(c - 1) /\ a = c * (a \div c) + (a % c)
      /\ b \div c \in Int /\ b % c \in 0..(c - 1) /\ b = c * (b \div c) + (b % c)
  BY Quotient
<1>2. c * (a \div c) + (a % c) <= c * (b \div c) + (b % c)
  BY <1>1
<1> DEFINE q == a \div c
           p == b \div c
           r == a % c
           s == b % c
<1> HIDE DEF q, p, r, s
<1>3. q \in Int /\ p \in Int /\ r \in 0..(c - 1) /\ s \in 0..(c - 1) /\ c * q + r <= c * p + s
  BY <1>1, <1>2 DEF q, p, r, s
<1>4. q <= p
  BY <1>3, QuotientUnique
<1> QED
  BY <1>4 DEF q, p

LEMMA QuotientNat ==
    ASSUME NEW a \in Nat, NEW c \in Nat \ {0}
    PROVE  a \div c \in Nat
<1>1. a \div c \in Int
  BY Quotient
<1>2. 0 \div c <= a \div c
  BY QuotientMonotone
<1>3. 0 \div c = 0
  BY Z3
<1> QED
  BY <1>1, <1>2, <1>3

\* The highest value of a quotient.
LEMMA QuotientBound ==
    ASSUME NEW a \in Int, NEW c \in Nat \ {0}, NEW k \in Int, a <= c * k
    PROVE  a \div c <= k
<1> DEFINE q == a \div c
           r == a % c
<1>1. q \in Int /\ r \in 0..(c - 1) /\ a = c * q + r
  BY Quotient
<1> HIDE DEF q, r
<1>2. 0 \in 0..(c - 1) /\ c * q + r <= c * k + 0
  <2>1. c * k \in Int
    BY Z3
  <2> QED
    BY <1>1, <2>1
<1>3. q <= k
  BY <1>1, <1>2, QuotientUnique
<1> QED
  BY <1>3 DEF q

\* Halving both leaves a quotient as it is.
LEMMA QuotientHalved ==
    ASSUME NEW a \in Int, NEW c \in Nat \ {0}
    PROVE  (2 * a) \div (2 * c) = a \div c
<1> DEFINE q == a \div c
           r == a % c
           p == (2 * a) \div (2 * c)
           s == (2 * a) % (2 * c)
<1>1. q \in Int /\ r \in 0..(c - 1) /\ a = c * q + r
  BY Quotient
<1>2. p \in Int /\ s \in 0..(2 * c - 1) /\ 2 * a = (2 * c) * p + s
  <2> DEFINE x == 2 * a
             d == 2 * c
  <2>1. x \in Int /\ d \in Nat \ {0}
    OBVIOUS
  <2> HIDE DEF x, d
  <2>2. x \div d \in Int /\ x % d \in 0..(d - 1) /\ x = d * (x \div d) + (x % d)
    BY <2>1, Quotient
  <2> QED
    BY <2>2, Zenon DEF x, d
<1> HIDE DEF q, r, p, s
<1>3. /\ 2 * c \in Nat \ {0} /\ 2 * r \in 0..(2 * c - 1)
      /\ (2 * c) * q + 2 * r = 2 * a
  <2>1. (2 * c) * q = 2 * (c * q) /\ c * q \in Int
    BY <1>1, Z3
  <2> QED
    BY <1>1, <2>1
<1>4. (2 * c) * q + 2 * r <= (2 * c) * p + s /\ (2 * c) * p + s <= (2 * c) * q + 2 * r
  BY <1>2, <1>3
<1> DEFINE d == 2 * c
           t == 2 * r
<1>5. d \in Nat \ {0} /\ t \in 0..(d - 1) /\ s \in 0..(d - 1) /\ d * q + t <= d * p + s
      /\ d * p + s <= d * q + t
  BY <1>2, <1>3, <1>4
<1> HIDE DEF d, t
<1>6. q <= p
  BY <1>1, <1>2, <1>5, QuotientUnique
<1>7. p <= q
  BY <1>1, <1>2, <1>5, QuotientUnique
<1>8. p = q
  BY <1>1, <1>2, <1>6, <1>7
<1> QED
  BY <1>8 DEF p, q

\* An average of values up to a limit is up to that limit, in hundredths of it.
LEMMA AverageIs ==
    ASSUME NEW n \in Nat, NEW values \in [1..n -> Nat], NEW weights \in [1..n -> Nat],
           NEW limit \in Nat, \A i \in 1..n : values[i] <= limit
    PROVE  /\ WeightedAverage(values, weights) \in Nat
           /\ WeightedAverage(values, weights) <= 100 * limit
<1> DEFINE terms == [i \in 1..n |-> values[i] * weights[i]]
           most == [i \in 1..n |-> limit * weights[i]]
           total == Sum(weights)
           sum == Sum(terms)
<1>1. terms \in [1..n -> Nat] /\ most \in [1..n -> Nat]
  BY TimesNat
<1>2. weights \in [1..n -> Int] /\ terms \in [1..n -> Int] /\ most \in [1..n -> Int]
  BY <1>1
<1>3. \A i \in 1..n : terms[i] <= most[i] /\ most[i] = limit * weights[i]
  <2>1. ASSUME NEW i \in 1..n PROVE values[i] * weights[i] <= limit * weights[i]
    <3>1. values[i] \in Int /\ limit \in Int /\ weights[i] \in Nat /\ values[i] <= limit
      OBVIOUS
    <3> QED
      BY <3>1, TimesMonotone
  <2> QED
    BY <2>1
<1>4. DOMAIN values = 1..n
  OBVIOUS
<1>5. WeightedAverage(values, weights) = IF total = 0 THEN 0 ELSE (sum * 100) \div total
  BY <1>4 DEF WeightedAverage
<1> HIDE DEF terms, most
<1>6. Sum(terms) <= Sum(most) /\ Sum(most) = limit * Sum(weights)
  <2>1. Sum(terms) <= Sum(most)
    BY <1>2, <1>3, SumMonotone
  <2>2. limit \in Int
    OBVIOUS
  <2> QED
    BY <1>2, <1>3, <2>1, <2>2, SumScaled
<1>7. total \in Nat /\ sum \in Nat /\ sum <= limit * total
  BY <1>1, <1>6, SumNat
<1> HIDE DEF total, sum
<1>8. CASE total = 0
  BY <1>5, <1>8
<1>9. CASE total # 0
  <2>1. sum * 100 \in Nat /\ sum * 100 <= total * (100 * limit)
    <3>1. limit * total = total * limit /\ total * (100 * limit) = 100 * (total * limit)
          /\ total * limit \in Int
      BY <1>7, Z3
    <3> QED
      BY <1>7, <3>1
  <2>2. (sum * 100) \div total \in Nat
    BY <1>7, <1>9, <2>1, QuotientNat
  <2>3. (sum * 100) \div total <= 100 * limit
    <3> DEFINE a == sum * 100
               k == 100 * limit
    <3>1. a \in Int /\ k \in Int /\ total \in Nat \ {0} /\ a <= total * k
      BY <1>7, <1>9, <2>1
    <3> HIDE DEF a, k
    <3>2. a \div total <= k
      BY <3>1, QuotientBound
    <3> QED
      BY <3>2 DEF a, k
  <2> QED
    BY <1>5, <1>9, <2>2, <2>3
<1> QED
  BY <1>8, <1>9

\* An average does not change if all weights are halved.
LEMMA AverageHalved ==
    ASSUME NEW n \in Nat, NEW values \in [1..n -> Nat], NEW weights \in [1..n -> Nat],
           NEW double \in [1..n -> Nat], \A i \in 1..n : double[i] = 2 * weights[i]
    PROVE  WeightedAverage(values, double) = WeightedAverage(values, weights)
<1> DEFINE terms == [i \in 1..n |-> values[i] * weights[i]]
           twice == [i \in 1..n |-> values[i] * double[i]]
<1>1. terms \in [1..n -> Nat] /\ twice \in [1..n -> Nat]
  BY TimesNat
<1>2. /\ weights \in [1..n -> Int] /\ double \in [1..n -> Int] /\ terms \in [1..n -> Int]
      /\ twice \in [1..n -> Int]
  BY <1>1
<1>3. ASSUME NEW i \in 1..n PROVE twice[i] = 2 * terms[i]
  <2>1. \A x, y \in Nat : x * (2 * y) = 2 * (x * y)
    BY Z3
  <2> QED
    BY <2>1
<1>4. DOMAIN values = 1..n
  OBVIOUS
<1>5. /\ WeightedAverage(values, weights) =
           IF Sum(weights) = 0 THEN 0 ELSE (Sum(terms) * 100) \div Sum(weights)
      /\ WeightedAverage(values, double) =
           IF Sum(double) = 0 THEN 0 ELSE (Sum(twice) * 100) \div Sum(double)
  BY <1>4 DEF WeightedAverage
<1> HIDE DEF terms, twice
<1>6. Sum(twice) = 2 * Sum(terms) /\ Sum(double) = 2 * Sum(weights)
  <2>1. 2 \in Int
    OBVIOUS
  <2> QED
    BY <1>2, <1>3, <2>1, SumScaled
<1>7. Sum(terms) \in Nat /\ Sum(weights) \in Nat
  BY <1>1, SumNat
<1> DEFINE a == Sum(terms) * 100
           c == Sum(weights)
<1>8. CASE Sum(weights) # 0
  <2>1. a \in Int /\ c \in Nat \ {0} /\ Sum(twice) * 100 = 2 * a /\ Sum(double) = 2 * c
        /\ Sum(double) # 0
    BY <1>6, <1>7, <1>8
  <2>2. (2 * a) \div (2 * c) = a \div c
    <3> HIDE DEF a, c
    <3> QED
      BY <2>1, QuotientHalved
  <2> QED
    BY <1>5, <1>8, <2>1, <2>2
<1>9. CASE Sum(weights) = 0
  BY <1>5, <1>6, <1>9
<1> QED
  BY <1>8, <1>9

-----------------------------------------------------------------------------
(* The invariant. *)

USE BoundsAssumption

LEMMA ObservedType ==
    ASSUME NEW obs, NEW n, NEW t, Observed(obs, n, t)
    PROVE  /\ Len(obs) \in Nat /\ DOMAIN obs = 1..Len(obs)
           /\ \A i \in 1..Len(obs) : /\ obs[i].attempt \in Nat /\ obs[i].at \in Nat
                                     /\ obs[i].answer \in Answer
<1>1. obs \in Seq(Observation)
  BY DEF Observed
<1>2. \A i \in 1..Len(obs) : obs[i] \in Observation
  BY <1>1
<1> QED
  BY <1>1, <1>2 DEF Observation

LEMMA EvaluateKeeps == ASSUME HistoryInv, Evaluate PROVE HistoryInv'
<1>1. PICK mock \in Mocks :
        /\ attempts' = attempts + 1 /\ now' = now
        /\ history' = [s \in Skills |-> history[s] \o
                        [k \in DOMAIN mock[s] |-> [attempt |-> attempts', at |-> now,
                                                  answer |-> mock[s][k]]]]
  BY DEF Evaluate
<1>2. attempts' \in Nat /\ now' \in 0..MaxAge /\ now \in Nat /\ attempts < attempts'
  BY <1>1 DEF HistoryInv
<1>3. ASSUME NEW s \in Skills PROVE Observed(history'[s], attempts', now')
  <2>1. Observed(history[s], attempts, now)
    BY DEF HistoryInv
  <2> DEFINE obs == history[s]
             answers == mock[s]
             new == [k \in DOMAIN answers |-> [attempt |-> attempts', at |-> now,
                                              answer |-> answers[k]]]
             grown == obs \o new
             n == Len(obs)
             m == Len(new)
  <2>2. /\ obs \in Seq(Observation) /\ n \in Nat /\ attempts \in Nat
        /\ \A i \in 1..n : /\ obs[i].attempt <= attempts /\ obs[i].at <= now
                           /\ obs[i].attempt \in Nat
        /\ \A i, j \in 1..n : i < j => obs[i].attempt <= obs[j].attempt
    <3>1. /\ n \in Nat /\ attempts \in Nat
          /\ \A i \in 1..n : obs[i].attempt \in Nat
      BY <2>1, ObservedType DEF HistoryInv
    <3> QED
      BY <2>1, <3>1 DEF Observed
  <2>3. answers \in Seq(Answer)
    BY MocksAssumption
  <2>4. /\ new \in Seq(Observation) /\ m \in Nat
        /\ \A i \in 1..m : new[i].attempt = attempts' /\ new[i].at = now
    <3> HIDE DEF answers
    <3>1. Len(answers) \in Nat /\ DOMAIN answers = 1..Len(answers)
          /\ \A k \in 1..Len(answers) : answers[k] \in Answer
      BY <2>3
    <3>2. \A k \in 1..Len(answers) :
             [attempt |-> attempts', at |-> now, answer |-> answers[k]] \in Observation
      BY <1>2, <3>1 DEF Observation
    <3>3. new \in [1..Len(answers) -> Observation] /\ Len(new) = Len(answers)
      BY <3>1, <3>2
    <3> QED
      BY <3>1, <3>3
  <2>5. history'[s] = grown
    BY <1>1
  <2> HIDE DEF obs, new, answers
  <2>6. /\ grown \in Seq(Observation) /\ Len(grown) = n + m
        /\ \A i \in 1..n : grown[i] = obs[i]
        /\ \A i \in (n + 1)..(n + m) : grown[i] = new[i - n] /\ i - n \in 1..m
    BY <2>2, <2>4
  <2> HIDE DEF grown, n, m
  <2>7. \A i \in 1..(n + m) : i \in 1..n \/ i \in (n + 1)..(n + m)
    BY <2>2, <2>4
  <2>8. \A i \in (n + 1)..(n + m) : grown[i].attempt = attempts' /\ grown[i].at = now
    BY <2>4, <2>6
  <2>9. \A i \in 1..n : /\ grown[i].attempt <= attempts /\ grown[i].at <= now
                        /\ grown[i].attempt \in Nat
    BY <2>2, <2>6
  <2>10. ASSUME NEW i \in 1..(n + m)
         PROVE  grown[i].attempt <= attempts' /\ grown[i].at <= now
    <3>1. CASE i \in 1..n
      BY <1>2, <2>2, <2>9, <3>1
    <3>2. CASE i \in (n + 1)..(n + m)
      BY <1>2, <2>8, <3>2
    <3> QED
      BY <2>7, <3>1, <3>2
  <2>11. ASSUME NEW i \in 1..(n + m), NEW j \in 1..(n + m), i < j
         PROVE  grown[i].attempt <= grown[j].attempt
    <3>1. CASE j \in 1..n
      <4>1. i \in 1..n
        BY <2>2, <2>11, <3>1
      <4> QED
        BY <2>2, <2>6, <2>11, <3>1, <4>1
    <3>2. CASE j \in (n + 1)..(n + m)
      <4>1. grown[j].attempt = attempts'
        BY <2>8, <3>2
      <4> QED
        BY <2>10, <4>1
    <3> QED
      BY <2>7, <3>1, <3>2
  <2> QED
    BY <1>1, <2>5, <2>6, <2>10, <2>11 DEF Observed
<1>4. DOMAIN history' = Skills
  BY <1>1
<1> QED
  BY <1>2, <1>3, <1>4 DEF HistoryInv

LEMMA WaitKeeps == ASSUME HistoryInv, Wait PROVE HistoryInv'
<1>1. now' = now + 1 /\ now' \in 0..MaxAge /\ history' = history /\ attempts' = attempts
  BY DEF Wait, HistoryInv
<1>2. ASSUME NEW s \in Skills PROVE Observed(history'[s], attempts', now')
  <2>1. Observed(history[s], attempts, now)
    BY DEF HistoryInv
  <2>2. Len(history[s]) \in Nat /\ \A i \in 1..Len(history[s]) : history[s][i].at \in Nat
    BY <2>1, ObservedType
  <2>3. \A i \in 1..Len(history[s]) : history[s][i].at <= now + 1
    BY <2>1, <2>2 DEF Observed, HistoryInv
  <2> QED
    BY <1>1, <2>1, <2>3 DEF Observed
<1> QED
  BY <1>1, <1>2 DEF HistoryInv

LEMMA InitInv == Init => ModelInv
<1> SUFFICES ASSUME Init PROVE ModelInv
  OBVIOUS
<1>1. ASSUME NEW s \in Skills PROVE Observed(history[s], attempts, now)
  BY DEF Init, Observed
<1> QED
  BY <1>1 DEF Init, ModelInv, HistoryInv

LEMMA NextKeeps == ModelInv /\ [Next]_vars => ModelInv'
<1> SUFFICES ASSUME ModelInv, [Next]_vars PROVE ModelInv'
  OBVIOUS
<1>1. CASE Next
  <2>1. HistoryInv'
    BY <1>1, EvaluateKeeps, WaitKeeps DEF Next, ModelInv
  <2>2. profile' = calculate_analytics(history', now')
    BY <1>1 DEF Next
  <2> QED
    BY <2>1, <2>2 DEF ModelInv
<1>2. CASE UNCHANGED vars
  BY <1>2 DEF vars, ModelInv, HistoryInv
<1> QED
  BY <1>1, <1>2

LEMMA Invariance == Spec => []ModelInv
BY InitInv, NextKeeps, PTL DEF Spec

-----------------------------------------------------------------------------
(* The skills and their metrics. *)

Size == Len(Blueprint)

LEMMA ByWeightIs ==
    /\ Size \in Nat /\ ByWeight \in [1..Size -> Skills]
    /\ \A s \in Skills : \E i \in 1..Size : ByWeight[i] = s
<1> DEFINE entry(s) == [value |-> Weight[s], skill |-> s, item |-> s]
           E == {entry(s) : s \in Skills}
           entries == [i \in 1..Size |-> entry(Blueprint[i])]
<1>1. Size \in Nat /\ DOMAIN Blueprint = 1..Size /\ \A i \in 1..Size : Blueprint[i] \in Skills
  BY BlueprintAssumption DEF Size
<1>2. entries \in [1..Size -> E]
  BY <1>1
<1>3. \A e \in E : e.item \in Skills
  OBVIOUS
<1>6. \A s \in Skills : \E i \in 1..Size : entries[i].item = s
  BY <1>1, BlueprintAssumption
<1>7. DOMAIN entries = 1..Size
  OBVIOUS
<1>4. ByWeight = Sorted(entries)
  BY <1>1 DEF ByWeight
<1> HIDE DEF E, entries
<1>5. PICK list \in [1..Size -> E] : /\ Members(list) = Members(entries)
                                     /\ Sorted(entries) = Items(list, Size)
  <2> HIDE DEF Size
  <2> QED
    BY <1>1, <1>2, SortedIs
<1>8. ASSUME NEW s \in Skills PROVE \E i \in 1..Size : ByWeight[i] = s
  <2>1. PICK i \in 1..Size : entries[i].item = s
    BY <1>6
  <2>2. entries[i] \in Members(list)
    BY <1>5, <1>7, <2>1 DEF Members
  <2>3. PICK j \in 1..Size : list[j] = entries[i]
    BY <1>5, <2>2 DEF Members
  <2> QED
    BY <1>4, <1>5, <2>1, <2>3 DEF Items
<1> QED
  BY <1>1, <1>3, <1>4, <1>5, <1>8 DEF Items

LEMMA MetricsAre ==
    ASSUME NEW observed, NEW t
    PROVE  SkillMetrics(observed, t) =
             [i \in 1..Size |-> calculate_skill_metric(ByWeight[i], observed[ByWeight[i]], t)]
<1> DEFINE metric(i) == calculate_skill_metric(ByWeight[i], observed[ByWeight[i]], t)
           list == [i \in 1..Size |-> metric(i)]
           M == {metric(i) : i \in 1..Size}
<1>1. Size \in Nat /\ DOMAIN ByWeight = 1..Size
  BY ByWeightIs
<1>2. SkillMetrics(observed, t) = list \o <<>>
  BY <1>1 DEF SkillMetrics
<1> HIDE DEF metric
<1>3. list \in [1..Size -> M]
  OBVIOUS
<1> HIDE DEF list, M
<1>4. list \in Seq(M)
  BY <1>1, <1>3
<1>5. list \o <<>> = list
  BY <1>4
<1> QED
  BY <1>2, <1>5 DEF list, metric

LEMMA ProfileIs ==
    ASSUME NEW observed, NEW t
    PROVE  LET metrics == SkillMetrics(observed, t)
           IN calculate_analytics(observed, t)
                = Result(metrics, Readiness(metrics), Ranked(metrics))
BY DEF calculate_analytics, Analytics

-----------------------------------------------------------------------------
(* Trends. *)

\* An answer's weight in its attempt, and in a metric.
LEMMA EvidenceIs ==
    ASSUME NEW o, o.answer \in Answer
    PROVE  /\ Share(o) \in Nat \ {0} /\ Evaluator(o) \in 25..100
           /\ Clamp(o.answer.score, 0, 100) \in 0..100
           /\ difficulty_adjusted_score(o) \in 0..100
<1>1. /\ o.answer.score \in Int /\ o.answer.share \in Int /\ o.answer.sure \in Int
      /\ o.answer.difficulty \in {"easy", "matched", "hard"}
  BY DEF Answer, Correction
<1>2. Correction[o.answer.difficulty] \in Int
  BY <1>1 DEF Correction
<1> QED
  BY <1>1, <1>2 DEF Share, Evaluator, Clamp, Least, difficulty_adjusted_score

LEMMA AttemptValueIs ==
    ASSUME NEW obs, NEW n, NEW t, Observed(obs, n, t), NEW a
    PROVE  AttemptValue(obs, a) \in Nat
<1> DEFINE m == Len(obs)
           values == [i \in 1..m |-> Clamp(obs[i].answer.score, 0, 100)]
           weight(i) == IF obs[i].attempt = a THEN Share(obs[i]) * Evaluator(obs[i]) ELSE 0
           weights == [i \in 1..m |-> weight(i)]
<1>1. /\ m \in Nat /\ DOMAIN obs = 1..m /\ \A i \in 1..m : obs[i].answer \in Answer
  BY ObservedType
<1>2. AttemptValue(obs, a) = WeightedAverage(values, weights)
  BY <1>1 DEF AttemptValue
<1>3. ASSUME NEW i \in 1..m
      PROVE  /\ Clamp(obs[i].answer.score, 0, 100) \in 0..100
             /\ weight(i) \in Nat
  <2>1. /\ Share(obs[i]) \in Nat /\ Evaluator(obs[i]) \in Nat
        /\ Clamp(obs[i].answer.score, 0, 100) \in 0..100
    <3> DEFINE o == obs[i]
    <3>1. o.answer \in Answer
      BY <1>1
    <3> HIDE DEF o
    <3>2. /\ Share(o) \in Nat \ {0} /\ Evaluator(o) \in 25..100
          /\ Clamp(o.answer.score, 0, 100) \in 0..100
      BY <3>1, EvidenceIs
    <3>3. 25..100 \subseteq Nat
      OBVIOUS
    <3> QED
      BY <3>2, <3>3, Zenon DEF o
  <2>2. Share(obs[i]) * Evaluator(obs[i]) \in Nat
    BY <2>1, TimesNat
  <2> QED
    BY <2>1, <2>2
<1> HIDE DEF m, weight
<1>4. /\ values \in [1..m -> Nat] /\ weights \in [1..m -> Nat]
      /\ \A i \in 1..m : values[i] <= 100
  BY <1>3
<1> HIDE DEF values, weights
<1>5. 100 \in Nat
  OBVIOUS
<1> QED
  BY <1>1, <1>2, <1>4, <1>5, AverageIs

\* As many members as places, if no two are the same.
LEMMA MembersCount ==
    ASSUME NEW n \in Nat, NEW T, NEW f \in [1..n -> T],
           \A i, j \in 1..n : i # j => f[i] # f[j]
    PROVE  IsFiniteSet(Members(f)) /\ Cardinality(Members(f)) = n
<1>1. f \in Surjection(1..n, Members(f)) /\ f \in Injection(1..n, Members(f))
  <2>1. DOMAIN f = 1..n
    OBVIOUS
  <2>2. f \in [1..n -> Members(f)] /\ \A m \in Members(f) : \E i \in 1..n : f[i] = m
    BY <2>1 DEF Members
  <2> QED
    BY <2>2 DEF Surjection, Injection, IsInjective
<1>2. IsFiniteSet(1..n) /\ Cardinality(1..n) = n
  <2>1. 1 \in Int /\ n \in Int
    OBVIOUS
  <2>2. IsFiniteSet(1..n) /\ Cardinality(1..n) = IF 1 > n THEN 0 ELSE n - 1 + 1
    BY <2>1, FS_Interval
  <2> QED
    BY <2>2
<1> DEFINE M == Members(f)
<1> HIDE DEF M
<1>3. f \in Surjection(1..n, M) /\ f \in Injection(1..n, M)
  BY <1>1 DEF M
<1>4. IsFiniteSet(M) /\ Cardinality(M) = Cardinality(1..n)
  BY <1>2, <1>3, FS_Surjection
<1> QED
  BY <1>2, <1>4 DEF M

LastFive(all) == {a \in all : Cardinality({b \in all : b > a}) < 5}

\* At most four are later than the fifth from the end.
LEMMA FewLater ==
    ASSUME NEW m \in Nat, NEW f \in [1..m -> Nat],
           \A i, j \in 1..m : i < j => f[i] < f[j],
           NEW p \in 1..m, m - p < 5
    PROVE  f[p] \in LastFive({f[i] : i \in 1..m})
<1> DEFINE all == {f[i] : i \in 1..m}
           later == {b \in all : b > f[p]}
           tail == {f[i] : i \in (p + 1)..m}
<1>1. later \subseteq tail
  <2> SUFFICES ASSUME NEW i \in 1..m, f[i] > f[p] PROVE i \in (p + 1)..m
    OBVIOUS
  <2>1. CASE i < p
    <3>1. f[i] < f[p] /\ f[i] \in Nat /\ f[p] \in Nat
      BY <2>1
    <3> QED
      BY <3>1
  <2>2. CASE i = p
    BY <2>2
  <2> QED
    BY <2>1, <2>2
<1>2. IsFiniteSet((p + 1)..m) /\ Cardinality((p + 1)..m) = m - p
  <2>1. p + 1 \in Int /\ m \in Int
    OBVIOUS
  <2>2. /\ IsFiniteSet((p + 1)..m)
        /\ Cardinality((p + 1)..m) = IF p + 1 > m THEN 0 ELSE m - (p + 1) + 1
    BY <2>1, FS_Interval
  <2> QED
    BY <2>2
<1>3. IsFiniteSet(tail) /\ Cardinality(tail) <= Cardinality((p + 1)..m)
  <2> DEFINE g == [i \in (p + 1)..m |-> f[i]]
  <2>1. g \in Surjection((p + 1)..m, tail)
    BY DEF Surjection
  <2> HIDE DEF g, tail
  <2> QED
    BY <1>2, <2>1, FS_Surjection
<1>4. IsFiniteSet(later) /\ Cardinality(later) <= Cardinality(tail)
  BY <1>1, <1>3, FS_Subset
<1>5. Cardinality(later) \in Nat /\ Cardinality(tail) \in Nat
  BY <1>3, <1>4, FS_CardinalityType
<1>6. Cardinality(later) < 5
  BY <1>2, <1>3, <1>4, <1>5
<1>7. f[p] \in all
  OBVIOUS
<1> HIDE DEF all
<1> QED
  BY <1>6, <1>7 DEF LastFive, all

\* The attempts that a trend is about.
LEMMA RecentIs ==
    ASSUME NEW obs, NEW n, NEW t, Observed(obs, n, t)
    PROVE  \E size \in Nat :
             /\ size < 3 <=> Cardinality({obs[k].attempt : k \in DOMAIN obs}) < 3
             /\ Recent(obs) \in [1..size -> Nat]
             /\ \A i, j \in 1..size : i < j => Recent(obs)[i] < Recent(obs)[j]
             /\ \A i \in 1..size :
                  Recent(obs)[i] \in LastFive({obs[k].attempt : k \in DOMAIN obs})
<1> DEFINE named == [i \in 1..Len(obs) |-> obs[i].attempt]
<1>1. /\ Len(obs) \in Nat /\ DOMAIN obs = 1..Len(obs)
      /\ \A i \in 1..Len(obs) : obs[i].attempt \in Nat
      /\ \A i, j \in 1..Len(obs) : i < j => obs[i].attempt <= obs[j].attempt
  <2>1. \A i, j \in 1..Len(obs) : i < j => obs[i].attempt <= obs[j].attempt
    BY DEF Observed
  <2> QED
    BY <2>1, ObservedType
<1>2. /\ named \in Seq(Nat) /\ Len(named) = Len(obs)
      /\ \A i \in 1..Len(obs) : named[i] = obs[i].attempt
  BY <1>1
<1>3. [i \in DOMAIN obs |-> obs[i].attempt] = named
  BY <1>1
<1> HIDE DEF named
<1>4. PICK m, at : /\ FirstPlaces(at, m, named)
                   /\ Distinct(named) = Picked(named, at, m)
  BY <1>2, DistinctIs
<1> DEFINE all == Distinct(named)
<1>5. /\ m \in Nat /\ at \in [1..m -> 1..Len(obs)]
      /\ \A i, j \in 1..m : i < j => at[i] < at[j]
      /\ \A i, j \in 1..m : i # j => named[at[i]] # named[at[j]]
      /\ \A i \in 1..Len(obs) : \E k \in 1..m : named[at[k]] = named[i]
      /\ all = [k \in 1..m |-> named[at[k]]]
  BY <1>2, <1>4 DEF FirstPlaces, Picked
<1> HIDE DEF all
<1>6. all \in [1..m -> Nat] /\ Len(all) = m /\ all \in Seq(Nat)
  <2>1. ASSUME NEW k \in 1..m PROVE named[at[k]] \in Nat
    <3>1. at[k] \in 1..Len(obs)
      BY <1>5
    <3> QED
      BY <1>1, <1>2, <3>1
  <2>2. all \in [1..m -> Nat]
    BY <1>5, <2>1
  <2> QED
    BY <1>5, <2>2
<1>7. ASSUME NEW i \in 1..m, NEW j \in 1..m, i < j PROVE all[i] < all[j]
  <2>1. at[i] \in 1..Len(obs) /\ at[j] \in 1..Len(obs) /\ at[i] < at[j]
    BY <1>5, <1>7
  <2>2. named[at[i]] <= named[at[j]]
    BY <1>1, <1>2, <2>1
  <2>3. named[at[i]] # named[at[j]]
    BY <1>5, <1>7
  <2>4. all[i] = named[at[i]] /\ all[j] = named[at[j]]
    BY <1>5
  <2>5. named[at[i]] \in Nat /\ named[at[j]] \in Nat
    BY <1>1, <1>2, <2>1
  <2> QED
    BY <2>2, <2>3, <2>4, <2>5
<1>8. {all[i] : i \in 1..m} = {obs[k].attempt : k \in DOMAIN obs}
  <2>1. ASSUME NEW i \in 1..m PROVE all[i] \in {obs[k].attempt : k \in DOMAIN obs}
    <3>1. at[i] \in DOMAIN obs /\ all[i] = obs[at[i]].attempt
      BY <1>1, <1>2, <1>5
    <3> QED
      BY <3>1
  <2>2. ASSUME NEW k \in DOMAIN obs PROVE obs[k].attempt \in {all[i] : i \in 1..m}
    <3>1. PICK i \in 1..m : named[at[i]] = named[k]
      BY <1>1, <1>5
    <3>2. all[i] = obs[k].attempt
      BY <1>1, <1>2, <1>5, <3>1
    <3> QED
      BY <3>2
  <2> QED
    BY <2>1, <2>2
<1> DEFINE size == Least(5, m)
           recent == SubSeq(all, m - size + 1, m)
<1>9. size \in 0..m /\ size <= 5
  BY <1>5 DEF Least
<1>10. Recent(obs) = recent
  BY <1>3, <1>6 DEF Recent, all
<1> HIDE DEF size
<1>11. /\ recent \in [1..size -> Nat]
       /\ \A i \in 1..size : recent[i] = all[(m - size) + i] /\ (m - size) + i \in 1..m
  <2>1. m - size + 1 \in 1..(m + 1) /\ m - (m - size + 1) + 1 = size
    BY <1>5, <1>9
  <2>2. recent \in Seq(Nat) /\ Len(recent) = size
    BY <1>5, <1>6, <1>9, <2>1
  <2>3. ASSUME NEW i \in 1..size
        PROVE  recent[i] = all[(m - size) + i] /\ (m - size) + i \in 1..m
    <3>1. (m - size) + i \in 1..m /\ (m - size + 1) + i - 1 = (m - size) + i
      BY <1>5, <1>9
    <3> QED
      BY <1>5, <1>6, <1>9, <3>1
  <2>4. DOMAIN recent = 1..size /\ \A i \in 1..size : recent[i] \in Nat
    BY <2>2
  <2> HIDE DEF recent
  <2>5. recent \in [1..size -> Nat]
    BY <2>2, <2>4
  <2> QED
    BY <2>3, <2>5
<1> HIDE DEF recent
<1>12. ASSUME NEW i \in 1..size, NEW j \in 1..size, i < j PROVE recent[i] < recent[j]
  <2>1. (m - size) + i < (m - size) + j
    BY <1>5, <1>9, <1>12
  <2> QED
    BY <1>7, <1>11, <2>1
<1>13. ASSUME NEW i \in 1..size
       PROVE  recent[i] \in LastFive({obs[k].attempt : k \in DOMAIN obs})
  <2> DEFINE p == (m - size) + i
  <2>1. p \in 1..m /\ m - p < 5 /\ recent[i] = all[p]
    <3>1. p \in 1..m /\ recent[i] = all[p]
      BY <1>11
    <3>2. m - p < 5
      BY <1>5, <1>9
    <3> QED
      BY <3>1, <3>2
  <2> HIDE DEF p
  <2>2. all[p] \in LastFive({all[k] : k \in 1..m})
    BY <1>5, <1>6, <1>7, <2>1, FewLater
  <2> QED
    BY <1>8, <2>1, <2>2
<1>14. size \in Nat
  BY <1>5, <1>9
<1>16. size < 3 <=> Cardinality({obs[k].attempt : k \in DOMAIN obs}) < 3
  <2>1. \A i, j \in 1..m : i # j => all[i] # all[j]
    BY <1>5
  <2>2. Cardinality(Members(all)) = m
    BY <1>5, <1>6, <2>1, MembersCount
  <2>3. Members(all) = {all[i] : i \in 1..m}
    BY <1>6 DEF Members
  <2>4. Cardinality({obs[k].attempt : k \in DOMAIN obs}) = m
    BY <1>8, <2>2, <2>3
  <2>5. size < 3 <=> m < 3
    BY <1>5 DEF size, Least
  <2> QED
    BY <2>4, <2>5
<1>15. /\ recent \in [1..size -> Nat]
       /\ \A i, j \in 1..size : i < j => recent[i] < recent[j]
       /\ \A i \in 1..size : recent[i] \in LastFive({obs[k].attempt : k \in DOMAIN obs})
  BY <1>11, <1>12, <1>13
<1> QED
  BY <1>10, <1>14, <1>15, <1>16

\* Of the first two and the last two values, one that is later is different.
LEMMA TrendOfIs ==
    ASSUME NEW size \in Nat, NEW values \in [1..size -> Int]
    PROVE  /\ TrendOf(values) = "insufficient_data" <=> size < 3
           /\ TrendOf(values) = "improving" =>
                \E i, j \in 1..size : i < j /\ values[i] < values[j]
           /\ TrendOf(values) = "declining" =>
                \E i, j \in 1..size : i < j /\ values[i] > values[j]
<1>1. Len(values) = size
  OBVIOUS
<1>2. CASE size < 3
  BY <1>1, <1>2 DEF TrendOf
<1>3. CASE size >= 3
  <2>1. /\ 1 \in 1..size /\ 2 \in 1..size /\ size - 1 \in 1..size /\ size \in 1..size
        /\ 1 < size - 1 /\ 2 < size
    BY <1>3
  <2> DEFINE delta == (values[size - 1] + values[size]) - (values[1] + values[2])
  <2>2. /\ values[1] \in Int /\ values[2] \in Int /\ values[size - 1] \in Int
        /\ values[size] \in Int
    BY <2>1
  <2>3. TrendOf(values) = Direction(delta)
    BY <1>1, <1>3 DEF TrendOf
  <2>4. /\ Direction(delta) = "improving" => delta >= 1600
        /\ Direction(delta) = "declining" => delta <= -1600
        /\ Direction(delta) # "insufficient_data"
    BY <2>2 DEF Direction
  <2>5. /\ delta >= 1600 => values[1] < values[size - 1] \/ values[2] < values[size]
        /\ delta <= -1600 => values[1] > values[size - 1] \/ values[2] > values[size]
    BY <2>2
  <2> HIDE DEF delta
  <2> QED
    BY <1>3, <2>1, <2>3, <2>4, <2>5
<1> QED
  BY <1>2, <1>3

LEMMA TrendIs ==
    ASSUME NEW obs, NEW n, NEW t, Observed(obs, n, t)
    PROVE  LET all == {obs[k].attempt : k \in DOMAIN obs}
               last == LastFive(all)
           IN /\ Trend(obs) = "insufficient_data" <=> Cardinality(all) < 3
              /\ Trend(obs) = "improving" =>
                   \E a, b \in last : a < b /\ AttemptValue(obs, a) < AttemptValue(obs, b)
              /\ Trend(obs) = "declining" =>
                   \E a, b \in last : a < b /\ AttemptValue(obs, a) > AttemptValue(obs, b)
<1> DEFINE last == LastFive({obs[k].attempt : k \in DOMAIN obs})
<1>1. PICK size \in Nat :
        /\ size < 3 <=> Cardinality({obs[k].attempt : k \in DOMAIN obs}) < 3
        /\ Recent(obs) \in [1..size -> Nat]
        /\ \A i, j \in 1..size : i < j => Recent(obs)[i] < Recent(obs)[j]
        /\ \A i \in 1..size : Recent(obs)[i] \in last
  BY RecentIs
<1> HIDE DEF last
<1> DEFINE values == AttemptValues(obs, Recent(obs))
<1>2. /\ values \in [1..size -> Int]
      /\ \A i \in 1..size : values[i] = AttemptValue(obs, Recent(obs)[i])
  <2>1. \A i \in 1..size : AttemptValue(obs, Recent(obs)[i]) \in Int
    BY AttemptValueIs
  <2> QED
    BY <1>1, <2>1 DEF AttemptValues
<1>3. Trend(obs) = TrendOf(values)
  BY DEF Trend
<1> HIDE DEF values
<1>4. /\ TrendOf(values) = "insufficient_data" <=> size < 3
      /\ TrendOf(values) = "improving" =>
           \E i, j \in 1..size : i < j /\ values[i] < values[j]
      /\ TrendOf(values) = "declining" =>
           \E i, j \in 1..size : i < j /\ values[i] > values[j]
  BY <1>2, TrendOfIs
<1>5. ASSUME Trend(obs) = "improving"
      PROVE  \E a, b \in last : a < b /\ AttemptValue(obs, a) < AttemptValue(obs, b)
  <2>1. PICK i \in 1..size, j \in 1..size : i < j /\ values[i] < values[j]
    BY <1>3, <1>4, <1>5
  <2> QED
    BY <1>1, <1>2, <2>1
<1>6. ASSUME Trend(obs) = "declining"
      PROVE  \E a, b \in last : a < b /\ AttemptValue(obs, a) > AttemptValue(obs, b)
  <2>1. PICK i \in 1..size, j \in 1..size : i < j /\ values[i] > values[j]
    BY <1>3, <1>4, <1>6
  <2> QED
    BY <1>1, <1>2, <2>1
<1>7. Trend(obs) = "insufficient_data"
        <=> Cardinality({obs[k].attempt : k \in DOMAIN obs}) < 3
  BY <1>1, <1>3, <1>4
<1> QED
  BY <1>5, <1>6, <1>7 DEF last

LEMMA TrendInv == ModelInv => TrendIsRecent
<1> SUFFICES ASSUME ModelInv, NEW n \in DOMAIN profile.metrics
             PROVE  LET obs == history[profile.metrics[n].skill]
                        all == {obs[k].attempt : k \in DOMAIN obs}
                        last == LastFive(all)
                    IN /\ profile.metrics[n].trend = "insufficient_data"
                            <=> Cardinality(all) < 3
                       /\ profile.metrics[n].trend = "improving" =>
                            \E a, b \in last :
                              a < b /\ AttemptValue(obs, a) < AttemptValue(obs, b)
                       /\ profile.metrics[n].trend = "declining" =>
                            \E a, b \in last :
                              a < b /\ AttemptValue(obs, a) > AttemptValue(obs, b)
  BY DEF TrendIsRecent, LastFive
<1> DEFINE s == ByWeight[n]
           obs == history[s]
<1>1. profile.metrics = SkillMetrics(history, now)
  BY ProfileIs DEF ModelInv, Result
<1>2. n \in 1..Size /\ profile.metrics[n] = calculate_skill_metric(s, obs, now)
  BY <1>1, MetricsAre
<1>3. s \in Skills /\ Observed(obs, attempts, now)
  BY <1>2, ByWeightIs DEF ModelInv, HistoryInv
<1> HIDE DEF s
<1> HIDE DEF obs
<1>4. profile.metrics[n].skill = s
  BY <1>2 DEF calculate_skill_metric, Metric, Unobserved
<1>5. \/ obs # <<>> /\ profile.metrics[n].trend = Trend(obs)
      \/ /\ {obs[k].attempt : k \in DOMAIN obs} = {}
         /\ profile.metrics[n].trend = "insufficient_data"
  BY <1>2 DEF calculate_skill_metric, Metric, Unobserved
<1>7. Cardinality({}) = 0
  BY FS_EmptySet
<1>6. history[s] = obs
  BY DEF obs
<1>8. CASE {obs[k].attempt : k \in DOMAIN obs} = {}
           /\ profile.metrics[n].trend = "insufficient_data"
  <2>1. Cardinality({obs[k].attempt : k \in DOMAIN obs}) < 3
    BY <1>7, <1>8
  <2> QED
    BY <1>4, <1>6, <1>8, <2>1
<1>9. CASE profile.metrics[n].trend = Trend(obs)
  BY <1>3, <1>4, <1>6, <1>9, TrendIs
<1> QED
  BY <1>5, <1>8, <1>9

\* _trend: whatever the number of questions on a skill in one attempt, there is a
\* trend from the third attempt on, and a direction is seen in two of the last
\* five attempts, each with all its answers, in their order; for any bounds.
THEOREM TrendsAreRecent == Spec => []TrendIsRecent
BY TrendInv, Invariance, PTL

-----------------------------------------------------------------------------
(* Targets. *)

\* The metrics are ranked, and none is lost or added.
LEMMA RankedIs ==
    ASSUME NEW n \in Nat, NEW T, NEW metrics \in [1..n -> T]
    PROVE  /\ Ranked(metrics) \in [1..n -> T]
           /\ Members(Ranked(metrics)) = Members(metrics)
<1> DEFINE entry(m) == [value |-> Priority(m), skill |-> m.skill, item |-> m]
           entries == [i \in 1..n |-> entry(metrics[i])]
           E == {entry(m) : m \in T}
<1>1. entries \in [1..n -> E] /\ \A i \in 1..n : entries[i].item = metrics[i]
  OBVIOUS
<1>2. \A e \in E : e.item \in T
  OBVIOUS
<1>3. Ranked(metrics) = Sorted(entries)
  BY DEF Ranked
<1> HIDE DEF entries, E
<1>4. PICK list \in [1..n -> E] : /\ Members(list) = Members(entries)
                                  /\ Sorted(entries) = Items(list, n)
  BY <1>1, SortedIs
<1> DEFINE ranked == Ranked(metrics)
<1>5. ranked = [i \in 1..n |-> list[i].item]
  BY <1>3, <1>4 DEF Items
<1> HIDE DEF ranked
<1>6. ranked \in [1..n -> T]
  BY <1>2, <1>5
<1>7. ASSUME NEW m PROVE m \in Members(ranked) <=> m \in Members(metrics)
  <2>1. m \in Members(ranked) <=> \E i \in 1..n : m = list[i].item
    BY <1>5 DEF Members
  <2>2. (\E i \in 1..n : m = list[i].item) <=> \E e \in Members(list) : m = e.item
    BY DEF Members
  <2>3. (\E i \in 1..n : m = entries[i].item) <=> \E e \in Members(entries) : m = e.item
    BY <1>1 DEF Members
  <2>4. m \in Members(metrics) <=> \E i \in 1..n : m = entries[i].item
    BY <1>1 DEF Members
  <2> QED
    BY <1>4, <2>1, <2>2, <2>3, <2>4
<1>8. Members(ranked) = Members(metrics)
  BY <1>7
<1> QED
  BY <1>6, <1>8 DEF ranked

Where(seq, S) == {i \in DOMAIN seq : seq[i] \in S}

\* What is kept of a list are its members that have the property.
LEMMA KeepWhere ==
    ASSUME NEW T, NEW seq \in Seq(T), NEW S
    PROVE  /\ Keep(seq, Where(seq, S)) \in Seq(T)
           /\ Members(Keep(seq, Where(seq, S))) = Members(seq) \cap S
<1> DEFINE places == Where(seq, S)
<1>1. DOMAIN seq = 1..Len(seq)
  OBVIOUS
<1>2. {seq[i] : i \in places \cap (1..Len(seq))} = Members(seq) \cap S
  BY <1>1 DEF Members, Where
<1> HIDE DEF places
<1>3. /\ Keep(seq, places) \in Seq(T)
      /\ Members(Keep(seq, places)) = {seq[i] : i \in places \cap (1..Len(seq))}
  BY KeepMembers
<1> QED
  BY <1>2, <1>3 DEF places

\* The members of the pools: the candidates, and something to refresh.
LEMMA PoolsAre ==
    ASSUME NEW T, NEW metrics \in Seq(T), NEW ranked \in Seq(T),
           Members(metrics) = T, Members(ranked) = T
    PROVE  LET pools == Pools(metrics, Candidates(ranked))
           IN /\ pools \in Seq(T)
              /\ {m \in T : Candidate(m)} \subseteq Members(pools)
              /\ \A m \in Members(pools) : m \in T /\ (Candidate(m) \/ Retention(m))
              /\ (\E m \in T : Low(m)) =>
                   \E q \in 1..Len(pools) : q <= 3 /\ Low(pools[q])
<1> DEFINE wanted == {m \in T : Candidate(m)}
           low == {m \in T : Low(m)}
           known == {m \in T : ~Low(m)}
           old == {m \in T : Retention(m)}
           candidates == Candidates(ranked)
           gaps == Keep(candidates, {i \in DOMAIN candidates : ~Low(candidates[i])})
           unknown == Keep(candidates, {i \in DOMAIN candidates : Low(candidates[i])})
           faded == Keep(metrics, {i \in DOMAIN metrics : Retention(metrics[i])})
<1>1. candidates \in Seq(T) /\ Members(candidates) = wanted
  <2>1. Where(ranked, wanted)
           = {i \in DOMAIN ranked : Candidate(ranked[i])}
    BY DEF Members, Where
  <2>2. candidates = Keep(ranked, Where(ranked, wanted))
    BY <2>1 DEF Candidates
  <2> HIDE DEF wanted
  <2> HIDE DEF candidates
  <2>3. candidates \in Seq(T) /\ Members(candidates) = Members(ranked) \cap wanted
    BY <2>2, KeepWhere
  <2> QED
    BY <2>3 DEF wanted
<1> HIDE DEF candidates
<1>2. \A i \in DOMAIN candidates : candidates[i] \in T
  BY <1>1
<1>3. gaps \in Seq(T) /\ Members(gaps) = wanted \cap known
  <2>1. Where(candidates, known)
           = {i \in DOMAIN candidates : ~Low(candidates[i])}
    BY <1>2 DEF Where
  <2>2. gaps = Keep(candidates, Where(candidates, known))
    BY <2>1
  <2> HIDE DEF known, gaps
  <2> QED
    BY <1>1, <2>2, KeepWhere
<1>4. unknown \in Seq(T) /\ Members(unknown) = low
  <2>1. Where(candidates, low)
           = {i \in DOMAIN candidates : Low(candidates[i])}
    BY <1>2 DEF Where
  <2>2. unknown = Keep(candidates, Where(candidates, low))
    BY <2>1
  <2>3. wanted \cap low = low
    BY DEF Candidate
  <2> HIDE DEF low, unknown
  <2>4. unknown \in Seq(T) /\ Members(unknown) = Members(candidates) \cap low
    BY <1>1, <2>2, KeepWhere
  <2> QED
    BY <1>1, <2>3, <2>4
<1>5. faded \in Seq(T) /\ Members(faded) = old
  <2>1. Where(metrics, old)
           = {i \in DOMAIN metrics : Retention(metrics[i])}
    BY DEF Members, Where
  <2>2. faded = Keep(metrics, Where(metrics, old))
    BY <2>1
  <2>3. Members(metrics) \cap old = old
    OBVIOUS
  <2> HIDE DEF old, faded
  <2> QED
    BY <2>2, <2>3, KeepWhere
<1> DEFINE two == First(2, gaps)
           one == First(1, unknown)
           refresh == First(1, faded)
           pools == two \o one \o refresh \o candidates
<1>6. Pools(metrics, candidates) = pools
  BY DEF Pools
<1> HIDE DEF gaps, unknown, faded
<1>7. /\ two \in Seq(T) /\ Len(two) \in 0..2
      /\ \A i \in 1..Len(two) : two[i] \in wanted
  <2>1. /\ two \in Seq(T) /\ Len(two) = Least(2, Len(gaps)) /\ Least(2, Len(gaps)) <= Len(gaps)
        /\ Least(2, Len(gaps)) \in Nat /\ Least(2, Len(gaps)) <= 2
        /\ \A i \in 1..Least(2, Len(gaps)) : two[i] = gaps[i]
    BY <1>3, FirstIs, 2 \in Nat
  <2>2. \A i \in 1..Len(gaps) : gaps[i] \in Members(gaps)
    BY <1>3 DEF Members
  <2>3. Len(gaps) \in Nat
    BY <1>3
  <2> HIDE DEF two
  <2> QED
    BY <1>3, <2>1, <2>2, <2>3
<1>8. /\ one \in Seq(T) /\ Len(one) \in 0..1
      /\ low # {} => Len(one) = 1
      /\ \A i \in 1..Len(one) : one[i] \in low
  <2>1. /\ one \in Seq(T) /\ Len(one) = Least(1, Len(unknown))
        /\ Least(1, Len(unknown)) <= Len(unknown)
        /\ Least(1, Len(unknown)) \in Nat /\ Least(1, Len(unknown)) <= 1
        /\ \A i \in 1..Least(1, Len(unknown)) : one[i] = unknown[i]
    BY <1>4, FirstIs, 1 \in Nat
  <2>2. \A i \in 1..Len(unknown) : unknown[i] \in Members(unknown)
    BY <1>4 DEF Members
  <2>3. Len(unknown) \in Nat /\ (Len(unknown) = 0 => Members(unknown) = {})
    BY <1>4 DEF Members
  <2>4. Len(unknown) # 0 => Least(1, Len(unknown)) = 1
    <3> DEFINE u == Len(unknown)
    <3> HIDE DEF u
    <3>1. u \in Nat /\ u # 0 => Least(1, u) = 1
      BY DEF Least
    <3> QED
      BY <2>3, <3>1 DEF u
  <2> HIDE DEF one, low
  <2> QED
    BY <1>4, <2>1, <2>2, <2>3, <2>4
<1>9. /\ refresh \in Seq(T) /\ Len(refresh) \in Nat
      /\ \A i \in 1..Len(refresh) : refresh[i] \in old
  <2>1. /\ refresh \in Seq(T) /\ Len(refresh) = Least(1, Len(faded))
        /\ Least(1, Len(faded)) <= Len(faded) /\ Least(1, Len(faded)) \in Nat
        /\ \A i \in 1..Least(1, Len(faded)) : refresh[i] = faded[i]
    BY <1>5, FirstIs, 1 \in Nat
  <2>2. \A i \in 1..Len(faded) : faded[i] \in Members(faded)
    BY <1>5 DEF Members
  <2>3. Len(faded) \in Nat
    BY <1>5
  <2> HIDE DEF refresh
  <2> QED
    BY <1>5, <2>1, <2>2, <2>3
<1>10. /\ Len(candidates) \in Nat
       /\ \A i \in 1..Len(candidates) : candidates[i] \in wanted
       /\ \A m \in wanted : \E i \in 1..Len(candidates) : candidates[i] = m
  <2>1. /\ Len(candidates) \in Nat /\ DOMAIN candidates = 1..Len(candidates)
        /\ wanted = Members(candidates)
    BY <1>1
  <2> HIDE DEF wanted
  <2> QED
    BY <2>1 DEF Members
<1> HIDE DEF two, one, refresh
<1> DEFINE a == Len(two)
           b == a + Len(one)
           c == b + Len(refresh)
<1>11. /\ pools \in Seq(T) /\ Len(pools) = c + Len(candidates)
       /\ \A i \in 1..a : pools[i] = two[i]
       /\ \A i \in 1..Len(one) : pools[a + i] = one[i]
       /\ \A i \in 1..Len(refresh) : pools[b + i] = refresh[i]
       /\ \A i \in 1..Len(candidates) : pools[c + i] = candidates[i]
  BY <1>1, <1>7, <1>8, <1>9
<1> HIDE DEF pools
<1>12. ASSUME NEW m \in wanted PROVE m \in Members(pools)
  <2>1. PICK i \in 1..Len(candidates) : candidates[i] = m
    BY <1>10
  <2>2. c + i \in 1..Len(pools) /\ pools[c + i] = m
    BY <1>7, <1>8, <1>9, <1>10, <1>11, <2>1
  <2>3. DOMAIN pools = 1..Len(pools)
    BY <1>11
  <2> HIDE DEF c
  <2> QED
    BY <2>2, <2>3 DEF Members
<1>13. ASSUME NEW m \in Members(pools) PROVE m \in wanted \/ m \in low \/ m \in old
  <2>1. DOMAIN pools = 1..Len(pools)
    BY <1>11
  <2>2. PICK i \in 1..Len(pools) : m = pools[i]
    BY <2>1 DEF Members
  <2>3. CASE i <= a
    BY <1>7, <1>11, <2>2, <2>3
  <2>4. CASE i > a /\ i <= b
    <3>1. i - a \in 1..Len(one) /\ a + (i - a) = i
      BY <1>7, <1>8, <2>4
    <3> QED
      BY <1>8, <1>11, <2>2, <3>1
  <2>5. CASE i > b /\ i <= c
    <3>1. i - b \in 1..Len(refresh) /\ b + (i - b) = i
      BY <1>7, <1>8, <1>9, <2>5
    <3> QED
      BY <1>9, <1>11, <2>2, <3>1
  <2>6. CASE i > c
    <3>1. i - c \in 1..Len(candidates) /\ c + (i - c) = i
      BY <1>7, <1>8, <1>9, <1>10, <1>11, <2>6
    <3> QED
      BY <1>10, <1>11, <2>2, <3>1
  <2> QED
    BY <1>7, <1>8, <1>9, <2>3, <2>4, <2>5, <2>6
<1>14. ASSUME NEW m \in low PROVE \E q \in 1..Len(pools) : q <= 3 /\ Low(pools[q])
  <2>1. Len(one) = 1 /\ one[1] \in low
    BY <1>8
  <2>2. a + 1 \in 1..Len(pools) /\ a + 1 <= 3
    <3>1. a \in 0..2 /\ c = a + 1 + Len(refresh) /\ Len(pools) = c + Len(candidates)
      BY <1>7, <1>11, <2>1
    <3> HIDE DEF a, c
    <3> QED
      BY <1>9, <1>10, <3>1
  <2>3. 1 \in 1..Len(one)
    BY <2>1
  <2>4. pools[a + 1] \in low
    BY <1>11, <2>1, <2>3
  <2> HIDE DEF a
  <2> QED
    BY <2>2, <2>4
<1>15. \A m \in Members(pools) : m \in T /\ (Candidate(m) \/ Retention(m))
  BY <1>13 DEF Candidate
<1> QED
  BY <1>6, <1>11, <1>12, <1>14, <1>15 DEF candidates

\* The first three different members of a list, and those that must be among them.
LEMMA FirstThree ==
    ASSUME NEW T, NEW pools \in Seq(T)
    PROVE  \E n \in 0..3 : LET targets == First(3, Distinct(pools)) IN
             /\ targets \in [1..n -> T] /\ Len(targets) = n
             /\ IsFiniteSet(Members(targets)) /\ Cardinality(Members(targets)) = n
             /\ Members(targets) \subseteq Members(pools)
             /\ IsFiniteSet(Members(pools)) /\ n = Least(3, Cardinality(Members(pools)))
             /\ \A q \in 1..Len(pools) : q <= 3 => pools[q] \in Members(targets)
<1>1. PICK m, at : FirstPlaces(at, m, pools) /\ Distinct(pools) = Picked(pools, at, m)
  BY DistinctIs
<1> DEFINE all == Distinct(pools)
           targets == First(3, all)
           n == Least(3, m)
<1>2. Len(pools) \in Nat /\ DOMAIN pools = 1..Len(pools)
      /\ \A i \in 1..Len(pools) : pools[i] \in T
  OBVIOUS
<1>3. /\ m \in Nat /\ at \in [1..m -> 1..Len(pools)]
      /\ \A i, j \in 1..m : i < j => at[i] < at[j]
      /\ \A i, j \in 1..m : i # j => pools[at[i]] # pools[at[j]]
      /\ \A i \in 1..Len(pools) : \E k \in 1..m : pools[at[k]] = pools[i] /\ at[k] <= i
  BY <1>1 DEF FirstPlaces
<1>4. all = [k \in 1..m |-> pools[at[k]]]
  BY <1>1 DEF Picked
<1> HIDE DEF all
<1>5. ASSUME NEW k \in 1..m
      PROVE  at[k] \in 1..Len(pools) /\ pools[at[k]] \in T /\ all[k] = pools[at[k]]
  BY <1>2, <1>3, <1>4
<1>6. all \in [1..m -> T]
  BY <1>4, <1>5
<1>7. all \in Seq(T) /\ Len(all) = m
  BY <1>3, <1>6
<1>8. n \in 0..3 /\ n <= m
  BY <1>3 DEF Least
<1>9. /\ targets \in Seq(T) /\ Len(targets) = n
      /\ \A i \in 1..n : targets[i] = all[i]
  BY <1>7, FirstIs, 3 \in Nat
<1> HIDE DEF targets
<1>10. targets \in [1..n -> T]
  BY <1>8, <1>9
<1>11. \A i, j \in 1..n : i # j => targets[i] # targets[j]
  <2> SUFFICES ASSUME NEW i \in 1..n, NEW j \in 1..n, i # j PROVE targets[i] # targets[j]
    OBVIOUS
  <2> HIDE DEF n
  <2>1. i \in 1..m /\ j \in 1..m
    BY <1>3, <1>8
  <2>2. pools[at[i]] # pools[at[j]]
    BY <1>3, <2>1
  <2>3. targets[i] = pools[at[i]] /\ targets[j] = pools[at[j]]
    BY <1>5, <1>9, <2>1
  <2> QED
    BY <2>2, <2>3
<1>12. IsFiniteSet(Members(targets)) /\ Cardinality(Members(targets)) = n
  <2>1. n \in Nat
    BY <1>8
  <2> HIDE DEF n
  <2> QED
    BY <1>10, <1>11, <2>1, MembersCount
<1>13. Members(all) = Members(pools)
  <2>1. ASSUME NEW e \in Members(all) PROVE e \in Members(pools)
    <3>1. PICK k \in 1..m : e = all[k]
      BY <1>6, <2>1 DEF Members
    <3> QED
      BY <1>2, <1>5, <3>1 DEF Members
  <2>2. ASSUME NEW e \in Members(pools) PROVE e \in Members(all)
    <3>1. PICK i \in 1..Len(pools) : e = pools[i]
      BY <1>2, <2>2 DEF Members
    <3>2. PICK k \in 1..m : pools[at[k]] = pools[i]
      BY <1>3
    <3>3. k \in DOMAIN all /\ all[k] = e
      BY <1>5, <1>6, <3>1, <3>2
    <3> QED
      BY <3>3 DEF Members
  <2> QED
    BY <2>1, <2>2
<1>14. IsFiniteSet(Members(pools)) /\ Cardinality(Members(pools)) = m
  <2>1. \A i, j \in 1..m : i # j => all[i] # all[j]
    BY <1>3, <1>5
  <2>2. IsFiniteSet(Members(all)) /\ Cardinality(Members(all)) = m
    BY <1>3, <1>6, <2>1, MembersCount
  <2> QED
    BY <1>13, <2>2
<1>15. Members(targets) \subseteq Members(pools)
  <2> SUFFICES ASSUME NEW e \in Members(targets) PROVE e \in Members(pools)
    OBVIOUS
  <2>1. PICK i \in 1..n : e = targets[i]
    BY <1>10 DEF Members
  <2>2. i \in 1..m
    BY <1>3, <1>8
  <2> QED
    BY <1>2, <1>5, <1>9, <2>1, <2>2 DEF Members
<1>16. ASSUME NEW q \in 1..Len(pools), q <= 3 PROVE pools[q] \in Members(targets)
  <2>1. PICK k \in 1..m : pools[at[k]] = pools[q] /\ at[k] <= q
    BY <1>3
  <2>2. k <= 3
    <3> SUFFICES ASSUME k > 3 PROVE FALSE
      BY <1>3
    <3>1. 1 \in 1..m /\ 2 \in 1..m /\ 3 \in 1..m /\ 1 < 2 /\ 2 < 3 /\ 3 < k
      BY <1>3
    <3>2. at[1] < at[2] /\ at[2] < at[3] /\ at[3] < at[k]
      BY <1>3, <3>1
    <3>3. at[1] \in 1..Len(pools) /\ at[2] \in 1..Len(pools) /\ at[3] \in 1..Len(pools)
          /\ at[k] \in 1..Len(pools)
      BY <1>5, <3>1
    <3> QED
      BY <1>2, <1>16, <2>1, <3>2, <3>3
  <2>3. k \in 1..n
    BY <1>3, <2>2 DEF Least
  <2>4. targets[k] = pools[q]
    BY <1>5, <1>9, <2>1, <2>3
  <2>5. DOMAIN targets = 1..n
    BY <1>10
  <2> QED
    BY <2>3, <2>4, <2>5 DEF Members
<1>17. n = Least(3, Cardinality(Members(pools)))
  BY <1>14
<1> HIDE DEF n
<1>18. /\ targets \in [1..n -> T] /\ Len(targets) = n
       /\ IsFiniteSet(Members(targets)) /\ Cardinality(Members(targets)) = n
       /\ Members(targets) \subseteq Members(pools)
       /\ IsFiniteSet(Members(pools)) /\ n = Least(3, Cardinality(Members(pools)))
       /\ \A q \in 1..Len(pools) : q <= 3 => pools[q] \in Members(targets)
  BY <1>9, <1>10, <1>12, <1>14, <1>15, <1>16, <1>17
<1> QED
  BY <1>8, <1>18 DEF targets, all

\* What must hold of the targets, given the metrics of the skills.
Balanced(targets, T) ==
  LET chosen == Members(targets)
  IN /\ Cardinality(chosen) = Len(targets) /\ Len(targets) <= 3
     /\ Len(targets) >= Least(3, Cardinality({m \in T : Candidate(m)}))
     /\ (\E m \in T : Low(m)) => \E m \in chosen : TargetReason(m) = "collect_evidence"
     /\ \A m \in chosen : /\ Candidate(m) \/ Retention(m)
                          /\ TargetReason(m) = "confirmed_gap" => m.mastery < 7500

\* The targets of a list of metrics.
LEMMA TargetsAre ==
    ASSUME NEW n \in Nat, NEW T, NEW metrics \in [1..n -> T], Members(metrics) = T
    PROVE  Balanced(Targets(metrics, Ranked(metrics)), T)
<1> DEFINE ranked == Ranked(metrics)
           pools == Pools(metrics, Candidates(ranked))
           targets == Targets(metrics, ranked)
           chosen == Members(targets)
           wanted == {m \in T : Candidate(m)}
<1>1. metrics \in Seq(T)
  OBVIOUS
<1>2. ranked \in Seq(T) /\ Members(ranked) = T
  <2>1. ranked \in [1..n -> T] /\ Members(ranked) = T
    BY RankedIs
  <2> HIDE DEF ranked
  <2> QED
    BY <2>1
<1>3. targets = First(3, Distinct(pools))
  BY DEF Targets
<1> HIDE DEF ranked
<1>4. /\ pools \in Seq(T)
      /\ wanted \subseteq Members(pools)
      /\ \A m \in Members(pools) : m \in T /\ (Candidate(m) \/ Retention(m))
      /\ (\E m \in T : Low(m)) => \E q \in 1..Len(pools) : q <= 3 /\ Low(pools[q])
  BY <1>1, <1>2, PoolsAre
<1> HIDE DEF pools, targets
<1>5. PICK k \in 0..3 :
        /\ targets \in [1..k -> T] /\ Len(targets) = k
        /\ IsFiniteSet(chosen) /\ Cardinality(chosen) = k
        /\ chosen \subseteq Members(pools)
        /\ IsFiniteSet(Members(pools)) /\ k = Least(3, Cardinality(Members(pools)))
        /\ \A q \in 1..Len(pools) : q <= 3 => pools[q] \in chosen
  BY <1>3, <1>4, FirstThree
<1>6. Len(targets) >= Least(3, Cardinality(wanted))
  <2> DEFINE c == Cardinality(wanted)
             d == Cardinality(Members(pools))
  <2>1. IsFiniteSet(wanted) /\ c <= d
    BY <1>4, <1>5, FS_Subset
  <2>2. c \in Nat /\ d \in Nat
    BY <1>5, <2>1, FS_CardinalityType
  <2> HIDE DEF c, d
  <2>3. Least(3, c) <= Least(3, d)
    BY <2>1, <2>2 DEF Least
  <2>4. Len(targets) = Least(3, d)
    BY <1>5 DEF d
  <2>5. Least(3, c) \in Nat /\ Least(3, d) \in Nat
    BY <2>2 DEF Least
  <2> QED
    BY <2>3, <2>4, <2>5 DEF c
<1>7. ASSUME NEW e \in T, Low(e) PROVE \E m \in chosen : TargetReason(m) = "collect_evidence"
  <2>1. PICK q \in 1..Len(pools) : q <= 3 /\ Low(pools[q])
    BY <1>4, <1>7
  <2>2. pools[q] \in chosen
    BY <1>5, <2>1
  <2> QED
    BY <2>1, <2>2 DEF TargetReason
<1>8. ASSUME NEW m \in chosen
      PROVE  /\ Candidate(m) \/ Retention(m)
             /\ TargetReason(m) = "confirmed_gap" => m.mastery < 7500
  <2>1. Candidate(m) \/ Retention(m)
    BY <1>4, <1>5
  <2> QED
    BY <2>1 DEF TargetReason, Candidate
<1>9. Cardinality(chosen) = Len(targets) /\ Len(targets) <= 3
  BY <1>5
<1> QED
  BY <1>6, <1>7, <1>8, <1>9 DEF Balanced, ranked, targets

LEMMA TargetsInv == ModelInv => TargetsBalanced
<1> SUFFICES ASSUME ModelInv, \E s \in Skills : history[s] # <<>>
             PROVE  TargetsBalanced
  BY DEF TargetsBalanced
<1> PICK s \in Skills : history[s] # <<>>
  OBVIOUS
<1> DEFINE metrics == SkillMetrics(history, now)
           T == Members(metrics)
<1>1. profile = Result(metrics, Readiness(metrics), Ranked(metrics))
  BY ProfileIs DEF ModelInv
<1>0. Readiness(metrics).status # "no_data"
  <2>1. PICK i \in 1..Size : ByWeight[i] = s
    BY ByWeightIs
  <2>2. metrics[i] = calculate_skill_metric(s, history[s], now)
    BY <2>1, MetricsAre
  <2>3. metrics[i].count = Len(history[s])
    BY <2>2 DEF calculate_skill_metric, Metric
  <2>4. Observed(history[s], attempts, now)
    BY DEF ModelInv, HistoryInv
  <2>5. Len(history[s]) # 0
    BY <2>4 DEF Observed
  <2>6. i \in DOMAIN metrics
    BY MetricsAre
  <2> HIDE DEF metrics
  <2>7. ~\A k \in DOMAIN metrics : metrics[k].count = 0
    BY <2>3, <2>5, <2>6
  <2> QED
    BY <2>7 DEF Readiness, Status
<1>2. /\ profile.metrics = metrics
      /\ profile.targets = Targets(metrics, Ranked(metrics))
  BY <1>0, <1>1 DEF Result
<1>3. Size \in Nat /\ DOMAIN metrics = 1..Size /\ metrics \in [1..Size -> T]
  <2>1. Size \in Nat
    BY ByWeightIs
  <2>2. DOMAIN metrics = 1..Size /\ metrics = [i \in 1..Size |-> metrics[i]]
    BY MetricsAre
  <2> HIDE DEF metrics
  <2> QED
    BY <2>1, <2>2 DEF Members
<1> HIDE DEF metrics
<1>4. Balanced(Targets(metrics, Ranked(metrics)), T)
  <2>1. Members(metrics) = T
    OBVIOUS
  <2> HIDE DEF T
  <2> QED
    BY <1>3, <2>1, TargetsAre
<1> QED
  BY <1>2, <1>4 DEF TargetsBalanced, Balanced, Members

\* targets of calculate_analytics: however many skills are unknown, weak or faded,
\* the targets differ, fill up to three places, have an unknown skill if there is
\* one, and none that is known, good and fresh.
THEOREM TargetsAreBalanced == Spec => []TargetsBalanced
BY TargetsInv, Invariance, PTL

-----------------------------------------------------------------------------
(* Time. *)

LEMMA PowerOf2Is ==
    /\ \A n \in Nat : PowerOf2[n] \in Nat \ {0}
    /\ \A n \in Nat : PowerOf2[n + 1] = 2 * PowerOf2[n]
<1> DEFINE V == Nat \ {0}
           step == [p \in Nat \X V |-> 2 * p[2]]
           powers(f) == [n \in Nat |-> IF n = 0 THEN 1 ELSE 2 * f[n - 1]]
<1>1. step \in [Nat \X V -> V] /\ \A n \in Nat, x \in V : step[<<n, x>>] = 2 * x
  OBVIOUS
<1> HIDE DEF step
<1>2. PICK g : Recursive(g, V, 1, step)
  <2>1. 1 \in V
    OBVIOUS
  <2>2. step \in [Nat \X V -> V]
    BY <1>1
  <2> HIDE DEF V
  <2> QED
    BY <2>1, <2>2, Recursion
<1>3. g = powers(g)
  <2>1. g = [n \in Nat |-> g[n]]
    BY <1>2 DEF Recursive
  <2>2. ASSUME NEW n \in Nat PROVE g[n] = IF n = 0 THEN 1 ELSE 2 * g[n - 1]
    <3>1. CASE n = 0
      BY <1>2, <3>1 DEF Recursive
    <3>2. CASE n # 0
      <4>1. n - 1 \in Nat /\ n \in Nat \ {0}
        BY <3>2
      <4>2. g[n] = step[<<n, g[n - 1]>>] /\ g[n - 1] \in V
        BY <1>2, <4>1 DEF Recursive
      <4>3. step[<<n, g[n - 1]>>] = 2 * g[n - 1]
        BY <1>1, <4>2
      <4> QED
        BY <3>2, <4>2, <4>3
    <3> QED
      BY <3>1, <3>2
  <2> QED
    BY <2>1, <2>2, Zenon
<1>4. PowerOf2 = CHOOSE f : f = powers(f)
  BY DEF PowerOf2
<1>5. PowerOf2 = powers(PowerOf2)
  <2> HIDE DEF powers
  <2> QED
    BY <1>3, <1>4
<1> DEFINE f == PowerOf2
<1> HIDE DEF f
<1>6. f = [n \in Nat |-> IF n = 0 THEN 1 ELSE 2 * f[n - 1]]
  BY <1>5 DEF f
<1>7. f[0] = 1 /\ \A n \in Nat : f[n + 1] = 2 * f[n]
  <2>1. f[0] = 1
    BY <1>6
  <2>2. ASSUME NEW n \in Nat PROVE f[n + 1] = 2 * f[n]
    <3>1. n + 1 \in Nat /\ n + 1 # 0 /\ (n + 1) - 1 = n
      OBVIOUS
    <3> QED
      BY <1>6, <3>1
  <2> QED
    BY <2>1, <2>2
<1> DEFINE S == {n \in Nat : f[n] \in V}
<1>8. 0 \in S
  BY <1>7
<1>9. \A n \in Nat : n \in S => n + 1 \in S
  BY <1>7
<1> HIDE DEF S
<1>10. Nat \subseteq S
  BY <1>8, <1>9, SetInduction
<1> QED
  BY <1>7, <1>10 DEF S, f

LEMMA ScaleIs == PowerOf2[MaxAge] \in Nat \ {0}
BY BoundsAssumption, PowerOf2Is

\* The weight of what was observed halves in a half-life.
LEMMA RecencyHalves ==
    ASSUME NEW t \in 0..MaxAge, t + 1 \in 0..MaxAge, NEW at \in Nat, at <= t
    PROVE  /\ Recency(at, t) \in Nat /\ Recency(at, t + 1) \in Nat
           /\ Recency(at, t) = 2 * Recency(at, t + 1)
<1> DEFINE n == MaxAge - ((t + 1) - at)
<1>1. n \in Nat /\ MaxAge - (t - at) = n + 1
  BY BoundsAssumption
<1>2. Recency(at, t + 1) = PowerOf2[n] /\ Recency(at, t) = PowerOf2[MaxAge - (t - at)]
  BY DEF Recency
<1> HIDE DEF n
<1>3. PowerOf2[n] \in Nat /\ PowerOf2[n + 1] = 2 * PowerOf2[n]
  BY <1>1, PowerOf2Is
<1>4. Recency(at, t) = PowerOf2[n + 1] /\ Recency(at, t + 1) = PowerOf2[n]
  BY <1>1, <1>2
<1>5. 2 * PowerOf2[n] \in Nat
  BY <1>3
<1> QED
  BY <1>3, <1>4, <1>5

\* What remains to be known, and that it never rises with the evidence.
LEMMA RemainingIs ==
    /\ \A n \in Nat : Remaining[n] \in Nat /\ Remaining[n] <= 200000
    /\ \A n \in Nat : Remaining[n + 1] <= Remaining[n]
<1> DEFINE V == Nat
           top == 200000
           k == Much - 1
           next(x) == (x * k) \div Much
           step == [p \in Nat \X V |-> next(p[2])]
           rest(f) == [n \in Nat |-> IF n = 0 THEN top ELSE next(f[n - 1])]
<1>1. Much \in Nat \ {0} /\ k \in Nat /\ k <= Much
  BY ScaleIs DEF Much
<1> HIDE DEF k
<1>2. ASSUME NEW x \in Nat PROVE next(x) \in Nat /\ next(x) <= x
  <2>1. x * k \in Nat
    BY <1>1, TimesNat
  <2>2. x * k <= Much * x
    <3>1. x * k <= x * Much
      BY <1>1, TimesMonotone
    <3>2. x * Much = Much * x
      BY <1>1
    <3> QED
      BY <3>1, <3>2
  <2> DEFINE y == x * k
  <2> HIDE DEF y
  <2>3. y \in Nat /\ y \in Int /\ y <= Much * x
    BY <2>1, <2>2 DEF y
  <2>4. y \div Much \in Nat /\ y \div Much <= x
    BY <1>1, <2>3, QuotientNat, QuotientBound
  <2> QED
    BY <2>4 DEF y
<1> HIDE DEF next
<1>3. step \in [Nat \X V -> V] /\ \A n \in Nat, x \in V : step[<<n, x>>] = next(x)
  BY <1>2
<1> HIDE DEF step
<1>4. top \in Nat
  OBVIOUS
<1> HIDE DEF top
<1>5. PICK g : Recursive(g, V, top, step)
  <2>1. top \in V
    BY <1>4
  <2>2. step \in [Nat \X V -> V]
    BY <1>3
  <2> HIDE DEF V
  <2> QED
    BY <2>1, <2>2, Recursion
<1>6. g = rest(g)
  <2>1. g = [n \in Nat |-> g[n]]
    BY <1>5 DEF Recursive
  <2>2. ASSUME NEW n \in Nat PROVE g[n] = IF n = 0 THEN top ELSE next(g[n - 1])
    <3>1. CASE n = 0
      BY <1>5, <3>1 DEF Recursive
    <3>2. CASE n # 0
      <4>1. n - 1 \in Nat /\ n \in Nat \ {0}
        BY <3>2
      <4>2. g[n] = step[<<n, g[n - 1]>>] /\ g[n - 1] \in V
        BY <1>5, <4>1 DEF Recursive
      <4>3. step[<<n, g[n - 1]>>] = next(g[n - 1])
        BY <1>3, <4>2
      <4> QED
        BY <3>2, <4>2, <4>3
    <3> QED
      BY <3>1, <3>2
  <2> QED
    BY <2>1, <2>2, Zenon
<1>7. Remaining = CHOOSE f : f = rest(f)
  BY SMT DEF Remaining, next, k, top
<1>8. Remaining = rest(Remaining)
  <2> HIDE DEF rest
  <2> QED
    BY <1>6, <1>7
<1> DEFINE f == Remaining
<1> HIDE DEF f
<1>9. f = [n \in Nat |-> IF n = 0 THEN top ELSE next(f[n - 1])]
  BY <1>8 DEF f
<1>10. f[0] = top /\ \A n \in Nat : f[n + 1] = next(f[n])
  <2>1. f[0] = top
    BY <1>9
  <2>2. ASSUME NEW n \in Nat PROVE f[n + 1] = next(f[n])
    <3>1. n + 1 \in Nat /\ n + 1 # 0 /\ (n + 1) - 1 = n
      OBVIOUS
    <3> QED
      BY <1>9, <3>1
  <2> QED
    BY <2>1, <2>2
<1> DEFINE S == {n \in Nat : f[n] \in Nat /\ f[n] <= top}
<1>11. 0 \in S
  BY <1>4, <1>10
<1>12. ASSUME NEW n \in Nat, n \in S PROVE n + 1 \in S
  <2>1. f[n] \in Nat /\ f[n] <= top
    BY <1>12
  <2>2. f[n + 1] \in Nat /\ f[n + 1] <= f[n]
    BY <1>2, <1>10, <2>1
  <2> QED
    BY <1>4, <2>1, <2>2
<1> HIDE DEF S
<1>13. Nat \subseteq S
  BY <1>11, <1>12, SetInduction
<1>14. \A n \in Nat : f[n] \in Nat /\ f[n] <= top
  BY <1>13 DEF S
<1>15. \A n \in Nat : f[n + 1] <= f[n]
  BY <1>2, <1>10, <1>14
<1> QED
  BY <1>14, <1>15 DEF f, top

LEMMA RemainingFalls ==
    ASSUME NEW n \in Nat, NEW m \in Nat, n <= m
    PROVE  Remaining[m] <= Remaining[n]
<1> DEFINE S == {d \in Nat : Remaining[n + d] <= Remaining[n]}
<1>1. 0 \in S
  BY RemainingIs
<1>2. ASSUME NEW d \in Nat, d \in S PROVE d + 1 \in S
  <2>1. n + d \in Nat /\ (n + d) + 1 = n + (d + 1) /\ n + (d + 1) \in Nat
    OBVIOUS
  <2>2. Remaining[n + (d + 1)] <= Remaining[n + d] /\ Remaining[n + d] <= Remaining[n]
    BY <1>2, <2>1, RemainingIs
  <2>3. /\ Remaining[n + (d + 1)] \in Int /\ Remaining[n + d] \in Int /\ Remaining[n] \in Int
    BY <2>1, RemainingIs
  <2> QED
    BY <2>2, <2>3
<1> HIDE DEF S
<1>3. Nat \subseteq S
  BY <1>1, <1>2, SetInduction
<1>4. m - n \in Nat /\ n + (m - n) = m
  OBVIOUS
<1> QED
  BY <1>3, <1>4 DEF S

\* The number that SquareRoot chooses is there.
LEMMA SquareRootIs ==
    ASSUME NEW v \in Nat, v <= 10000
    PROVE  SquareRoot(v) \in 0..100
<1> DEFINE above(r) == v < (r + 1) * (r + 1)
           S == {r \in Nat : above(r)}
<1>1. 100 \in S
  OBVIOUS
<1>2. PICK m \in S : \A n \in S : m <= n
  <2>1. S \in SUBSET Nat /\ S # {}
    <3> HIDE DEF above
    <3> QED
      BY <1>1
  <2> HIDE DEF S
  <2> QED
    BY <2>1, LeastNat
<1>3. m \in 0..100
  BY <1>1, <1>2
<1>4. m * m <= v
  <2>1. CASE m = 0
    BY <2>1
  <2>2. CASE m # 0
    <3>1. m - 1 \in Nat /\ (m - 1) + 1 = m /\ ~(m <= m - 1)
      BY <1>3, <2>2
    <3>2. m - 1 \notin S
      BY <1>2, <3>1
    <3>3. ~(v < m * m)
      BY <3>1, <3>2
    <3>4. m * m \in Int
      BY <1>3
    <3> QED
      BY <3>3, <3>4
  <2> QED
    BY <2>1, <2>2
<1>5. \E r \in 0..100 : r * r <= v /\ v < (r + 1) * (r + 1)
  BY <1>2, <1>3, <1>4
<1> QED
  BY <1>5 DEF SquareRoot

\* What the answers of a skill weigh.
LEMMA ObservedWeights ==
    ASSUME NEW obs, NEW n, NEW t \in 0..MaxAge, t + 1 \in 0..MaxAge, Observed(obs, n, t)
    PROVE  /\ Len(obs) \in Nat
           /\ Scores(obs) \in [1..Len(obs) -> Nat]
           /\ \A i \in 1..Len(obs) : Scores(obs)[i] <= 100
           /\ Weights(obs, t) \in [1..Len(obs) -> Nat]
           /\ Weights(obs, t + 1) \in [1..Len(obs) -> Nat]
           /\ \A i \in 1..Len(obs) : Weights(obs, t)[i] = 2 * Weights(obs, t + 1)[i]
           /\ Effective(obs, t) \in Nat /\ Effective(obs, t + 1) \in Nat
           /\ Effective(obs, t + 1) <= Effective(obs, t)
<1> DEFINE m == Len(obs)
           sure(i) == Evaluator(obs[i]) \div 5
           fresh(i, u) == Recency(obs[i].at, u)
<1>1. /\ m \in Nat /\ DOMAIN obs = 1..m
      /\ \A i \in 1..m : obs[i].at \in Nat /\ obs[i].answer \in Answer
      /\ \A i \in 1..m : obs[i].at <= t
  BY ObservedType DEF Observed
<1>2. ASSUME NEW i \in 1..m
      PROVE  /\ Share(obs[i]) \in Nat /\ sure(i) \in Nat
             /\ difficulty_adjusted_score(obs[i]) \in Nat
             /\ difficulty_adjusted_score(obs[i]) <= 100
  <2> DEFINE o == obs[i]
  <2>1. o.answer \in Answer
    BY <1>1
  <2> HIDE DEF o
  <2>2. /\ Share(o) \in Nat \ {0} /\ Evaluator(o) \in 25..100
        /\ difficulty_adjusted_score(o) \in 0..100
    BY <2>1, EvidenceIs
  <2> DEFINE e == Evaluator(o)
             d == difficulty_adjusted_score(o)
  <2> HIDE DEF e, d
  <2>3. e \in 25..100 /\ d \in 0..100 /\ Share(o) \in Nat
    BY <2>2, Zenon DEF e, d
  <2>5. e \in Nat /\ d \in Nat /\ d <= 100
    BY <2>3
  <2>4. e \div 5 \in Nat
    <3>1. 5 \in Nat \ {0}
      OBVIOUS
    <3> QED
      BY <2>5, <3>1, QuotientNat
  <2> QED
    BY <2>3, <2>4, <2>5 DEF e, d, o
<1>3. ASSUME NEW i \in 1..m
      PROVE  /\ fresh(i, t) \in Nat /\ fresh(i, t + 1) \in Nat
             /\ fresh(i, t) = 2 * fresh(i, t + 1)
  <2>1. obs[i].at \in Nat /\ obs[i].at <= t
    BY <1>1
  <2> QED
    BY <2>1, RecencyHalves
<1> HIDE DEF sure, fresh
<1>4. /\ Scores(obs) \in [1..m -> Nat]
      /\ \A i \in 1..m : Scores(obs)[i] <= 100
  BY <1>1, <1>2 DEF Scores
<1>5. ASSUME NEW i \in 1..m
      PROVE  /\ Share(obs[i]) * sure(i) * fresh(i, t) \in Nat
             /\ Share(obs[i]) * sure(i) * fresh(i, t + 1) \in Nat
             /\ Share(obs[i]) * sure(i) * fresh(i, t)
                  = 2 * (Share(obs[i]) * sure(i) * fresh(i, t + 1))
             /\ sure(i) * fresh(i, t) \in Nat /\ sure(i) * fresh(i, t + 1) \in Nat
             /\ sure(i) * fresh(i, t) = 2 * (sure(i) * fresh(i, t + 1))
  <2> DEFINE c == Share(obs[i]) * sure(i)
             x == fresh(i, t)
             y == fresh(i, t + 1)
  <2>1. c \in Nat /\ sure(i) \in Nat /\ x \in Nat /\ y \in Nat /\ x = 2 * y
    BY <1>2, <1>3, TimesNat
  <2> HIDE DEF c, x, y
  <2>2. \A a \in Nat : a * (2 * y) = 2 * (a * y)
    BY <2>1
  <2>3. /\ c * x \in Nat /\ c * y \in Nat /\ c * x = 2 * (c * y)
        /\ sure(i) * x \in Nat /\ sure(i) * y \in Nat /\ sure(i) * x = 2 * (sure(i) * y)
    BY <2>1, <2>2, TimesNat
  <2> QED
    BY <2>3 DEF c, x, y
<1>6. \A u : /\ Weights(obs, u) = [i \in 1..m |-> Share(obs[i]) * sure(i) * fresh(i, u)]
             /\ Effective(obs, u) = Sum([i \in 1..m |-> sure(i) * fresh(i, u)]) \div 5
  BY <1>1, Zenon DEF Weights, Effective, sure, fresh
<1>7. /\ Weights(obs, t) \in [1..m -> Nat] /\ Weights(obs, t + 1) \in [1..m -> Nat]
      /\ \A i \in 1..m : Weights(obs, t)[i] = 2 * Weights(obs, t + 1)[i]
  <2>1. Weights(obs, t) = [i \in 1..m |-> Share(obs[i]) * sure(i) * fresh(i, t)]
    BY <1>6
  <2>2. Weights(obs, t + 1) = [i \in 1..m |-> Share(obs[i]) * sure(i) * fresh(i, t + 1)]
    BY <1>6
  <2> QED
    BY <1>5, <2>1, <2>2
<1> DEFINE now_ == [i \in 1..m |-> sure(i) * fresh(i, t)]
           then_ == [i \in 1..m |-> sure(i) * fresh(i, t + 1)]
<1>8. /\ now_ \in [1..m -> Nat] /\ then_ \in [1..m -> Nat]
      /\ \A i \in 1..m : now_[i] = 2 * then_[i]
  BY <1>5
<1>9. /\ Effective(obs, t) = Sum(now_) \div 5
      /\ Effective(obs, t + 1) = Sum(then_) \div 5
  BY <1>6
<1> HIDE DEF now_, then_, m
<1>10. Sum(now_) \in Nat /\ Sum(then_) \in Nat /\ Sum(now_) = 2 * Sum(then_)
  <2>1. now_ \in [1..m -> Int] /\ then_ \in [1..m -> Int] /\ 2 \in Int
    BY <1>8
  <2> QED
    BY <1>1, <1>8, <2>1, SumNat, SumScaled
<1>11. /\ Effective(obs, t) \in Nat /\ Effective(obs, t + 1) \in Nat
       /\ Effective(obs, t + 1) <= Effective(obs, t)
  <2> DEFINE x == Sum(now_)
             y == Sum(then_)
  <2>1. x \in Nat /\ y \in Nat /\ x \in Int /\ y \in Int /\ y <= x
    BY <1>10
  <2>2. 5 \in Nat \ {0}
    OBVIOUS
  <2> HIDE DEF x, y
  <2>3. x \div 5 \in Nat /\ y \div 5 \in Nat /\ y \div 5 <= x \div 5
    BY <2>1, <2>2, QuotientNat, QuotientMonotone
  <2> QED
    BY <1>9, <2>3 DEF x, y
<1> QED
  BY <1>1, <1>4, <1>7, <1>11 DEF m

\* Values up to a limit; and weights, before and after they are halved.
Values(values, n, limit) ==
  values \in [1..n -> Nat] /\ \A i \in 1..n : values[i] <= limit
Halved(double, weights, n) ==
  /\ double \in [1..n -> Nat] /\ weights \in [1..n -> Nat]
  /\ \A i \in 1..n : double[i] = 2 * weights[i]

LEMMA AverageKeeps ==
    ASSUME NEW n \in Nat, NEW limit \in Nat, NEW values, Values(values, n, limit),
           NEW weights, NEW double, Halved(double, weights, n)
    PROVE  /\ WeightedAverage(values, double) = WeightedAverage(values, weights)
           /\ WeightedAverage(values, weights) \in Nat
           /\ WeightedAverage(values, weights) <= 100 * limit
<1>1. WeightedAverage(values, double) = WeightedAverage(values, weights)
  BY AverageHalved DEF Values, Halved
<1>2. /\ WeightedAverage(values, weights) \in Nat
      /\ WeightedAverage(values, weights) <= 100 * limit
  BY AverageIs DEF Values, Halved
<1> QED
  BY <1>1, <1>2

\* The same scores deviate from their average as they did.
LEMMA ConsistencyIs ==
    ASSUME NEW n \in Nat, NEW scores, Values(scores, n, 100),
           NEW weights, NEW double, Halved(double, weights, n),
           NEW mastery \in Nat, mastery <= 10000
    PROVE  /\ Consistency(scores, double, mastery) = Consistency(scores, weights, mastery)
           /\ Consistency(scores, weights, mastery) \in 0..100
<1> DEFINE k == mastery \div 100
           squares == [i \in 1..n |-> Square(scores[i] - k)]
<1>1. k \in 0..100
  <2>1. 100 \in Nat \ {0} /\ mastery \in Int /\ mastery <= 100 * 100 /\ 100 \in Int
    OBVIOUS
  <2>2. k \in Nat /\ k <= 100
    BY <2>1, QuotientNat, QuotientBound
  <2> HIDE DEF k
  <2> QED
    BY <2>2
<1> HIDE DEF k
<1>2. ASSUME NEW x \in Int, -100 <= x, x <= 100 PROVE x * x \in Nat /\ x * x <= 10000
  <2>1. CASE x >= 0
    <3>1. x \in Nat /\ x <= 100 /\ 100 \in Int /\ 100 \in Nat
      BY <1>2, <2>1
    <3>2. x * x <= 100 * x /\ x * x \in Nat
      BY <3>1, TimesMonotone, TimesNat
    <3> QED
      BY <3>1, <3>2
  <2>2. CASE x < 0
    <3> DEFINE y == -x
    <3>1. y \in Nat /\ y <= 100 /\ 100 \in Int /\ x * x = y * y
      BY <1>2, <2>2
    <3> HIDE DEF y
    <3>2. y * y <= 100 * y /\ y * y \in Nat
      BY <3>1, TimesMonotone, TimesNat
    <3> QED
      BY <3>1, <3>2
  <2> QED
    BY <2>1, <2>2
<1>3. Values(squares, n, 10000)
  <2>1. ASSUME NEW i \in 1..n
        PROVE  Square(scores[i] - k) \in Nat /\ Square(scores[i] - k) <= 10000
    <3> DEFINE x == scores[i] - k
    <3>1. scores[i] \in Nat /\ scores[i] <= 100
      BY DEF Values
    <3>2. x \in Int /\ -100 <= x /\ x <= 100
      BY <1>1, <3>1
    <3> HIDE DEF x
    <3>3. Square(x) \in Nat /\ Square(x) <= 10000
      BY <1>2, <3>2 DEF Square
    <3> QED
      BY <3>3 DEF x
  <2> QED
    BY <2>1 DEF Values
<1>4. Len(scores) = n /\ DOMAIN scores = 1..n
  BY DEF Values
<1>5. \A w : Deviation(scores, w, mastery) = SquareRoot(WeightedAverage(squares, w) \div 100)
  BY <1>4 DEF Deviation, k
<1> HIDE DEF squares
<1>6. /\ WeightedAverage(squares, double) = WeightedAverage(squares, weights)
      /\ WeightedAverage(squares, weights) \in Nat
      /\ WeightedAverage(squares, weights) <= 100 * 10000
  <2>1. 10000 \in Nat
    OBVIOUS
  <2> QED
    BY <1>3, <2>1, AverageKeeps
<1>7. Deviation(scores, double, mastery) = Deviation(scores, weights, mastery)
  BY <1>5, <1>6
<1>8. Deviation(scores, weights, mastery) \in 0..100
  <2> DEFINE average == WeightedAverage(squares, weights)
  <2>2. average \in Nat /\ average <= 100 * 10000
    BY <1>6
  <2> HIDE DEF average
  <2>3. 100 \in Nat \ {0} /\ average \in Int /\ 10000 \in Int
    BY <2>2
  <2>4. average \div 100 \in Nat /\ average \div 100 <= 10000
    BY <2>2, <2>3, QuotientNat, QuotientBound
  <2> DEFINE v == average \div 100
  <2> HIDE DEF v
  <2>6. v \in Nat /\ v <= 10000
    BY <2>4 DEF v
  <2>5. SquareRoot(v) \in 0..100
    BY <2>6, SquareRootIs
  <2>7. Deviation(scores, weights, mastery) = SquareRoot(v)
    BY <1>5 DEF v, average
  <2> QED
    BY <2>5, <2>7
<1> DEFINE d == Deviation(scores, weights, mastery)
<1> HIDE DEF d
<1>9. Consistency(scores, double, mastery) = IF n < 2 THEN 50 ELSE 100 - Least(2 * d, 100)
  BY <1>4, <1>7 DEF Consistency, d
<1>10. Consistency(scores, weights, mastery) = IF n < 2 THEN 50 ELSE 100 - Least(2 * d, 100)
  BY <1>4 DEF Consistency, d
<1>11. d \in 0..100
  BY <1>8 DEF d
<1>12. Least(2 * d, 100) \in 0..100
  BY <1>11 DEF Least
<1> DEFINE l == Least(2 * d, 100)
<1> HIDE DEF l
<1>13. l \in 0..100 /\ 50 \in 0..100 /\ 100 - l \in 0..100
  BY <1>12 DEF l
<1> QED
  BY <1>9, <1>10, <1>13 DEF l

\* Less evidence, seen longer ago, is never more confidence.
LEMMA ConfidenceFalls ==
    ASSUME NEW coverage \in Nat, NEW less \in Nat, less <= coverage,
           NEW consistency \in 0..100,
           NEW freshness \in Nat, NEW older \in Nat, older <= freshness
    PROVE  /\ Confidence(coverage, consistency, freshness) \in Nat
           /\ Confidence(less, consistency, older) \in Nat
           /\ Confidence(less, consistency, older)
                <= Confidence(coverage, consistency, freshness)
<1> DEFINE P == PowerOf2[MaxAge]
           scale == 100 * P
           k == 6000 + 40 * consistency
           x(c) == (c * k) \div 10000
           y(f) == 70 * P + 30 * f
<1>1. P \in Nat \ {0}
  BY ScaleIs
<1> HIDE DEF P
<1>2. scale \in Nat \ {0} /\ k \in Nat /\ 10000 \in Nat \ {0}
  BY <1>1
<1> HIDE DEF k
<1>3. /\ x(coverage) \in Nat /\ x(less) \in Nat /\ x(less) <= x(coverage)
  <2>1. less \in Nat /\ coverage \in Nat /\ less \in Int /\ coverage \in Int
    OBVIOUS
  <2>2. less * k <= coverage * k /\ less * k \in Nat /\ coverage * k \in Nat
    BY <1>2, <2>1, TimesMonotone, TimesNat
  <2> DEFINE a == less * k
             b == coverage * k
  <2>3. a \in Nat /\ b \in Nat /\ a \in Int /\ b \in Int /\ a <= b
    BY <2>2
  <2> HIDE DEF a, b
  <2>4. a \div 10000 \in Nat /\ b \div 10000 \in Nat /\ a \div 10000 <= b \div 10000
    BY <1>2, <2>3, QuotientNat, QuotientMonotone
  <2> QED
    BY <2>4 DEF a, b
<1>4. y(freshness) \in Nat /\ y(older) \in Nat /\ y(older) <= y(freshness)
  BY <1>1
<1>5. /\ Confidence(coverage, consistency, freshness) = (x(coverage) * y(freshness)) \div scale
      /\ Confidence(less, consistency, older) = (x(less) * y(older)) \div scale
  BY DEF Confidence, P, k
<1> HIDE DEF x, y, scale
<1>6. /\ x(coverage) * y(freshness) \in Nat /\ x(less) * y(older) \in Nat
      /\ x(less) * y(older) <= x(coverage) * y(freshness)
  <2> DEFINE a == x(less)
             b == x(coverage)
             c == y(older)
             d == y(freshness)
  <2>1. /\ a \in Nat /\ b \in Nat /\ c \in Nat /\ d \in Nat /\ a <= b /\ c <= d
        /\ a \in Int /\ b \in Int /\ c \in Int /\ d \in Int
    BY <1>3, <1>4
  <2> HIDE DEF a, b, c, d
  <2>2. a * c <= b * c /\ b * c <= b * d
    BY <2>1, TimesMonotone
  <2>3. a * c \in Nat /\ b * c \in Nat /\ b * d \in Nat
    BY <2>1, TimesNat
  <2>4. a * c <= b * d
    BY <2>2, <2>3
  <2> QED
    BY <2>3, <2>4 DEF a, b, c, d
<1> DEFINE p == x(less) * y(older)
           q == x(coverage) * y(freshness)
<1>7. p \in Nat /\ q \in Nat /\ p \in Int /\ q \in Int /\ p <= q
  BY <1>6
<1> HIDE DEF p, q
<1>8. p \div scale \in Nat /\ q \div scale \in Nat /\ p \div scale <= q \div scale
  BY <1>2, <1>7, QuotientNat, QuotientMonotone
<1> QED
  BY <1>5, <1>8 DEF p, q

\* What a metric is made of.
Mastery(obs, u) == WeightedAverage(Scores(obs), Weights(obs, u))
Agreement(obs, u) == Consistency(Scores(obs), Weights(obs, u), Mastery(obs, u))
Coverage(obs, u) == 10000 - Remaining[Effective(obs, u)] \div 20
Freshness(obs, u) == Recency(obs[Len(obs)].at, u)

LEMMA MasteryStays ==
    ASSUME NEW obs, NEW n, NEW t \in 0..MaxAge, t + 1 \in 0..MaxAge, Observed(obs, n, t)
    PROVE  /\ Mastery(obs, t) = Mastery(obs, t + 1)
           /\ Mastery(obs, t + 1) \in Nat /\ Mastery(obs, t + 1) <= 10000
           /\ Agreement(obs, t) = Agreement(obs, t + 1)
           /\ Agreement(obs, t + 1) \in 0..100
<1> DEFINE m == Len(obs)
           scores == Scores(obs)
           weights == Weights(obs, t + 1)
           double == Weights(obs, t)
           v == Mastery(obs, t + 1)
<1>1. m \in Nat /\ Values(scores, m, 100) /\ Halved(double, weights, m)
  BY ObservedWeights DEF Values, Halved
<1>2. Mastery(obs, t) = WeightedAverage(scores, double) /\ v = WeightedAverage(scores, weights)
  BY DEF Mastery
<1>3. /\ Agreement(obs, t) = Consistency(scores, double, Mastery(obs, t))
      /\ Agreement(obs, t + 1) = Consistency(scores, weights, v)
  BY DEF Agreement
<1> HIDE DEF m, scores, weights, double, v
<1>4. /\ WeightedAverage(scores, double) = WeightedAverage(scores, weights)
      /\ WeightedAverage(scores, weights) \in Nat
      /\ WeightedAverage(scores, weights) <= 100 * 100
  <2>1. 100 \in Nat
    OBVIOUS
  <2> QED
    BY <1>1, <2>1, AverageKeeps
<1>5. v \in Nat /\ v <= 10000 /\ Mastery(obs, t) = v
  BY <1>2, <1>4
<1>6. /\ Consistency(scores, double, v) = Consistency(scores, weights, v)
      /\ Consistency(scores, weights, v) \in 0..100
  BY <1>1, <1>5, ConsistencyIs
<1> QED
  BY <1>3, <1>5, <1>6 DEF v

LEMMA CoverageFalls ==
    ASSUME NEW obs, NEW n, NEW t \in 0..MaxAge, t + 1 \in 0..MaxAge, Observed(obs, n, t)
    PROVE  /\ Coverage(obs, t) \in Nat /\ Coverage(obs, t + 1) \in Nat
           /\ Coverage(obs, t + 1) <= Coverage(obs, t)
<1> DEFINE a == Effective(obs, t)
           b == Effective(obs, t + 1)
           p == Remaining[a]
           q == Remaining[b]
           x == p \div 20
           y == q \div 20
<1>1. a \in Nat /\ b \in Nat /\ b <= a
  BY ObservedWeights
<1>2. Coverage(obs, t) = 10000 - x /\ Coverage(obs, t + 1) = 10000 - y
  BY DEF Coverage
<1> HIDE DEF a, b, x, y
<1>3. p \in Nat /\ p <= 200000 /\ q \in Nat /\ q <= 200000
  BY <1>1, RemainingIs
<1>4. p <= q
  BY <1>1, RemainingFalls
<1> HIDE DEF p, q
<1>5. 20 \in Nat \ {0} /\ 10000 \in Int /\ 20 * 10000 = 200000
  OBVIOUS
<1>6. p \in Nat /\ p \in Int /\ p <= 20 * 10000
  BY <1>3, <1>5
<1>7. q \in Nat /\ q \in Int /\ q <= 20 * 10000
  BY <1>3, <1>5
<1>8. x \in Nat /\ x <= 10000
  BY <1>5, <1>6, QuotientNat, QuotientBound DEF x
<1>9. y \in Nat /\ y <= 10000
  BY <1>5, <1>7, QuotientNat, QuotientBound DEF y
<1>10. x <= y
  BY <1>4, <1>5, <1>6, <1>7, QuotientMonotone DEF x, y
<1> QED
  BY <1>2, <1>8, <1>9, <1>10

LEMMA FreshnessFalls ==
    ASSUME NEW obs, NEW n, NEW t \in 0..MaxAge, t + 1 \in 0..MaxAge, Observed(obs, n, t),
           obs # <<>>
    PROVE  /\ Freshness(obs, t) \in Nat /\ Freshness(obs, t + 1) \in Nat
           /\ Freshness(obs, t + 1) <= Freshness(obs, t)
<1> DEFINE at == obs[Len(obs)].at
<1>1. Len(obs) \in 1..Len(obs)
  <2>1. obs \in Seq(Observation)
    BY DEF Observed
  <2> QED
    BY <2>1
<1>2. at \in Nat /\ at <= t
  BY <1>1, ObservedType DEF Observed
<1>3. Freshness(obs, t) = Recency(at, t) /\ Freshness(obs, t + 1) = Recency(at, t + 1)
  BY DEF Freshness
<1> HIDE DEF at
<1>4. /\ Recency(at, t) \in Nat /\ Recency(at, t + 1) \in Nat
      /\ Recency(at, t) = 2 * Recency(at, t + 1)
  BY <1>2, RecencyHalves
<1> QED
  BY <1>3, <1>4

\* A metric b is what a becomes without an attempt.
Aged(b, a) ==
  /\ b.skill = a.skill /\ b.skill \in Skills /\ b.count = a.count
  /\ b.mastery = a.mastery /\ b.mastery \in Int
  /\ a.confidence \in Nat /\ b.confidence \in Nat /\ b.confidence <= a.confidence

LEMMA MetricIs ==
    ASSUME NEW s, NEW obs, NEW u, obs # <<>>
    PROVE  LET metric == calculate_skill_metric(s, obs, u)
           IN /\ metric.skill = s /\ metric.count = Len(obs)
              /\ metric.mastery = Mastery(obs, u)
              /\ metric.confidence
                   = Confidence(Coverage(obs, u), Agreement(obs, u), Freshness(obs, u))
<1> DEFINE scores == Scores(obs)
           weights == Weights(obs, u)
           mastery == Mastery(obs, u)
<1>1. calculate_skill_metric(s, obs, u) = Metric(s, obs, u, scores, weights, mastery)
  BY DEF calculate_skill_metric, Mastery
<1>2. Agreement(obs, u) = Consistency(scores, weights, mastery)
  BY DEF Agreement
<1> HIDE DEF scores, weights, mastery
<1>3. /\ Metric(s, obs, u, scores, weights, mastery).skill = s
      /\ Metric(s, obs, u, scores, weights, mastery).count = Len(obs)
      /\ Metric(s, obs, u, scores, weights, mastery).mastery = mastery
      /\ Metric(s, obs, u, scores, weights, mastery).confidence
           = Confidence(Coverage(obs, u), Consistency(scores, weights, mastery),
                        Freshness(obs, u))
  BY DEF Metric, Coverage, Freshness
<1> QED
  BY <1>1, <1>2, <1>3 DEF mastery

LEMMA MetricWaits ==
    ASSUME NEW s \in Skills, NEW obs, NEW n, NEW t \in 0..MaxAge, t + 1 \in 0..MaxAge,
           Observed(obs, n, t)
    PROVE  Aged(calculate_skill_metric(s, obs, t + 1), calculate_skill_metric(s, obs, t))
<1> DEFINE before == calculate_skill_metric(s, obs, t)
           after == calculate_skill_metric(s, obs, t + 1)
<1>1. CASE obs = <<>>
  <2>1. before = Unobserved(s) /\ after = Unobserved(s)
    BY <1>1 DEF calculate_skill_metric
  <2>2. Aged(Unobserved(s), Unobserved(s))
    BY DEF Aged, Unobserved, NoEvidence
  <2> QED
    BY <2>1, <2>2
<1>2. CASE obs # <<>>
  <2> DEFINE c == Agreement(obs, t + 1)
             x == Coverage(obs, t)
             y == Coverage(obs, t + 1)
             f == Freshness(obs, t)
             g == Freshness(obs, t + 1)
             v == Mastery(obs, t + 1)
  <2>1. v \in Nat /\ c \in 0..100 /\ Mastery(obs, t) = v /\ Agreement(obs, t) = c
    BY MasteryStays
  <2>2. x \in Nat /\ y \in Nat /\ y <= x
    BY CoverageFalls
  <2>3. f \in Nat /\ g \in Nat /\ g <= f
    BY <1>2, FreshnessFalls
  <2>4. /\ before.skill = s /\ before.count = Len(obs) /\ before.mastery = v
        /\ before.confidence = Confidence(x, c, f)
    BY <1>2, <2>1, MetricIs
  <2>5. /\ after.skill = s /\ after.count = Len(obs) /\ after.mastery = v
        /\ after.confidence = Confidence(y, c, g)
    BY <1>2, <2>1, MetricIs
  <2> HIDE DEF c, x, y, f, g, v, before, after
  <2>6. /\ Confidence(x, c, f) \in Nat /\ Confidence(y, c, g) \in Nat
        /\ Confidence(y, c, g) <= Confidence(x, c, f)
    BY <2>1, <2>2, <2>3, ConfidenceFalls
  <2>7. v \in Int
    BY <2>1
  <2>8. Aged(after, before)
    BY <2>4, <2>5, <2>6, <2>7 DEF Aged
  <2> QED
    BY <2>8 DEF before, after
<1> QED
  BY <1>1, <1>2

\* A weighted sum of the skills does not rise if none of its values does.
LEMMA OverallFalls ==
    ASSUME NEW n \in Nat, NEW after, NEW before,
           DOMAIN after = 1..n, DOMAIN before = 1..n,
           \A i \in 1..n : Aged(after[i], before[i]),
           NEW less \in [1..n -> Int], NEW values \in [1..n -> Int],
           \A i \in 1..n : less[i] <= values[i]
    PROVE  /\ Overall(after, less) \in Int /\ Overall(before, values) \in Int
           /\ Overall(after, less) <= Overall(before, values)
<1> DEFINE weight(i) == Weight[before[i].skill]
           a == [i \in 1..n |-> less[i] * weight(i)]
           b == [i \in 1..n |-> values[i] * weight(i)]
<1>1. ASSUME NEW i \in 1..n
      PROVE  weight(i) \in Nat /\ Weight[after[i].skill] = weight(i)
  <2>1. before[i].skill \in Skills /\ after[i].skill = before[i].skill
    BY DEF Aged
  <2>2. Weight[before[i].skill] \in 0..100
    BY <2>1, BlueprintAssumption
  <2>3. \A x \in 0..100 : x \in Nat
    OBVIOUS
  <2> QED
    BY <2>1, <2>2, <2>3, Zenon
<1>2. Overall(after, less) = Sum(a) \div 100 /\ Overall(before, values) = Sum(b) \div 100
  <2>1. [i \in 1..n |-> less[i] * Weight[after[i].skill]] = a
    BY <1>1
  <2>2. [i \in 1..n |-> values[i] * Weight[before[i].skill]] = b
    OBVIOUS
  <2> HIDE DEF a, b
  <2> QED
    BY <2>1, <2>2 DEF Overall
<1> HIDE DEF weight
<1>3. ASSUME NEW i \in 1..n
      PROVE  /\ less[i] * weight(i) \in Int /\ values[i] * weight(i) \in Int
             /\ less[i] * weight(i) <= values[i] * weight(i)
  <2> DEFINE x == less[i]
             y == values[i]
             w == weight(i)
  <2>1. x \in Int /\ y \in Int /\ x <= y /\ w \in Nat
    BY <1>1
  <2> HIDE DEF x, y, w
  <2>2. x * w \in Int /\ y * w \in Int /\ x * w <= y * w
    BY <2>1, TimesMonotone
  <2> QED
    BY <2>2 DEF x, y, w
<1>4. a \in [1..n -> Int] /\ b \in [1..n -> Int] /\ \A i \in 1..n : a[i] <= b[i]
  BY <1>3
<1> HIDE DEF a, b
<1>5. Sum(a) \in Int /\ Sum(b) \in Int /\ Sum(a) <= Sum(b)
  BY <1>4, SumMonotone
<1> DEFINE p == Sum(a)
           q == Sum(b)
<1> HIDE DEF p, q
<1>6. p \in Int /\ q \in Int /\ p <= q /\ 100 \in Nat \ {0}
  BY <1>5 DEF p, q
<1>7. p \div 100 \in Int /\ q \div 100 \in Int /\ p \div 100 <= q \div 100
  BY <1>6, Quotient, QuotientMonotone
<1> QED
  BY <1>2, <1>7 DEF p, q

LEMMA IndexFalls ==
    ASSUME NEW raw \in Int, NEW less \in Int, NEW confidence \in Int, less <= confidence
    PROVE  Index(raw, less) <= Index(raw, confidence)
<1> DEFINE a == (10000 - less) * 15
           b == (10000 - confidence) * 15
<1>1. a \in Int /\ b \in Int /\ b <= a /\ 100 \in Nat \ {0}
  OBVIOUS
<1> HIDE DEF a, b
<1>2. a \div 100 \in Int /\ b \div 100 \in Int /\ b \div 100 <= a \div 100
  BY <1>1, Quotient, QuotientMonotone
<1> DEFINE x == a \div 100
           y == b \div 100
<1>3. /\ Index(raw, less) = Clamp(raw - x, 0, 10000)
      /\ Index(raw, confidence) = Clamp(raw - y, 0, 10000)
  BY DEF Index, a, b
<1> HIDE DEF x, y
<1>4. x \in Int /\ y \in Int /\ y <= x
  BY <1>2 DEF x, y
<1>5. Clamp(raw - x, 0, 10000) <= Clamp(raw - y, 0, 10000)
  BY <1>4 DEF Clamp, Least
<1> QED
  BY <1>3, <1>5

LEMMA ReadinessFalls ==
    ASSUME NEW n \in Nat, NEW after, NEW before,
           DOMAIN after = 1..n, DOMAIN before = 1..n,
           \A i \in 1..n : Aged(after[i], before[i])
    PROVE  Readiness(after).index <= Readiness(before).index
<1> DEFINE sure(metrics) == [i \in 1..n |-> metrics[i].confidence]
           good(metrics) == [i \in 1..n |-> Estimate(metrics[i])]
           none(metrics) == \A i \in 1..n : metrics[i].count = 0
           index(metrics) == Index(Overall(metrics, good(metrics)),
                                   Overall(metrics, sure(metrics)))
<1>1. /\ Readiness(after).index = IF none(after) THEN NoEvidence ELSE index(after)
      /\ Readiness(before).index = IF none(before) THEN NoEvidence ELSE index(before)
  BY DEF Readiness
<1>2. none(after) <=> none(before)
  BY DEF Aged
<1>3. /\ Overall(after, sure(after)) \in Int /\ Overall(before, sure(before)) \in Int
      /\ Overall(after, sure(after)) <= Overall(before, sure(before))
  <2>1. /\ sure(after) \in [1..n -> Int] /\ sure(before) \in [1..n -> Int]
        /\ \A i \in 1..n : sure(after)[i] <= sure(before)[i]
    BY DEF Aged
  <2> HIDE DEF sure
  <2> QED
    BY <2>1, OverallFalls
<1>4. /\ Overall(after, good(after)) \in Int
      /\ Overall(after, good(after)) = Overall(before, good(before))
  <2>1. ASSUME NEW i \in 1..n
        PROVE  /\ Estimate(after[i]) = Estimate(before[i]) /\ Estimate(after[i]) \in Int
               /\ after[i].skill = before[i].skill
    BY DEF Aged, Estimate
  <2>2. good(after) \in [1..n -> Int] /\ good(after) = good(before)
    BY <2>1
  <2> DEFINE v == good(after)
  <2> HIDE DEF v
  <2>3. v \in [1..n -> Int] /\ good(before) = v
    BY <2>2 DEF v
  <2>4. \A i \in 1..n : v[i] <= v[i]
    BY <2>3
  <2>5. Overall(after, v) \in Int
    BY <2>3, <2>4, OverallFalls
  <2>6. Overall(after, v) = Overall(before, v)
    <3>1. [i \in 1..n |-> v[i] * Weight[after[i].skill]]
            = [i \in 1..n |-> v[i] * Weight[before[i].skill]]
      BY <2>1
    <3> QED
      BY <3>1 DEF Overall
  <2> QED
    BY <2>3, <2>5, <2>6 DEF v
<1> HIDE DEF sure, good, none
<1>5. index(after) <= index(before)
  <2> DEFINE r == Overall(after, good(after))
             p == Overall(after, sure(after))
             q == Overall(before, sure(before))
  <2>1. r \in Int /\ p \in Int /\ q \in Int /\ p <= q
    BY <1>3, <1>4
  <2>2. index(after) = Index(r, p) /\ index(before) = Index(r, q)
    BY <1>4
  <2> HIDE DEF r, p, q, index
  <2> QED
    BY <2>1, <2>2, IndexFalls
<1> QED
  BY <1>1, <1>2, <1>5 DEF NoEvidence

LEMMA WaitingKeeps ==
    ASSUME ModelInv, Next, attempts' = attempts
    PROVE  /\ profile'.readiness.index <= profile.readiness.index
           /\ \A i \in DOMAIN profile.metrics :
                /\ profile'.metrics[i].skill = profile.metrics[i].skill
                /\ profile'.metrics[i].mastery = profile.metrics[i].mastery
                /\ profile'.metrics[i].confidence <= profile.metrics[i].confidence
<1>1. HistoryInv /\ attempts \in Nat
  BY DEF ModelInv, HistoryInv
<1>2. /\ now \in 0..MaxAge /\ now' = now + 1 /\ now + 1 \in 0..MaxAge
      /\ history' = history
  <2>1. ~Evaluate
    BY <1>1 DEF Evaluate
  <2>2. Wait
    BY <2>1 DEF Next
  <2>3. now < MaxAge /\ now' = now + 1 /\ history' = history
    BY <2>2 DEF Wait
  <2>4. now \in 0..MaxAge
    BY <1>1 DEF HistoryInv
  <2> QED
    BY <2>3, <2>4
<1> DEFINE before == SkillMetrics(history, now)
           after == SkillMetrics(history, now + 1)
<1>3. profile = Result(before, Readiness(before), Ranked(before))
  BY ProfileIs DEF ModelInv
<1>4. profile' = Result(after, Readiness(after), Ranked(after))
  <2>1. profile' = calculate_analytics(history, now + 1)
    BY <1>2 DEF Next
  <2> QED
    BY <2>1, ProfileIs
<1>5. ASSUME NEW i \in 1..Size PROVE Aged(after[i], before[i])
  <2> DEFINE s == ByWeight[i]
  <2>1. s \in Skills
    BY ByWeightIs
  <2>2. Observed(history[s], attempts, now)
    BY <1>1, <2>1 DEF HistoryInv
  <2>3. /\ before[i] = calculate_skill_metric(s, history[s], now)
        /\ after[i] = calculate_skill_metric(s, history[s], now + 1)
    BY MetricsAre
  <2> HIDE DEF s, before, after
  <2> QED
    BY <1>2, <2>1, <2>2, <2>3, MetricWaits
<1>6. Size \in Nat /\ DOMAIN before = 1..Size /\ DOMAIN after = 1..Size
  BY ByWeightIs, MetricsAre
<1> HIDE DEF before, after
<1>7. Readiness(after).index <= Readiness(before).index
  BY <1>5, <1>6, ReadinessFalls
<1>8. /\ profile.metrics = before /\ profile'.metrics = after
      /\ profile.readiness = Readiness(before) /\ profile'.readiness = Readiness(after)
  BY <1>3, <1>4 DEF Result
<1> QED
  BY <1>5, <1>6, <1>7, <1>8 DEF Aged

\* calculate_skill_metric and _readiness: time without an attempt leaves every
\* mastery what it is, and makes no skill better known nor the user readier,
\* although each number is rounded; for any answers.
THEOREM TimeAddsNothing == Spec => WaitingAddsNothing
<1>1. ModelInv /\ [Next]_vars =>
        [attempts' = attempts =>
           /\ profile'.readiness.index <= profile.readiness.index
           /\ \A i \in DOMAIN profile.metrics :
                /\ profile'.metrics[i].skill = profile.metrics[i].skill
                /\ profile'.metrics[i].mastery = profile.metrics[i].mastery
                /\ profile'.metrics[i].confidence <= profile.metrics[i].confidence]_vars
  BY WaitingKeeps
<1> QED
  BY <1>1, Invariance, PTL DEF Spec, WaitingAddsNothing
=============================================================================
