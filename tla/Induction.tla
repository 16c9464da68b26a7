------------------------------ MODULE Induction -----------------------------
(***************************************************************************)
(* Induction over numbers, stated about sets: "n \in T" is the hypothesis, *)
(* for a set T that the proof defines.  It follows from the well-founded   *)
(* order of the natural numbers.                                           *)
(***************************************************************************)
EXTENDS Integers, Sequences, FiniteSetsExt, Functions, WellFoundedInduction, TLAPS

\* A set of numbers that has a member has a least one.
LEMMA LeastNumber ==
  ASSUME NEW T \in SUBSET Nat, T # {}
  PROVE  \E n \in T : \A m \in T : n <= m
  <1> DEFINE R == {ss \in Nat \X Nat : ss[1] < ss[2]}
  <1>1. IsWellFoundedOn(R, Nat)
    BY NatLessThanWellFounded DEF OpToRel
  <1> HIDE DEF R
  <1>2. PICK n \in T : \A m \in T : ~(<<m, n>> \in R)
    BY <1>1, WFMin
  <1>3. \A m \in T : ~(m < n)
    BY <1>2 DEF R
  <1>4. QED
    BY <1>3

LEMMA NatInduct ==
  ASSUME NEW T, 0 \in T, \A n \in Nat : n \in T => n + 1 \in T
  PROVE  Nat \subseteq T
  <1> DEFINE U == Nat \ T
  <1>1. SUFFICES ASSUME U # {}
                 PROVE  FALSE
    OBVIOUS
  <1>2. PICK n \in U : \A m \in U : n <= m
    BY <1>1, LeastNumber
  <1>3. n \in Nat /\ n # 0
    OBVIOUS
  <1>4. n - 1 \in Nat /\ n - 1 \notin U
    BY <1>2, <1>3
  <1>5. (n - 1) + 1 \in T
    BY <1>4
  <1>6. QED
    BY <1>3, <1>5

\* The same over an interval: no step is needed from its end.
LEMMA IntervalInduct ==
  ASSUME NEW N \in Nat, NEW T, 0 \in T,
         \A n \in 0 .. N - 1 : n \in T => n + 1 \in T
  PROVE  0 .. N \subseteq T
  <1> DEFINE U == {n \in Nat : n <= N => n \in T}
  <1>1. 0 \in U
    OBVIOUS
  <1>2. \A n \in Nat : n \in U => n + 1 \in U
    OBVIOUS
  <1>3. Nat \subseteq U
    <2> HIDE DEF U
    <2>1. QED
      BY <1>1, <1>2, NatInduct
  <1>4. QED
    BY <1>3

\* A set of numbers up to N has a greatest one, and Max is it.
LEMMA GreatestNumber ==
  ASSUME NEW N \in Nat, NEW T \in SUBSET (0 .. N), T # {}
  PROVE  Max(T) \in T /\ \A m \in T : m <= Max(T)
  <1> DEFINE U == {N - m : m \in T}
  <1>1. U \in SUBSET Nat /\ U # {}
    <2>1. \A m \in T : N - m \in Nat
      OBVIOUS
    <2>2. QED
      BY <2>1
  <1>2. PICK n \in U : \A m \in U : n <= m
    <2> HIDE DEF U
    <2>1. QED
      BY <1>1, LeastNumber
  <1>3. PICK t \in T : n = N - t
    OBVIOUS
  <1>4. \A m \in T : t >= m
    BY <1>2, <1>3
  <1>5. Max(T) \in T /\ \A m \in T : Max(T) >= m
    BY <1>4 DEF Max
  <1>6. QED
    BY <1>5

LEMMA LeastNumberIsMin ==
  ASSUME NEW T \in SUBSET Nat, T # {}
  PROVE  Min(T) \in T /\ \A m \in T : Min(T) <= m
  <1>1. PICK n \in T : \A m \in T : n <= m
    BY LeastNumber
  <1>2. QED
    BY <1>1 DEF Min

LEMMA MinIs ==
  ASSUME NEW T \in SUBSET Nat, NEW n \in T, \A m \in T : n <= m
  PROVE  Min(T) = n
  <1>1. Min(T) \in T /\ \A m \in T : Min(T) <= m
    BY LeastNumberIsMin
  <1>2. Min(T) <= n /\ n <= Min(T) /\ n \in Nat /\ Min(T) \in Nat
    BY <1>1
  <1>3. QED
    BY <1>2

LEMMA MaxIs ==
  ASSUME NEW N \in Nat, NEW T \in SUBSET (0 .. N), NEW n \in T, \A m \in T : m <= n
  PROVE  Max(T) = n
  <1> DEFINE max == Max(T)
  <1>1. max \in T /\ \A m \in T : m <= max
    BY GreatestNumber
  <1> HIDE DEF max
  <1>2. max <= n /\ n <= max /\ n \in Nat /\ max \in Nat
    BY <1>1
  <1>3. QED
    BY <1>2 DEF max

-----------------------------------------------------------------------------
\* A function defined by recursion over 0..n exists, so the CHOOSE that its
\* definition stands for is one.
LEMMA RecursionExists ==
  ASSUME NEW S, NEW start \in S, NEW step \in [Nat -> [S -> S]], NEW n \in Nat
  PROVE  \E g \in [0 .. n -> S] : g[0] = start /\ \A k \in 1 .. n : g[k] = step[k][g[k - 1]]
  <1> DEFINE Is(g, m) == /\ g \in [0 .. m -> S]
                         /\ g[0] = start
                         /\ \A k \in 1 .. m : g[k] = step[k][g[k - 1]]
             T == {m \in Nat : \E g : Is(g, m)}
  <1>1. 0 \in T
    <2> DEFINE g == [k \in 0 .. 0 |-> start]
    <2>1. Is(g, 0)
      OBVIOUS
    <2> HIDE DEF g, Is
    <2>2. QED
      BY <2>1
  <1>2. ASSUME NEW m \in Nat, m \in T
        PROVE  m + 1 \in T
    <2>1. PICK g : Is(g, m)
      BY <1>2
    <2> DEFINE h == [k \in 0 .. m + 1 |-> IF k = m + 1 THEN step[m + 1][g[m]] ELSE g[k]]
    <2>2. g[m] \in S /\ step[m + 1][g[m]] \in S
      BY <2>1
    <2>3. \A k \in 0 .. m : h[k] = g[k] /\ g[k] \in S
      BY <2>1
    <2>4. h[m + 1] = step[m + 1][g[m]] /\ h \in [0 .. m + 1 -> S]
      BY <2>1, <2>2
    <2> HIDE DEF h
    <2>5. ASSUME NEW k \in 1 .. m + 1
          PROVE  h[k] = step[k][h[k - 1]]
      <3>1. CASE k = m + 1
        <4>1. k - 1 = m /\ m \in 0 .. m
          BY <3>1
        <4>2. QED
          BY <2>3, <2>4, <3>1, <4>1
      <3>2. CASE k # m + 1
        <4>1. k \in 1 .. m /\ k \in 0 .. m /\ k - 1 \in 0 .. m
          BY <3>2
        <4>2. QED
          BY <2>1, <2>3, <4>1
      <3>3. QED
        BY <3>1, <3>2
    <2>6. h[0] = start
      BY <2>1, <2>3
    <2>7. Is(h, m + 1)
      BY <2>4, <2>5, <2>6
    <2> HIDE DEF Is
    <2>8. m + 1 \in Nat
      OBVIOUS
    <2>9. QED
      BY <2>7, <2>8
  <1>3. Nat \subseteq T
    <2> HIDE DEF T
    <2>1. QED
      BY <1>1, <1>2, NatInduct
  <1>4. QED
    BY <1>3

-----------------------------------------------------------------------------
\* Numbers can be sorted: by inserting one after the other.
Ascending(p, key, m) ==
  \A i, j \in 1..m : i < j => p[i] # p[j] /\ key[p[i]] <= key[p[j]]

LEMMA Inserted ==
  ASSUME NEW m \in Nat, NEW key \in [1 .. m + 1 -> Int], NEW p \in [1..m -> 1..m],
         Ascending(p, key, m)
  PROVE  \E h \in [1 .. m + 1 -> 1 .. m + 1] : Ascending(h, key, m + 1)
  <1> DEFINE value == [i \in 1..m |-> key[p[i]]]
             last == key[m + 1]
             Low(i) == i \in 1..m /\ value[i] <= last
             h == [i \in 1 .. m + 1 |->
                     IF Low(i) THEN p[i] ELSE IF i = 1 \/ Low(i - 1) THEN m + 1 ELSE p[i - 1]]
             at == [i \in 1 .. m + 1 |-> key[h[i]]]
  <1>1. \A i \in 1..m : p[i] \in 1..m /\ p[i] \in 1 .. m + 1 /\ p[i] # m + 1
    <2>1. \A i \in 1..m : i \in 1 .. m + 1 /\ i # m + 1
      OBVIOUS
    <2>2. \A i \in 1..m : p[i] \in 1..m
      OBVIOUS
    <2>3. QED
      BY <2>1, <2>2
  <1>2. m + 1 \in 1 .. m + 1 /\ last \in Int
    OBVIOUS
  <1>3. value \in [1..m -> Int] /\ \A i \in 1..m : value[i] = key[p[i]]
    <2>1. \A i \in 1..m : key[p[i]] \in Int
      BY <1>1
    <2>2. QED
      BY <2>1
  <1>4. \A i, j \in 1..m : i < j => p[i] # p[j] /\ value[i] <= value[j]
    BY <1>3 DEF Ascending
  <1> HIDE DEF value, last
  <1>5. h \in [1 .. m + 1 -> 1 .. m + 1]
    <2>1. ASSUME NEW i \in 1 .. m + 1, ~Low(i), i # 1
          PROVE  i - 1 \in 1..m
      BY <2>1
    <2> HIDE DEF Low
    <2>2. \A i \in 1 .. m + 1 : Low(i) => i \in 1..m
      BY DEF Low
    <2>3. QED
      BY <1>1, <1>2, <2>1, <2>2
  <1>6. \A i \in 1 .. m + 1 :
          \/ Low(i) /\ i \in 1..m /\ h[i] = p[i] /\ at[i] = value[i] /\ value[i] <= last
          \/ ~Low(i) /\ (i = 1 \/ Low(i - 1)) /\ h[i] = m + 1 /\ at[i] = last
          \/ /\ ~Low(i) /\ ~Low(i - 1) /\ i - 1 \in 1..m
             /\ h[i] = p[i - 1] /\ at[i] = value[i - 1] /\ last < value[i - 1]
    <2>1. \A i \in 1 .. m + 1 : at[i] = key[h[i]]
      OBVIOUS
    <2> HIDE DEF at
    <2>2. TAKE i \in 1 .. m + 1
    <2>3. CASE Low(i)
      BY <1>3, <2>1, <2>3
    <2>4. CASE ~Low(i) /\ (i = 1 \/ Low(i - 1))
      <3>1. h[i] = m + 1
        BY <2>4
      <3>2. QED
        BY <2>1, <2>4, <3>1 DEF last
    <2>5. CASE ~Low(i) /\ i # 1 /\ ~Low(i - 1)
      <3>1. i - 1 \in 1..m /\ h[i] = p[i - 1]
        BY <2>5
      <3>2. at[i] = value[i - 1]
        <4> HIDE DEF h
        <4>1. value[i - 1] = key[p[i - 1]] /\ at[i] = key[h[i]]
          BY <1>3, <2>1, <3>1
        <4>2. QED
          BY <3>1, <4>1
      <3>3. value[i - 1] \in Int /\ ~(value[i - 1] <= last)
        BY <1>3, <2>5, <3>1
      <3>4. QED
        BY <1>2, <2>5, <3>1, <3>2, <3>3
    <2>6. QED
      BY <2>3, <2>4, <2>5
  <1> HIDE DEF h, at
  <1>7. ASSUME NEW i \in 1..m, NEW j \in 1..m, i <= j, Low(j)
        PROVE  Low(i)
    <2>1. value[i] \in Int /\ value[j] \in Int
      BY <1>3
    <2>2. i = j \/ value[i] <= value[j]
      <3>1. i = j \/ i < j
        BY <1>7
      <3>2. QED
        BY <1>4, <3>1
    <2>3. value[j] <= last
      BY <1>7
    <2>4. value[i] <= last
      <3>1. CASE i = j
        BY <2>3, <3>1
      <3>2. CASE value[i] <= value[j]
        <4>1. \A x, y, z \in Int : x <= y /\ y <= z => x <= z
          OBVIOUS
        <4>2. QED
          BY <1>2, <2>1, <2>3, <3>2, <4>1
      <3>3. QED
        BY <2>2, <3>1, <3>2
    <2>5. QED
      BY <2>4
  <1>8. ASSUME NEW i \in 1 .. m + 1, NEW j \in 1 .. m + 1, i < j
        PROVE  h[i] # h[j] /\ at[i] <= at[j]
    <2>1. i \in 1..m /\ j - 1 \in 1..m /\ i <= j - 1
      BY <1>8
    <2>2. Low(j) => j \in 1..m /\ Low(i) /\ Low(j - 1)
      BY <1>7, <1>8, <2>1
    <2>3. Low(j - 1) => Low(i)
      BY <1>7, <2>1
    <2>4. Low(i) /\ ~Low(j - 1) => i < j - 1
      <3>1. i = j - 1 \/ i < j - 1
        BY <2>1
      <3> HIDE DEF Low
      <3>2. QED
        BY <3>1
    <2>5. ~Low(i) => ~Low(j) /\ ~Low(j - 1)
      BY <2>2, <2>3
    <2>6. /\ value[i] \in Int /\ value[j - 1] \in Int /\ last \in Int
          /\ (j \in 1..m => value[j] \in Int) /\ (i - 1 \in 1..m => value[i - 1] \in Int)
      BY <1>2, <1>3, <2>1
    <2> HIDE DEF Low
    <2>7. CASE Low(i)
      <3>1. h[i] = p[i] /\ at[i] = value[i] /\ value[i] <= last
        BY <1>6, <2>7
      <3>2. \/ j \in 1..m /\ h[j] = p[j] /\ at[j] = value[j]
            \/ h[j] = m + 1 /\ at[j] = last
            \/ i < j - 1 /\ h[j] = p[j - 1] /\ at[j] = value[j - 1]
        BY <1>6, <2>4, <2>7
      <3>3. QED
        BY <1>1, <1>4, <1>8, <2>1, <3>1, <3>2
    <2>8. CASE ~Low(i)
      <3>1. h[j] = p[j - 1] /\ at[j] = value[j - 1] /\ last < value[j - 1]
        BY <1>6, <1>8, <2>5, <2>8
      <3>2. \/ h[i] = m + 1 /\ at[i] = last
            \/ i - 1 \in 1..m /\ h[i] = p[i - 1] /\ at[i] = value[i - 1]
        BY <1>6, <2>8
      <3>3. i - 1 \in 1..m =>
              p[i - 1] # p[j - 1] /\ value[i - 1] <= value[j - 1]
        <4>1. i - 1 < j - 1
          BY <1>8
        <4>2. QED
          BY <1>4, <2>1, <4>1
      <3>4. p[j - 1] # m + 1
        BY <1>1, <2>1
      <3>5. CASE h[i] = m + 1 /\ at[i] = last
        BY <2>6, <3>1, <3>4, <3>5
      <3>6. CASE i - 1 \in 1..m /\ h[i] = p[i - 1] /\ at[i] = value[i - 1]
        BY <3>1, <3>3, <3>6
      <3>7. QED
        BY <3>2, <3>5, <3>6
    <2>9. QED
      BY <2>7, <2>8
  <1>9. Ascending(h, key, m + 1)
    BY <1>8 DEF Ascending, at
  <1>10. QED
    BY <1>5, <1>9

LEMMA SortingOrderExists ==
  ASSUME NEW n \in Nat, NEW key \in [1..n -> Int]
  PROVE  \E p \in Injection(1..n, 1..n) : \A i, j \in 1..n : i < j => key[p[i]] <= key[p[j]]
  <1> DEFINE T == {m \in 0..n : \E p \in [1..m -> 1..m] : Ascending(p, key, m)}
  <1>1. 0 \in T
    <2> DEFINE p == [i \in 1..0 |-> i]
    <2>1. p \in [1..0 -> 1..0] /\ Ascending(p, key, 0)
      BY DEF Ascending
    <2>2. 0 \in 0..n
      OBVIOUS
    <2> HIDE DEF p
    <2>3. QED
      BY <2>1, <2>2
  <1>2. ASSUME NEW m \in 0 .. n - 1, m \in T
        PROVE  m + 1 \in T
    <2>1. PICK p \in [1..m -> 1..m] : Ascending(p, key, m)
      BY <1>2
    <2> DEFINE first == [i \in 1 .. m + 1 |-> key[i]]
    <2>2. m \in Nat /\ m + 1 \in 0..n /\ 1 .. m + 1 \subseteq 1..n /\ \A i \in 1..m : i \in 1 .. m + 1
      OBVIOUS
    <2>3. first \in [1 .. m + 1 -> Int] /\ \A i \in 1 .. m + 1 : first[i] = key[i]
      BY <2>2
    <2> HIDE DEF first
    <2>4. Ascending(p, first, m)
      <3>1. \A i \in 1..m : p[i] \in 1 .. m + 1
        BY <2>2
      <3>2. QED
        BY <2>1, <2>3, <3>1 DEF Ascending
    <2>5. PICK h \in [1 .. m + 1 -> 1 .. m + 1] : Ascending(h, first, m + 1)
      BY <2>2, <2>3, <2>4, Inserted
    <2>6. Ascending(h, key, m + 1)
      BY <2>3, <2>5 DEF Ascending
    <2>7. QED
      BY <2>2, <2>6
  <1>3. n \in T
    <2> HIDE DEF T
    <2>1. 0..n \subseteq T
      BY <1>1, <1>2, IntervalInduct
    <2>2. QED
      BY <2>1
  <1>4. PICK p \in [1..n -> 1..n] : Ascending(p, key, n)
    BY <1>3
  <1>5. p \in Injection(1..n, 1..n)
    <2>1. \A i, j \in 1..n : p[i] = p[j] => i = j
      BY <1>4 DEF Ascending
    <2>2. QED
      BY <2>1 DEF Injection, IsInjective
  <1>6. QED
    BY <1>4, <1>5 DEF Ascending

\* No more than c numbers below c follow one another in increasing order, and c
\* of them leave none out.
IncreaseBelow(id, n, c) ==
  /\ \A i \in 1..n : id[i] \in Nat /\ id[i] < c
  /\ \A i, j \in 1..n : i < j => id[i] < id[j]

LEMMA AllOfThem ==
  ASSUME NEW n \in Nat \ {0}, NEW c \in Nat, n >= c, NEW id, IncreaseBelow(id, n, c)
  PROVE  n = c /\ \A i \in 1..n : id[i] = i - 1
  <1> DEFINE T == {i \in Nat : i + 1 \in 1..n => id[i + 1] >= i}
             U == {k \in Nat : n - k \in 1..n => id[n - k] <= c - 1 - k}
  <1>1. /\ \A i \in 1..n : id[i] \in Nat /\ id[i] < c
        /\ \A i, j \in 1..n : i < j => id[i] < id[j]
    BY DEF IncreaseBelow
  <1>2. Nat \subseteq T
    <2>1. 0 \in T
      BY <1>1
    <2>2. ASSUME NEW i \in Nat, i \in T
          PROVE  i + 1 \in T
      <3>1. CASE (i + 1) + 1 \in 1..n
        <4>1. i + 1 \in 1..n /\ id[i + 1] >= i
          BY <2>2, <3>1
        <4>2. id[i + 1] < id[(i + 1) + 1]
          BY <1>1, <3>1, <4>1
        <4>3. id[(i + 1) + 1] >= i + 1
          BY <1>1, <3>1, <4>1, <4>2
        <4>4. QED
          BY <4>3
      <3>2. QED
        BY <3>1
    <2> HIDE DEF T
    <2>3. QED
      BY <2>1, <2>2, NatInduct
  <1>3. Nat \subseteq U
    <2>1. 0 \in U
      BY <1>1
    <2>2. ASSUME NEW k \in Nat, k \in U
          PROVE  k + 1 \in U
      <3>1. CASE n - (k + 1) \in 1..n
        <4>1. n - k \in 1..n /\ id[n - k] <= c - 1 - k
          BY <2>2, <3>1
        <4>2. id[n - (k + 1)] < id[n - k]
          BY <1>1, <3>1, <4>1
        <4>3. id[n - (k + 1)] <= c - 1 - (k + 1)
          BY <1>1, <3>1, <4>1, <4>2
        <4>4. QED
          BY <4>3
      <3>2. QED
        BY <3>1
    <2> HIDE DEF U
    <2>3. QED
      BY <2>1, <2>2, NatInduct
  <1>4. ASSUME NEW i \in 1..n
        PROVE  id[i] >= i - 1 /\ id[i] <= c - 1 - (n - i)
    <2>1. i - 1 \in Nat /\ n - i \in Nat /\ (i - 1) + 1 = i /\ n - (n - i) = i
      OBVIOUS
    <2>2. i - 1 \in T /\ n - i \in U
      <3> HIDE DEF T, U
      <3>1. QED
        BY <1>2, <1>3, <2>1
    <2>3. QED
      BY <2>1, <2>2
  <1>5. n <= c
    BY <1>1, <1>4
  <1>6. QED
    BY <1>1, <1>4, <1>5
=============================================================================
