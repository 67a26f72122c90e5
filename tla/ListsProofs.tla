------------------------------ MODULE ListsProofs ------------------------------
(***************************************************************************)
(* Lemmas about lists: induction over the naturals, the least of a set of  *)
(* them, and what Array.filter leaves.                                     *)
(*                                                                         *)
(* A theorem of the library that takes an operator cannot be used here,    *)
(* and so not its induction; NatSetInduction states it of a set and has it *)
(* from the pigeonhole principle.                                          *)
(***************************************************************************)
EXTENDS Lists, Integers, FiniteSets, FiniteSetTheorems, SequenceTheorems, TLAPS

\* Induction, with the set of the numbers that have the property: else x |-> x + 1
\* would map 0 .. n into 1 .. n and keep its elements apart.
LEMMA NatSetInduction ==
  ASSUME NEW S, 0 \in S, \A n \in Nat : n \in S => n + 1 \in S
  PROVE  Nat \subseteq S
<1> SUFFICES ASSUME NEW n \in Nat, n \notin S PROVE FALSE
  OBVIOUS
<1> DEFINE f == [x \in 0 .. n |-> IF x \in S THEN x + 1 ELSE x]
<1>1. f \in [0 .. n -> 1 .. n]
  <2> SUFFICES ASSUME NEW x \in 0 .. n PROVE (IF x \in S THEN x + 1 ELSE x) \in 1 .. n
    OBVIOUS
  <2>1. CASE x \in S
    <3>1. x # n
      BY <2>1
    <3> QED
      BY <2>1, <3>1
  <2>2. CASE x \notin S
    <3>1. x # 0
      BY <2>2
    <3> QED
      BY <2>2, <3>1
  <2> QED
    BY <2>1, <2>2
<1>2. /\ IsFiniteSet(0 .. n) /\ Cardinality(0 .. n) = n + 1
      /\ IsFiniteSet(1 .. n) /\ Cardinality(1 .. n) = n
  <2>1. 0 \in Int /\ 1 \in Int /\ n \in Int
    OBVIOUS
  <2>2. IsFiniteSet(0 .. n) /\ Cardinality(0 .. n) = IF 0 > n THEN 0 ELSE n - 0 + 1
    BY <2>1, FS_Interval
  <2>3. IsFiniteSet(1 .. n) /\ Cardinality(1 .. n) = IF 1 > n THEN 0 ELSE n - 1 + 1
    BY <2>1, FS_Interval
  <2> QED
    BY <2>2, <2>3
<1>3. \A x, y \in 0 .. n : f[x] = f[y] => x = y
  OBVIOUS
<1>4. Cardinality(1 .. n) < Cardinality(0 .. n)
  BY <1>2
<1> HIDE DEF f
<1>5. \E x, y \in 0 .. n : x # y /\ f[x] = f[y]
  <2> DEFINE A == 0 .. n
             B == 1 .. n
  <2>1. f \in [A -> B] /\ IsFiniteSet(A) /\ IsFiniteSet(B) /\ Cardinality(B) < Cardinality(A)
    BY <1>1, <1>2, <1>4
  <2> HIDE DEF A, B
  <2>2. \E x, y \in A : x # y /\ f[x] = f[y]
    BY <2>1, FS_PigeonHole
  <2> QED
    BY <2>2 DEF A
<1> QED
  BY <1>3, <1>5

\* A nonempty set of numbers has a least one.
LEMMA LeastOfNats ==
  ASSUME NEW S \in SUBSET Nat, S # {}
  PROVE  \E x \in S : \A y \in S : x <= y
<1> SUFFICES ASSUME \A x \in S : \E y \in S : y < x PROVE FALSE
  OBVIOUS
<1> DEFINE T == {n \in Nat : \A x \in S : x >= n}
<1>1. 0 \in T
  OBVIOUS
<1>2. ASSUME NEW n \in Nat, n \in T PROVE n + 1 \in T
  <2> SUFFICES ASSUME NEW x \in S, x = n PROVE FALSE
    BY <1>2
  <2> QED
    BY <1>2
<1> HIDE DEF T
<1>3. Nat \subseteq T
  BY <1>1, <1>2, NatSetInduction
<1>4. PICK x \in S : TRUE
  OBVIOUS
<1>5. x + 1 \in T
  BY <1>3
<1> QED
  BY <1>5 DEF T

\* A nonempty set of numbers with a bound has a greatest one.
LEMMA GreatestOfNats ==
  ASSUME NEW S \in SUBSET Nat, S # {}, NEW b \in Nat, \A x \in S : x <= b
  PROVE  \E x \in S : \A y \in S : x >= y
<1> DEFINE T == {n \in Nat : \A y \in S : y <= n}
<1>1. T \in SUBSET Nat /\ b \in T
  OBVIOUS
<1>2. PICK t \in T : \A u \in T : t <= u
  <2> HIDE DEF T
  <2> QED
    BY <1>1, LeastOfNats
<1>3. t \in Nat /\ \A y \in S : y <= t
  OBVIOUS
<1>4. CASE t \in S
  BY <1>3, <1>4
<1>5. CASE t \notin S
  <2>1. PICK x \in S : TRUE
    OBVIOUS
  <2>2. t # 0
    BY <1>3, <1>5, <2>1
  <2>3. t - 1 \in Nat
    BY <1>3, <2>2
  <2>4. \A y \in S : y <= t - 1
    BY <1>3, <1>5
  <2>5. t - 1 \in T
    BY <2>3, <2>4
  <2> QED
    BY <1>2, <1>3, <2>5
<1> QED
  BY <1>4, <1>5

\* Finitely many numbers have a bound.
LEMMA BoundOfNats ==
  ASSUME NEW f, NEW n \in Nat, \A i \in 1 .. n : f[i] \in Nat
  PROVE  \E b \in Nat : \A i \in 1 .. n : f[i] <= b
<1> DEFINE X == {m \in Nat : m <= n => \E b \in Nat : \A i \in 1 .. m : f[i] <= b}
<1>1. 0 \in X
  OBVIOUS
<1>2. ASSUME NEW m \in Nat, m \in X PROVE m + 1 \in X
  <2> SUFFICES ASSUME m + 1 <= n PROVE \E b \in Nat : \A i \in 1 .. m + 1 : f[i] <= b
    OBVIOUS
  <2>1. PICK b \in Nat : \A i \in 1 .. m : f[i] <= b
    BY <1>2
  <2>2. PICK c \in Nat : c = f[m + 1]
    OBVIOUS
  <2>3. CASE b <= c
    <3>1. \A i \in 1 .. m + 1 : f[i] <= c
      BY <2>1, <2>2, <2>3
    <3> QED
      BY <3>1
  <2>4. CASE c <= b
    <3>1. \A i \in 1 .. m + 1 : f[i] <= b
      BY <2>1, <2>2, <2>4
    <3> QED
      BY <3>1
  <2> QED
    BY <2>3, <2>4
<1> HIDE DEF X
<1>3. n \in X
  BY <1>1, <1>2, NatSetInduction
<1> QED
  BY <1>3 DEF X

\* A function that is defined step by step, each step a function of what is so far.
FoldOf(A, n, base, step, f) ==
  f \in [0 .. n -> A] /\ f[0] = base /\ \A i \in 1 .. n : f[i] = step[i][f[i - 1]]

LEMMA FoldExists ==
  ASSUME NEW A, NEW n \in Nat, NEW base \in A, NEW step \in [1 .. n -> [A -> A]]
  PROVE  \E f : FoldOf(A, n, base, step, f)
<1> USE DEF FoldOf
<1> DEFINE X == {m \in Nat : m <= n =>
                   \E f \in [0 .. m -> A] : f[0] = base /\ \A i \in 1 .. m : f[i] = step[i][f[i - 1]]}
<1>1. 0 \in X
  <2> DEFINE f == [i \in 0 .. 0 |-> base]
  <2>1. f \in [0 .. 0 -> A] /\ f[0] = base
    OBVIOUS
  <2>2. \A i \in 1 .. 0 : f[i] = step[i][f[i - 1]]
    OBVIOUS
  <2> HIDE DEF f
  <2> QED
    BY <2>1, <2>2
<1>2. ASSUME NEW m \in Nat, m \in X PROVE m + 1 \in X
  <2> SUFFICES ASSUME m + 1 <= n
               PROVE  \E f \in [0 .. m + 1 -> A] :
                        f[0] = base /\ \A i \in 1 .. m + 1 : f[i] = step[i][f[i - 1]]
    OBVIOUS
  <2>1. PICK f \in [0 .. m -> A] : f[0] = base /\ \A i \in 1 .. m : f[i] = step[i][f[i - 1]]
    BY <1>2
  <2> DEFINE g == [i \in 0 .. m + 1 |-> IF i = m + 1 THEN step[m + 1][f[m]] ELSE f[i]]
  <2>2. step[m + 1][f[m]] \in A
    <3>1. step[m + 1] \in [A -> A] /\ f[m] \in A
      OBVIOUS
    <3> QED
      BY <3>1
  <2>3. g \in [0 .. m + 1 -> A] /\ g[0] = base
    BY <2>1, <2>2
  <2>4. g[m + 1] = step[m + 1][f[m]] /\ \A i \in 0 .. m : g[i] = f[i]
    OBVIOUS
  <2> HIDE DEF g
  <2>5. \A i \in 1 .. m + 1 : g[i] = step[i][g[i - 1]]
    <3> SUFFICES ASSUME NEW i \in 1 .. m + 1 PROVE g[i] = step[i][g[i - 1]]
      OBVIOUS
    <3>1. CASE i = m + 1
      BY <3>1, <2>4
    <3>2. CASE i \in 1 .. m
      BY <3>2, <2>1, <2>4
    <3> QED
      BY <3>1, <3>2
  <2> QED
    BY <2>3, <2>5
<1> HIDE DEF X
<1>3. n \in X
  BY <1>1, <1>2, NatSetInduction
<1> QED
  BY <1>3 DEF X

\* What Picked is computed by exists.
PickedUpTo(s, S, n, f) ==
  f = [i \in 0 .. n |-> IF i = 0 THEN <<>> ELSE IF s[i] \in S THEN Append(f[i - 1], s[i]) ELSE f[i - 1]]

LEMMA StepsExist ==
  ASSUME NEW s, NEW S, NEW n \in Nat
  PROVE  \E f : PickedUpTo(s, S, n, f)
<1> DEFINE X == {m \in Nat : \E f : PickedUpTo(s, S, m, f)}
<1>1. 0 \in X
  <2> DEFINE f == [i \in 0 .. 0 |-> <<>>]
  <2>1. PickedUpTo(s, S, 0, f)
    BY DEF PickedUpTo
  <2> QED
    BY <2>1
<1>2. ASSUME NEW m \in Nat, m \in X PROVE m + 1 \in X
  <2>1. PICK f : PickedUpTo(s, S, m, f)
    BY <1>2
  <2> DEFINE next == IF s[m + 1] \in S THEN Append(f[m], s[m + 1]) ELSE f[m]
             g == [i \in 0 .. m + 1 |-> IF i = m + 1 THEN next ELSE f[i]]
  <2> DEFINE at(i) == IF i = 0 THEN <<>> ELSE IF s[i] \in S THEN Append(f[i - 1], s[i]) ELSE f[i - 1]
  <2>0. f = [i \in 0 .. m |-> at(i)]
    BY <2>1 DEF PickedUpTo
  <2>2. \A i \in 1 .. m : f[i] = IF s[i] \in S THEN Append(f[i - 1], s[i]) ELSE f[i - 1]
    <3> SUFFICES ASSUME NEW i \in 1 .. m PROVE f[i] = at(i)
      OBVIOUS
    <3> HIDE DEF at
    <3> QED
      BY <2>0
  <2>3. f[0] = <<>>
    <3>1. f[0] = at(0)
      <4> HIDE DEF at
      <4> QED
        BY <2>0
    <3> QED
      BY <3>1
  <2> DEFINE h == [i \in 0 .. m + 1 |-> IF i = 0 THEN <<>> ELSE IF s[i] \in S THEN Append(g[i - 1], s[i]) ELSE g[i - 1]]
  <2>4. \A i \in 0 .. m + 1 : g[i] = h[i]
    <3> SUFFICES ASSUME NEW i \in 0 .. m + 1 PROVE g[i] = h[i]
      OBVIOUS
    <3>1. CASE i = 0
      BY <3>1, <2>3
    <3>2. CASE i \in 1 .. m
      BY <3>2, <2>2
    <3>3. CASE i = m + 1
      BY <3>3
    <3> QED
      BY <3>1, <3>2, <3>3
  <2>5. g = h
    BY <2>4
  <2>6. PickedUpTo(s, S, m + 1, g)
    BY <2>5 DEF PickedUpTo
  <2> QED
    BY <2>6
<1> HIDE DEF X
<1>3. n \in X
  BY <1>1, <1>2, NatSetInduction
<1> QED
  BY <1>3 DEF X

\* m tells which element of s each of r is: those in S, in their order.
PicksAre(s, S, r, m, n) ==
  /\ m \in [1 .. Len(r) -> 1 .. n]
  /\ \A j, k \in 1 .. Len(r) : j < k => m[j] < m[k]
  /\ \A k \in 1 .. Len(r) : r[k] = s[m[k]] /\ r[k] \in S
  /\ \A i \in 1 .. n : s[i] \in S => \E k \in 1 .. Len(r) : m[k] = i

LEMMA PickedPlaces ==
  ASSUME NEW T, NEW s \in Seq(T), NEW S
  PROVE  /\ Picked(s, S) \in Seq(T)
         /\ \E m : PicksAre(s, S, Picked(s, S), m, Len(s))
<1> DEFINE body(f, i) == IF i = 0 THEN <<>> ELSE IF s[i] \in S THEN Append(f[i - 1], s[i]) ELSE f[i - 1]
           upTo == CHOOSE f : f = [i \in 0 .. Len(s) |-> body(f, i)]
<1>1. Len(s) \in Nat
  OBVIOUS
<1>2. upTo = [i \in 0 .. Len(s) |-> body(upTo, i)]
  <2>1. \E f : f = [i \in 0 .. Len(s) |-> body(f, i)]
    <3>1. PICK f : PickedUpTo(s, S, Len(s), f)
      BY <1>1, StepsExist
    <3>2. f = [i \in 0 .. Len(s) |-> body(f, i)]
      BY <3>1 DEF PickedUpTo
    <3> QED
      BY <3>2
  <2> QED
    BY <2>1
<1>3. Picked(s, S) = upTo[Len(s)]
  BY DEF Picked
<1> HIDE DEF upTo
<1>4. upTo[0] = <<>> /\ \A i \in 1 .. Len(s) :
        upTo[i] = IF s[i] \in S THEN Append(upTo[i - 1], s[i]) ELSE upTo[i - 1]
  <2>1. ASSUME NEW i \in 0 .. Len(s) PROVE upTo[i] = body(upTo, i)
    <3> HIDE DEF body
    <3> QED
      BY <1>2
  <2> QED
    BY <1>1, <2>1
<1> DEFINE X == {i \in Nat : i <= Len(s) =>
                   upTo[i] \in Seq(T) /\ \E m : PicksAre(s, S, upTo[i], m, i)}
<1>5. 0 \in X
  <2> DEFINE m == [k \in 1 .. 0 |-> 0]
  <2>1. m \in [1 .. 0 -> 1 .. 0]
    OBVIOUS
  <2>2. <<>> \in Seq(T) /\ Len(<<>>) = 0
    OBVIOUS
  <2> HIDE DEF m
  <2>3. PicksAre(s, S, <<>>, m, 0)
    BY <2>1, <2>2 DEF PicksAre
  <2> QED
    BY <1>4, <2>2, <2>3
<1>6. ASSUME NEW n \in Nat, n \in X PROVE n + 1 \in X
  <2> SUFFICES ASSUME n + 1 <= Len(s)
               PROVE  upTo[n + 1] \in Seq(T) /\ \E m : PicksAre(s, S, upTo[n + 1], m, n + 1)
    OBVIOUS
  <2>1. n + 1 \in 1 .. Len(s) /\ n <= Len(s) /\ s[n + 1] \in T
    BY <1>1
  <2>2. PICK m : PicksAre(s, S, upTo[n], m, n)
    BY <1>6, <2>1
  <2>3. upTo[n] \in Seq(T)
    BY <1>6, <2>1
  <2>4. upTo[n + 1] = IF s[n + 1] \in S THEN Append(upTo[n], s[n + 1]) ELSE upTo[n]
    BY <1>4, <2>1
  <2>5. PICK r \in Seq(T) : r = upTo[n]
    BY <2>3
  <2> HIDE DEF X
  <2>6. CASE s[n + 1] \notin S
    <3>1. PicksAre(s, S, r, m, n + 1)
      <4>1. PicksAre(s, S, r, m, n)
        BY <2>2, <2>5
      <4>2. m \in [1 .. Len(r) -> 1 .. n + 1]
        BY <4>1 DEF PicksAre
      <4>3. \A i \in 1 .. n + 1 : s[i] \in S => i \in 1 .. n
        BY <2>6
      <4> QED
        BY <4>1, <4>2, <4>3 DEF PicksAre
    <3> QED
      BY <2>4, <2>5, <2>6, <3>1
  <2>7. CASE s[n + 1] \in S
    <3> DEFINE q == Append(r, s[n + 1])
               w == [k \in 1 .. Len(r) + 1 |-> IF k = Len(r) + 1 THEN n + 1 ELSE m[k]]
    <3>1. /\ q \in Seq(T) /\ Len(q) = Len(r) + 1 /\ q[Len(r) + 1] = s[n + 1]
          /\ \A k \in 1 .. Len(r) : q[k] = r[k]
      BY <2>1, AppendProperties
    <3>2. PicksAre(s, S, r, m, n) /\ Len(r) \in Nat
      BY <2>2, <2>5
    <3>3. w \in [1 .. Len(r) + 1 -> 1 .. n + 1]
      BY <3>2 DEF PicksAre
    <3>4. w[Len(r) + 1] = n + 1 /\ \A k \in 1 .. Len(r) : w[k] = m[k] /\ w[k] \in 1 .. n
      BY <3>2 DEF PicksAre
    <3> HIDE DEF q, w
    <3>5. \A j, k \in 1 .. Len(r) + 1 : j < k => w[j] < w[k]
      <4> SUFFICES ASSUME NEW j \in 1 .. Len(r) + 1, NEW k \in 1 .. Len(r) + 1, j < k PROVE w[j] < w[k]
        OBVIOUS
      <4>1. j \in 1 .. Len(r)
        BY <3>2
      <4>2. CASE k = Len(r) + 1
        BY <4>1, <4>2, <3>4
      <4>3. CASE k \in 1 .. Len(r)
        BY <4>1, <4>3, <3>4, <3>2 DEF PicksAre
      <4> QED
        BY <4>2, <4>3
    <3>6. \A k \in 1 .. Len(r) + 1 : q[k] = s[w[k]] /\ q[k] \in S
      <4> SUFFICES ASSUME NEW k \in 1 .. Len(r) + 1 PROVE q[k] = s[w[k]] /\ q[k] \in S
        OBVIOUS
      <4>1. CASE k = Len(r) + 1
        BY <4>1, <3>1, <3>4, <2>7
      <4>2. CASE k \in 1 .. Len(r)
        BY <4>2, <3>1, <3>4, <3>2 DEF PicksAre
      <4> QED
        BY <4>1, <4>2, <3>2
    <3>7. \A i \in 1 .. n + 1 : s[i] \in S => \E k \in 1 .. Len(r) + 1 : w[k] = i
      <4> SUFFICES ASSUME NEW i \in 1 .. n + 1, s[i] \in S PROVE \E k \in 1 .. Len(r) + 1 : w[k] = i
        OBVIOUS
      <4>1. CASE i = n + 1
        <5>1. Len(r) + 1 \in 1 .. Len(r) + 1
          BY <3>2
        <5> QED
          BY <4>1, <5>1, <3>4
      <4>2. CASE i \in 1 .. n
        <5>1. PICK k \in 1 .. Len(r) : m[k] = i
          BY <4>2, <3>2 DEF PicksAre
        <5> QED
          BY <5>1, <3>4, <3>2
      <4> QED
        BY <4>1, <4>2
    <3>8. PicksAre(s, S, q, w, n + 1)
      BY <3>1, <3>3, <3>5, <3>6, <3>7 DEF PicksAre
    <3>9. upTo[n + 1] = q
      BY <2>4, <2>5, <2>7 DEF q
    <3> QED
      BY <3>1, <3>8, <3>9
  <2> QED
    BY <2>6, <2>7
<1> HIDE DEF X
<1>7. Len(s) \in X
  BY <1>1, <1>5, <1>6, NatSetInduction
<1> QED
  BY <1>1, <1>3, <1>7 DEF X

\* What a filter leaves are rows it was given.
LEMMA PickedRows ==
  ASSUME NEW T, NEW rows \in Seq(T), NEW S
  PROVE  /\ Picked(rows, S) \in Seq(T)
         /\ \A k \in DOMAIN Picked(rows, S) : \E i \in DOMAIN rows : Picked(rows, S)[k] = rows[i] /\ rows[i] \in S
         /\ \A i \in DOMAIN rows : rows[i] \in S => \E k \in DOMAIN Picked(rows, S) : Picked(rows, S)[k] = rows[i]
<1>1. Picked(rows, S) \in Seq(T) /\ \E m : PicksAre(rows, S, Picked(rows, S), m, Len(rows))
  BY PickedPlaces
<1>2. PICK r \in Seq(T) : r = Picked(rows, S)
  BY <1>1
<1>3. PICK m : PicksAre(rows, S, r, m, Len(rows))
  BY <1>1, <1>2
<1>4. DOMAIN r = 1 .. Len(r) /\ DOMAIN rows = 1 .. Len(rows)
  OBVIOUS
<1>5. \A k \in DOMAIN r : m[k] \in DOMAIN rows /\ r[k] = rows[m[k]] /\ r[k] \in S
  BY <1>3, <1>4 DEF PicksAre
<1>6. \A i \in DOMAIN rows : rows[i] \in S => \E k \in DOMAIN r : r[k] = rows[i]
  BY <1>3, <1>4 DEF PicksAre
<1>7. \A k \in DOMAIN r : \E i \in DOMAIN rows : r[k] = rows[i] /\ rows[i] \in S
  BY <1>5
<1> QED
  BY <1>2, <1>6, <1>7

==============================================================================
