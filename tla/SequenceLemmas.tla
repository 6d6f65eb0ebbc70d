---------------------------- MODULE SequenceLemmas ----------------------------
(***************************************************************************)
(* Facts about sequences and sets that the proofs about Traversal and      *)
(* Targets rest on.  The induction theorems of the library take a          *)
(* predicate as a parameter; here a set stands for it.                     *)
(***************************************************************************)
EXTENDS Integers, SequencesExt, FiniteSetTheorems, TLAPS

-----------------------------------------------------------------------------
(* Induction. *)

\* A set of naturals has a least element.
LEMMA LeastNatural ==
  ASSUME NEW S \in SUBSET Nat, S # {}
  PROVE  \E m \in S : \A k \in S : m <= k
<1> DEFINE T == {1..n : n \in S}
<1>1. IsWellFoundedOn(StrictSubsetOrdering(Nat), FiniteSubsetsOf(Nat))
  BY FS_StrictSubsetOrderingWellFounded
<1>2. T \subseteq FiniteSubsetsOf(Nat) /\ T # {}
  <2>1. ASSUME NEW n \in S PROVE 1..n \in SUBSET Nat /\ IsFiniteSet(1..n)
    BY FS_Interval
  <2> QED
    BY <2>1 DEF FiniteSubsetsOf
<1>3. PICK t \in T : \A u \in T : <<u, t>> \notin StrictSubsetOrdering(Nat)
  BY <1>1, <1>2, WFMin, Zenon
<1>4. PICK m \in S : t = 1..m
  BY <1>3
<1>5. ASSUME NEW k \in S PROVE m <= k
  <2>1. SUFFICES ASSUME k < m PROVE FALSE
    OBVIOUS
  <2>2. 1..k \subseteq 1..m /\ m \in 1..m /\ m \notin 1..k
    BY <2>1
  <2>3. <<1..k, t>> \in StrictSubsetOrdering(Nat)
    BY <2>2, <1>4 DEF StrictSubsetOrdering
  <2> QED
    BY <1>3, <2>3
<1> QED
  BY <1>5

\* What holds at m and passes from each number to the next holds up to n.
LEMMA UpTo ==
  ASSUME NEW m \in Nat, NEW n \in Nat, NEW P,
         m \in P, \A i \in m..n : i \in P /\ i < n => i + 1 \in P
  PROVE  m..n \subseteq P
<1> DEFINE Bad == (m..n) \ P
<1>1. SUFFICES ASSUME Bad # {} PROVE FALSE
  OBVIOUS
<1>2. PICK k \in Bad : \A j \in Bad : k <= j
  <2>1. Bad \in SUBSET Nat
    OBVIOUS
  <2> QED
    BY ONLY <1>1, <2>1, LeastNatural
<1>3. k # m /\ k - 1 \in m..n /\ k - 1 \notin Bad
  BY <1>2
<1> QED
  BY <1>2, <1>3

LEMMA FromZero ==
  ASSUME NEW n \in Nat, NEW P,
         0 \in P, \A i \in 0..n : i \in P /\ i < n => i + 1 \in P
  PROVE  n \in P
<1>1. 0..n \subseteq P
  BY UpTo
<1> QED
  BY <1>1

\* What holds of the empty set, and of a set with one element more, holds of every
\* finite set.
LEMMA FiniteInduction ==
  ASSUME NEW S, IsFiniteSet(S), NEW P, {} \in P,
         \A T \in SUBSET S : \A x \in S \ T : T \in P => T \cup {x} \in P
  PROVE  S \in P
<1> DEFINE Bad == {T \in SUBSET S : T \notin P}
<1>1. SUFFICES ASSUME Bad # {} PROVE FALSE
  OBVIOUS
<1>2. IsWellFoundedOn(StrictSubsetOrdering(S), FiniteSubsetsOf(S))
  BY FS_StrictSubsetOrderingWellFounded
<1>3. Bad \subseteq FiniteSubsetsOf(S)
  BY FS_FiniteSubsetsOfFinite
<1>4. PICK T \in Bad : \A U \in Bad : <<U, T>> \notin StrictSubsetOrdering(S)
  BY <1>1, <1>2, <1>3, WFMin, Zenon
<1>5. PICK x \in T : TRUE
  BY <1>4
<1>6. T \ {x} \notin Bad
  <2>1. <<T \ {x}, T>> \in StrictSubsetOrdering(S)
    BY <1>4, <1>5 DEF StrictSubsetOrdering
  <2> QED
    BY <1>4, <2>1
<1>7. (T \ {x}) \cup {x} = T /\ x \in S \ (T \ {x})
  BY <1>4, <1>5
<1> QED
  BY <1>4, <1>6, <1>7

\* f begins with v and follows the step.
Iterates(f, n, v, step) ==
  f[0] = v /\ \A i \in 1..n : f[i] = step[<<f[i - 1], i>>]

\* A value and a step make a function on 0..n.
LEMMA Iterate ==
  ASSUME NEW n \in Nat, NEW V, NEW v \in V, NEW step \in [V \X (1..n) -> V]
  PROVE  \E f \in [0..n -> V] : Iterates(f, n, v, step)
<1> DEFINE Good(k, f) == f[0] = v /\ \A i \in 1..k : f[i] = step[<<f[i - 1], i>>]
           P == {k \in 0..n : \E f \in [0..k -> V] : Good(k, f)}
<1>1. 0 \in P
  <2> DEFINE f == [i \in 0..0 |-> v]
  <2>1. f \in [0..0 -> V] /\ Good(0, f)
    OBVIOUS
  <2> HIDE DEF f, Good
  <2> QED
    BY <2>1
<1>2. ASSUME NEW k \in 0..n, k \in P, k < n PROVE k + 1 \in P
  <2>1. PICK f \in [0..k -> V] : Good(k, f)
    BY <1>2
  <2> DEFINE last == step[<<f[k], k + 1>>]
             g == [i \in 0..(k + 1) |-> IF i = k + 1 THEN last ELSE f[i]]
  <2>2. last \in V /\ k + 1 \in 0..n
    BY <1>2, <2>1
  <2>3. g \in [0..(k + 1) -> V]
    BY <2>1, <2>2
  <2>4. ASSUME NEW i \in 1..(k + 1) PROVE g[i] = step[<<g[i - 1], i>>]
    <3>1. g[i - 1] = f[i - 1]
      BY <2>1
    <3>2. CASE i = k + 1
      <4>1. g[i] = last /\ i - 1 = k
        BY <3>2
      <4> QED
        BY <3>1, <3>2, <4>1
    <3>3. CASE i \in 1..k
      BY <2>1, <3>1, <3>3
    <3> QED
      BY <3>2, <3>3
  <2>5. g[0] = v
    BY <2>1
  <2> HIDE DEF g
  <2>6. Good(k + 1, g)
    BY <2>4, <2>5
  <2> HIDE DEF Good
  <2> QED
    BY <2>2, <2>3, <2>6
<1>3. n \in P
  <2> HIDE DEF P
  <2> QED
    BY <1>1, <1>2, UpTo
<1> QED
  BY <1>3 DEF Iterates

\* P takes in an element of T if it takes in the smaller ones.
Inherits(P, T, size) ==
  /\ size \in [T -> Nat]
  /\ \A t \in T : (\A u \in T : size[u] < size[t] => u \in P) => t \in P

\* Then it takes in every one.
LEMMA BySize ==
  ASSUME NEW T, NEW size, NEW P, Inherits(P, T, size)
  PROVE  T \subseteq P
<1> SUFFICES ASSUME NEW t \in T, t \notin P PROVE FALSE
  OBVIOUS
<1>0. /\ size \in [T -> Nat]
      /\ \A u \in T : (\A w \in T : size[w] < size[u] => w \in P) => u \in P
  BY DEF Inherits
<1> DEFINE Bad == {size[u] : u \in T \ P}
<1>1. Bad \in SUBSET Nat /\ Bad # {}
  <2>1. \A u \in T : size[u] \in Nat
    BY <1>0
  <2>2. size[t] \in Bad
    OBVIOUS
  <2> QED
    BY <2>1, <2>2
<1>2. \E m \in Bad : \A k \in Bad : m <= k
  <2> HIDE DEF Bad
  <2> QED
    BY ONLY <1>1, LeastNatural
<1>3. PICK u \in T \ P : \A k \in Bad : size[u] <= k
  BY <1>2
<1>4. ASSUME NEW w \in T, size[w] < size[u] PROVE w \in P
  <2>1. size[w] \in Nat /\ size[u] \in Nat
    BY <1>0
  <2>2. w \notin P => size[u] <= size[w]
    BY <1>3
  <2> QED
    BY <1>4, <2>1, <2>2
<1> QED
  BY <1>0, <1>3, <1>4

\* F makes the value of an argument from the values of smaller ones.
Descends(F, T, V, size) ==
  /\ size \in [T -> Nat] /\ F \in [[T -> V] -> [T -> V]]
  /\ \A g, h \in [T -> V] : \A t \in T :
       (\A u \in T : size[u] < size[t] => g[u] = h[u]) => F[g][t] = F[h][t]

\* Then the function that it defines exists.
LEMMA Recursion ==
  ASSUME NEW T, NEW V, NEW v \in V, NEW size, NEW F, Descends(F, T, V, size)
  PROVE  \E g \in [T -> V] : g = F[g]
<1> DEFINE G == [T -> V]
           Good(g, k) == \A t \in T : size[t] < k => F[g][t] = g[t]
           P == {k \in Nat : \E g \in G : Good(g, k)}
<1>0. size \in [T -> Nat] /\ F \in [G -> G]
  BY DEF Descends
<1>1. \A g, h \in G : \A t \in T :
        (\A u \in T : size[u] < size[t] => g[u] = h[u]) => F[g][t] = F[h][t]
  BY DEF Descends
<1>2. 0 \in P
  <2> DEFINE g0 == [t \in T |-> v]
  <2>1. g0 \in G
    OBVIOUS
  <2>2. \A t \in T : ~ (size[t] < 0)
    BY <1>0
  <2> HIDE DEF g0, G
  <2> QED
    BY <2>1, <2>2
<1>3. ASSUME NEW k \in Nat, k \in P PROVE k + 1 \in P
  <2>1. PICK g \in G : Good(g, k)
    BY <1>3
  <2>2. F[g] \in G
    BY <1>0, <2>1
  <2>3. ASSUME NEW t \in T, size[t] < k + 1 PROVE F[F[g]][t] = F[g][t]
    <3>1. \A u \in T : size[u] < size[t] => F[g][u] = g[u]
      BY <1>0, <2>1, <2>3
    <3> QED
      BY <1>1, <2>1, <2>2, <3>1
  <2>4. Good(F[g], k + 1)
    BY <2>3
  <2> HIDE DEF Good, G
  <2> QED
    BY <2>2, <2>4
<1>4. \A k \in Nat : k \in P
  <2> HIDE DEF P
  <2> TAKE k \in Nat
  <2>1. \A i \in 0..k : i \in P /\ i < k => i + 1 \in P
    BY <1>3
  <2> QED
    BY <1>2, <2>1, FromZero
<1> DEFINE g(k) == CHOOSE g \in G : Good(g, k)
           r == [t \in T |-> g(size[t] + 1)[t]]
<1>5. \A k \in Nat : g(k) \in G /\ Good(g(k), k)
  <2> HIDE DEF G, Good
  <2> QED
    BY <1>4
<1> HIDE DEF g
<1>6. ASSUME NEW f \in G, NEW h \in G, NEW n \in Nat, Good(f, n), Good(h, n),
             NEW t \in T, size[t] < n
      PROVE  f[t] = h[t]
  <2> DEFINE Q == {k \in 0..n : \A u \in T : size[u] < k => f[u] = h[u]}
  <2>1. 0 \in Q
    BY <1>0
  <2>2. ASSUME NEW k \in 0..n, k \in Q, k < n PROVE k + 1 \in Q
    <3>1. ASSUME NEW u \in T, size[u] < k + 1 PROVE f[u] = h[u]
      <4>1. \A w \in T : size[w] < size[u] => f[w] = h[w]
        BY <1>0, <2>2, <3>1
      <4>2. F[f][u] = F[h][u]
        BY <1>1, <4>1
      <4>3. size[u] < n
        BY <1>0, <2>2, <3>1
      <4> QED
        BY <1>0, <1>6, <4>2, <4>3
    <3> QED
      BY <1>0, <2>2, <3>1
  <2>3. n \in Q
    <3> HIDE DEF Q
    <3> QED
      BY <2>1, <2>2, FromZero
  <2> QED
    BY <1>0, <1>6, <2>3
<1>7. r \in G
  <2>1. ASSUME NEW t \in T PROVE g(size[t] + 1)[t] \in V
    <3>1. g(size[t] + 1) \in G
      BY <1>0, <1>5
    <3> QED
      BY <3>1
  <2> QED
    BY <2>1
<1>8. ASSUME NEW t \in T PROVE F[r][t] = r[t]
  <2> DEFINE n == size[t] + 1
  <2>1. n \in Nat /\ size[t] < n /\ g(n) \in G /\ Good(g(n), n)
    BY <1>0, <1>5
  <2>2. ASSUME NEW u \in T, size[u] < size[t] PROVE r[u] = g(n)[u]
    <3> DEFINE m == size[u] + 1
    <3>1. m \in Nat /\ size[u] < m /\ m <= n /\ g(m) \in G /\ Good(g(m), m)
      BY <1>0, <1>5, <2>2
    <3>2. Good(g(n), m)
      BY <1>0, <2>1, <3>1
    <3>3. r[u] = g(m)[u]
      OBVIOUS
    <3> HIDE DEF Good, m, n, r, G
    <3> QED
      BY <1>6, <2>1, <3>1, <3>2, <3>3
  <2>3. F[r][t] = F[g(n)][t]
    <3> HIDE DEF n, r
    <3> QED
      BY <1>1, <1>7, <2>1, <2>2
  <2>4. F[g(n)][t] = g(n)[t]
    BY <2>1
  <2> QED
    BY <2>3, <2>4
<1>9. r = F[r]
  <2> HIDE DEF r
  <2>1. F[r] \in G
    BY <1>0, <1>7
  <2> QED
    BY <1>7, <1>8, <2>1
<1> QED
  BY <1>7, <1>9

-----------------------------------------------------------------------------
(* Sets as sequences, and back. *)

LEMMA ToSetFinite ==
  ASSUME NEW X, NEW s \in Seq(X)
  PROVE  IsFiniteSet(ToSet(s)) /\ ToSet(s) \subseteq X
<1>1. IsFiniteSet(DOMAIN s)
  BY FS_Interval
<1>2. s \in Surjection(DOMAIN s, ToSet(s))
  BY DEF ToSet, Surjection
<1> QED
  BY <1>1, <1>2, FS_Surjection DEF ToSet

LEMMA SetAsSequence ==
  ASSUME NEW S, IsFiniteSet(S)
  PROVE  /\ SetToSeq(S) \in Seq(S)
         /\ ToSet(SetToSeq(S)) = S
         /\ \A i, j \in DOMAIN SetToSeq(S) : SetToSeq(S)[i] = SetToSeq(S)[j] => i = j
<1> DEFINE n == Cardinality(S)
<1>1. n \in Nat /\ ExistsBijection(1..n, S)
  BY FS_CardinalityType
<1>2. \E f \in [1..n -> S] : IsInjective(f)
  BY <1>1 DEF ExistsBijection, Bijection, Injection, IsInjective
<1>3. SetToSeq(S) \in [1..n -> S] /\ IsInjective(SetToSeq(S))
  BY <1>2 DEF SetToSeq
<1>4. SetToSeq(S) \in Surjection(1..n, S)
  <2>1. SetToSeq(S) \in Injection(1..n, S)
    BY <1>3 DEF Injection
  <2>2. IsFiniteSet(1..n) /\ Cardinality(1..n) = n
    BY <1>1, FS_Interval
  <2> QED
    BY <2>1, <2>2, FS_Injection
<1> QED
  BY <1>1, <1>3, <1>4 DEF ToSet, IsInjective, Surjection

-----------------------------------------------------------------------------
(* Concatenation. *)

Joins(f, ss, X) ==
  /\ f \in [0..Len(ss) -> Seq(X)]
  /\ f[0] = <<>>
  /\ \A i \in 1..Len(ss) : f[i] = f[i - 1] \o ss[i]

\* FlattenSeq is defined by a recursive function; it has a value because the ones for
\* the shorter sequences have.
LEMMA FlattenJoins ==
  ASSUME NEW X, NEW ss \in Seq(Seq(X))
  PROVE  \E f : Joins(f, ss, X) /\ FlattenSeq(ss) = f[Len(ss)]
<1> DEFINE n == Len(ss)
           step == [p \in Seq(X) \X (1..n) |-> p[1] \o ss[p[2]]]
<1>1. n \in Nat /\ \A i \in 1..n : ss[i] \in Seq(X)
  OBVIOUS
<1>2. <<>> \in Seq(X) /\ step \in [Seq(X) \X (1..n) -> Seq(X)]
  BY <1>1
<1>3. PICK f \in [0..n -> Seq(X)] :
        f[0] = <<>> /\ \A i \in 1..n : f[i] = step[<<f[i - 1], i>>]
  <2> HIDE DEF n, step
  <2>1. \E f \in [0..n -> Seq(X)] : Iterates(f, n, <<>>, step)
    BY <1>1, <1>2, Iterate
  <2> QED
    BY <2>1 DEF Iterates
<1>4. ASSUME NEW i \in 1..n PROVE f[i - 1] \in Seq(X)
  <2>1. i - 1 \in 0..n
    BY <1>1
  <2> QED
    BY <2>1
<1>5. Joins(f, ss, X)
  BY <1>1, <1>3, <1>4 DEF Joins
<1>6. CASE n = 0
  <2>1. FlattenSeq(ss) = ss /\ ss = <<>>
    BY <1>6 DEF FlattenSeq
  <2> QED
    BY <1>5, <1>6, <2>1 DEF Joins
<1>7. CASE n # 0
  <2> DEFINE d(g) == [i \in 1..n |-> IF i = 1 THEN ss[i] ELSE g[i - 1] \o ss[i]]
             h == [i \in 1..n |-> f[i]]
             c == CHOOSE g : g = d(g)
  <2>1. h = d(h)
    <3>1. f[1] = ss[1]
      <4>1. 1 \in 1..Len(ss) /\ 1 - 1 = 0
        BY <1>1, <1>7
      <4>2. f[0] = <<>> /\ f[1] = f[0] \o ss[1]
        BY <1>5, <4>1 DEF Joins
      <4> QED
        BY <1>1, <4>1, <4>2
    <3>2. ASSUME NEW i \in 1..n PROVE h[i] = d(h)[i]
      <4>1. CASE i = 1
        BY <3>1, <4>1
      <4>2. CASE i # 1
        <5>1. i - 1 \in 1..n /\ i \in 1..Len(ss)
          BY <1>1, <4>2
        <5>2. f[i] = f[i - 1] \o ss[i]
          BY <1>5, <5>1 DEF Joins
        <5>3. h[i] = f[i - 1] \o ss[i] /\ h[i - 1] = f[i - 1]
          BY <5>1, <5>2
        <5> QED
          BY <4>2, <5>3
      <4> QED
        BY <4>1, <4>2
    <3> HIDE DEF d
    <3>3. DOMAIN d(h) = 1..n
      BY DEF d
    <3>4. d(h) = [i \in 1..n |-> d(h)[i]]
      BY DEF d
    <3> QED
      BY <3>2, <3>4
  <2>2. c = d(c)
    <3> HIDE DEF d, h
    <3> QED
      BY <2>1
  <2>3. FlattenSeq(ss) = c[n]
    BY <1>7 DEF FlattenSeq
  <2> HIDE DEF c
  <2> DEFINE Q == {i \in 1..n : c[i] = f[i]}
  <2>4. 1 \in Q
    <3>1. 1 \in 1..n
      BY <1>1, <1>7
    <3>2. c[1] = ss[1]
      BY <2>2, <3>1
    <3>3. f[1] = ss[1]
      BY <2>1, <3>1
    <3> QED
      BY <3>1, <3>2, <3>3
  <2>5. ASSUME NEW i \in 1..n, i \in Q, i < n PROVE i + 1 \in Q
    <3>1. i + 1 \in 1..n /\ i + 1 # 1 /\ (i + 1) - 1 = i
      BY <1>1, <2>5
    <3>2. c[i + 1] = c[i] \o ss[i + 1] /\ f[i + 1] = f[i] \o ss[i + 1]
      BY <1>5, <2>2, <3>1 DEF Joins
    <3> QED
      BY <2>5, <3>1, <3>2
  <2>6. n \in Q
    <3>1. 1 \in Nat /\ n \in Nat /\ n \in 1..n
      BY <1>1, <1>7
    <3> HIDE DEF Q
    <3> QED
      BY <2>4, <2>5, <3>1, UpTo
  <2> QED
    BY <1>5, <2>3, <2>6
<1> QED
  BY <1>6, <1>7

LEMMA JoinsStep ==
  ASSUME NEW X, NEW ss \in Seq(Seq(X)), NEW f, Joins(f, ss, X),
         NEW k \in 0..Len(ss), k < Len(ss)
  PROVE  /\ k + 1 \in 1..Len(ss)
         /\ f[k] \in Seq(X) /\ ss[k + 1] \in Seq(X)
         /\ f[k + 1] = f[k] \o ss[k + 1]
<1>1. k + 1 \in 1..Len(ss) /\ (k + 1) - 1 = k
  OBVIOUS
<1>2. f[k + 1] = f[(k + 1) - 1] \o ss[k + 1]
  BY <1>1 DEF Joins
<1>3. f[k] \in Seq(X)
  BY DEF Joins
<1> QED
  BY <1>1, <1>2, <1>3

LEMMA FlattenInSeq ==
  ASSUME NEW X, NEW ss \in Seq(Seq(X))
  PROVE  FlattenSeq(ss) \in Seq(X)
<1>1. PICK f : Joins(f, ss, X) /\ FlattenSeq(ss) = f[Len(ss)]
  BY FlattenJoins
<1> QED
  BY <1>1 DEF Joins

LEMMA ConcatSet ==
  ASSUME NEW X, NEW s \in Seq(X), NEW t \in Seq(X)
  PROVE  ToSet(s \o t) = ToSet(s) \cup ToSet(t)
<1>1. ASSUME NEW x \in ToSet(s \o t) PROVE x \in ToSet(s) \cup ToSet(t)
  BY DEF ToSet
<1>2. ASSUME NEW i \in DOMAIN s PROVE s[i] \in ToSet(s \o t)
  <2>1. i \in DOMAIN (s \o t) /\ (s \o t)[i] = s[i]
    OBVIOUS
  <2> QED
    BY <2>1 DEF ToSet
<1>3. ASSUME NEW i \in DOMAIN t PROVE t[i] \in ToSet(s \o t)
  <2>1. Len(s) + i \in DOMAIN (s \o t) /\ (s \o t)[Len(s) + i] = t[i]
    OBVIOUS
  <2> QED
    BY <2>1 DEF ToSet
<1> QED
  BY <1>1, <1>2, <1>3 DEF ToSet

\* What is in a concatenation is what is in its parts.
LEMMA FlattenToSet ==
  ASSUME NEW X, NEW ss \in Seq(Seq(X))
  PROVE  ToSet(FlattenSeq(ss)) = UNION {ToSet(ss[i]) : i \in DOMAIN ss}
<1> DEFINE n == Len(ss)
           Up(k) == UNION {ToSet(ss[i]) : i \in 1..k}
<1>1. PICK f : Joins(f, ss, X) /\ FlattenSeq(ss) = f[n]
  BY FlattenJoins
<1>2. n \in Nat /\ \A i \in 1..n : ss[i] \in Seq(X)
  OBVIOUS
<1> DEFINE P == {k \in 0..n : ToSet(f[k]) = Up(k)}
<1>3. 0 \in P
  <2>1. ToSet(<<>>) = {} /\ Up(0) = {}
    BY DEF ToSet
  <2> QED
    BY <1>1, <1>2, <2>1 DEF Joins
<1>4. ASSUME NEW k \in 0..n, k \in P, k < n PROVE k + 1 \in P
  <2>1. /\ k + 1 \in 1..n
        /\ f[k] \in Seq(X) /\ ss[k + 1] \in Seq(X)
        /\ f[k + 1] = f[k] \o ss[k + 1]
    <3>1. k \in 0..Len(ss) /\ k < Len(ss)
      BY <1>4
    <3> HIDE DEF P, Up
    <3> QED
      BY <1>1, <3>1, JoinsStep
  <2>2. ToSet(f[k + 1]) = ToSet(f[k]) \cup ToSet(ss[k + 1])
    BY <2>1, ConcatSet
  <2>3. 1..(k + 1) = 1..k \cup {k + 1}
    BY <1>4
  <2>4. Up(k + 1) = Up(k) \cup ToSet(ss[k + 1])
    BY <2>3
  <2>5. ToSet(f[k]) = Up(k) /\ k + 1 \in 0..n
    BY <1>2, <1>4
  <2>6. ToSet(f[k + 1]) = Up(k + 1)
    BY <2>2, <2>4, <2>5
  <2> HIDE DEF Up
  <2> QED
    BY <2>5, <2>6
<1>5. n \in P
  <2> HIDE DEF P, n
  <2> QED
    BY <1>2, <1>3, <1>4, FromZero
<1>6. ToSet(f[n]) = Up(n) /\ DOMAIN ss = 1..n
  BY <1>5
<1> QED
  BY <1>1, <1>6

-----------------------------------------------------------------------------
(* A set listed by a fold. *)

Enumerates(l, S) ==
  l \in Seq(S) /\ ToSet(l) = S /\ \A i, j \in DOMAIN l : l[i] = l[j] => i = j

LEMMA OneMore ==
  ASSUME NEW S, NEW x \in S, NEW l, Enumerates(l, S \ {x})
  PROVE  Enumerates(Append(l, x), S)
<1> DEFINE m == Append(l, x)
           n == Len(l)
<1>1. /\ l \in Seq(S) /\ n \in Nat /\ DOMAIN l = 1..n
      /\ \A i \in 1..n : l[i] \in S \ {x}
      /\ \A y \in S \ {x} : \E i \in 1..n : l[i] = y
  BY DEF Enumerates, ToSet
<1>2. /\ m \in Seq(S) /\ DOMAIN m = 1..n \cup {n + 1} /\ n + 1 \notin 1..n
      /\ m[n + 1] = x /\ \A i \in 1..n : m[i] = l[i]
  BY <1>1
<1> HIDE DEF m
<1>3. ToSet(m) = S
  BY <1>1, <1>2 DEF ToSet
<1>4. \A i, j \in DOMAIN m : m[i] = m[j] => i = j
  BY <1>1, <1>2 DEF Enumerates
<1> QED
  BY <1>2, <1>3, <1>4 DEF Enumerates, m

\* FoldSet is defined by a recursive function on the subsets, which has a value because
\* the ones for the smaller subsets have.
LEMMA FoldLists ==
  ASSUME NEW S, IsFiniteSet(S)
  PROVE  Enumerates(FoldSet(LAMBDA x, list : Append(list, x), <<>>, S), S)
<1> DEFINE c(s) == CHOOSE x \in s : TRUE
           D(g) == [s \in SUBSET S |-> IF s = {} THEN <<>> ELSE Append(g[s \ {c(s)}], c(s))]
           V == [SUBSET S -> Seq(S)]
           n == Cardinality(S)
           size(s) == Cardinality(s)
<1>1. /\ n \in Nat
      /\ \A s \in SUBSET S : IsFiniteSet(s) /\ size(s) \in 0..n
  BY FS_CardinalityType, FS_Subset
<1>2. \A s \in SUBSET S : s # {} => /\ c(s) \in s /\ s \ {c(s)} \in SUBSET S
                                   /\ size(s) # 0 /\ size(s \ {c(s)}) = size(s) - 1
  <2> SUFFICES ASSUME NEW s \in SUBSET S, s # {}
               PROVE  /\ c(s) \in s /\ s \ {c(s)} \in SUBSET S
                      /\ size(s) # 0 /\ size(s \ {c(s)}) = size(s) - 1
    OBVIOUS
  <2>1. c(s) \in s
    OBVIOUS
  <2> HIDE DEF c
  <2>2. IsFiniteSet(s) /\ size(s) # 0
    BY <1>1, FS_EmptySet
  <2>3. size(s \ {c(s)}) = size(s) - 1
    BY ONLY <2>1, <2>2, FS_RemoveElement
  <2> QED
    BY <2>1, <2>2, <2>3
<1> HIDE DEF c, n, size
<1>3. \A g \in V : D(g) \in V
  <2> SUFFICES ASSUME NEW g \in V PROVE D(g) \in V
    OBVIOUS
  <2>1. ASSUME NEW s \in SUBSET S, s # {} PROVE Append(g[s \ {c(s)}], c(s)) \in Seq(S)
    <3>1. g[s \ {c(s)}] \in Seq(S) /\ c(s) \in S
      BY <1>2, <2>1
    <3> QED
      BY <3>1
  <2>2. <<>> \in Seq(S)
    OBVIOUS
  <2> QED
    BY <2>1, <2>2
<1>4. \E g : g = D(g)
  <2> DEFINE step == [p \in V \X (1..n) |-> D(p[1])]
             v == [s \in SUBSET S |-> <<>>]
  <2>1. v \in V
    OBVIOUS
  <2> HIDE DEF V, D, v
  <2>10. step \in [V \X (1..n) -> V] /\ \A g \in V : \A i \in 1..n : step[<<g, i>>] = D(g)
    BY <1>3
  <2> HIDE DEF step
  <2>2. PICK f \in [0..n -> V] : Iterates(f, n, v, step)
    BY <1>1, <2>1, <2>10, Iterate
  <2>3. \A i \in 1..n : f[i] = D(f[i - 1])
    <3> SUFFICES ASSUME NEW i \in 1..n PROVE f[i] = D(f[i - 1])
      OBVIOUS
    <3>1. i - 1 \in 0..n /\ f[i] = step[<<f[i - 1], i>>]
      BY <1>1, <2>2 DEF Iterates
    <3>2. f[i - 1] \in V
      BY <3>1
    <3> QED
      BY <2>10, <3>1, <3>2
  <2> DEFINE P == {k \in 0..n : \A s \in SUBSET S : size(s) <= k => D(f[k])[s] = f[k][s]}
  <2>4. 0 \in P
    <3>1. ASSUME NEW s \in SUBSET S, size(s) <= 0 PROVE D(f[0])[s] = f[0][s]
      <4>3. size(s) = 0
        BY <1>1, <3>1
      <4>1. s = {}
        BY <1>2, <4>3
      <4>2. f[0][s] = <<>>
        BY <2>2 DEF Iterates, v
      <4> QED
        BY <4>1, <4>2 DEF D
    <3> QED
      BY <1>1, <3>1
  <2>5. ASSUME NEW k \in 0..n, k \in P, k < n PROVE k + 1 \in P
    <3>1. k + 1 \in 1..n /\ k + 1 \in 0..n /\ (k + 1) - 1 = k
      BY <1>1, <2>5
    <3>2. f[k + 1] = D(f[k])
      BY <2>3, <3>1
    <3>3. ASSUME NEW s \in SUBSET S, size(s) <= k + 1 PROVE D(f[k + 1])[s] = f[k + 1][s]
      <4>1. CASE s = {}
        BY <3>2, <4>1 DEF D
      <4>2. CASE s # {}
        <5>1. s \ {c(s)} \in SUBSET S /\ size(s \ {c(s)}) <= k
          BY <1>1, <1>2, <3>3, <4>2
        <5>2. f[k + 1][s \ {c(s)}] = f[k][s \ {c(s)}]
          BY <2>5, <3>2, <5>1
        <5> QED
          BY <3>2, <4>2, <5>2 DEF D
      <4> QED
        BY <4>1, <4>2
    <3> QED
      BY <3>1, <3>3
  <2>6. n \in P
    <3> HIDE DEF P
    <3> QED
      BY <1>1, <2>4, <2>5, FromZero
  <2>7. f[n] \in [SUBSET S -> Seq(S)] /\ D(f[n]) \in [SUBSET S -> Seq(S)]
    <3>1. f[n] \in V
      BY <1>1, <2>2
    <3> QED
      BY <1>3, <3>1 DEF V
  <2>8. \A s \in SUBSET S : D(f[n])[s] = f[n][s]
    BY <1>1, <2>6
  <2>9. f[n] = D(f[n])
    BY <2>7, <2>8
  <2> QED
    BY <2>9
<1> DEFINE g == CHOOSE h : h = D(h)
<1>5. g = D(g)
  BY <1>4
<1>6. FoldSet(LAMBDA x, list : Append(list, x), <<>>, S) = g[S]
  BY DEF FoldSet, MapThenFoldSet, c
<1> HIDE DEF g
<1>7. \A s \in SUBSET S : g[s] = IF s = {} THEN <<>> ELSE Append(g[s \ {c(s)}], c(s))
  BY <1>5
<1> HIDE DEF D
<1> DEFINE Q == {k \in 0..n : \A s \in SUBSET S : size(s) <= k => Enumerates(g[s], s)}
<1>13. Enumerates(<<>>, {})
  <2>1. /\ <<>> \in Seq({})
        /\ \A i \in DOMAIN <<>> : FALSE
        /\ {<<>>[i] : i \in DOMAIN <<>>} = {}
    OBVIOUS
  <2> QED
    BY <2>1 DEF Enumerates, ToSet
<1>8. 0 \in Q
  <2>1. ASSUME NEW s \in SUBSET S, size(s) <= 0 PROVE Enumerates(g[s], s)
    <3>1. size(s) = 0
      BY <1>1, <2>1
    <3>2. s = {}
      BY <1>2, <3>1
    <3> QED
      BY <1>7, <1>13, <3>2
  <2> QED
    BY <1>1, <2>1
<1>9. ASSUME NEW k \in 0..n, k \in Q, k < n PROVE k + 1 \in Q
  <2>1. ASSUME NEW s \in SUBSET S, size(s) <= k + 1 PROVE Enumerates(g[s], s)
    <3>1. CASE s = {}
      BY <1>7, <1>13, <3>1
    <3>2. CASE s # {}
      <4>1. s \ {c(s)} \in SUBSET S /\ size(s \ {c(s)}) <= k /\ c(s) \in s
        BY <1>1, <1>2, <2>1, <3>2
      <4>2. Enumerates(g[s \ {c(s)}], s \ {c(s)})
        BY <1>9, <4>1
      <4>3. g[s] = Append(g[s \ {c(s)}], c(s))
        BY <1>7, <3>2
      <4> QED
        BY <4>1, <4>2, <4>3, OneMore
    <3> QED
      BY <3>1, <3>2
  <2>2. k + 1 \in 0..n
    BY <1>1, <1>9
  <2> QED
    BY <2>1, <2>2
<1>10. n \in Q
  <2> HIDE DEF Q
  <2> QED
    BY <1>1, <1>8, <1>9, FromZero
<1>11. S \in SUBSET S /\ size(S) <= n
  BY <1>1 DEF n, size
<1> QED
  BY <1>6, <1>10, <1>11
=============================================================================
